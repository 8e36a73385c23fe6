--------------------------- MODULE SellPassProofs ---------------------------
(***************************************************************************)
(* Theorems about SellPass, for every number of scans, serial or           *)
(* overlapping, every setting of the rules and every bound.                *)
(*                                                                         *)
(* The argument for the bound on repeated alerts: every stored signal has  *)
(* an owner, the scan that stored it.  A scan sees its own signals even in *)
(* a stale snapshot, so two signals of one owner, rule and buy are a       *)
(* cooldown apart, and a cooldown holds no more of them than there are     *)
(* scans (Owned).  When scans do not overlap, the one under way passes for *)
(* the owner of them all (Sole).  What a pass holds in hand is as old as   *)
(* its reads: buys and signals are only ever added to and watermarks only  *)
(* rise, so a fact about it stays true (Facts).                            *)
(***************************************************************************)
EXTENDS SellPass, FiniteSetTheorems, WellFoundedInduction, TLAPS

Busy == {"decide", "insert", "send", "flip", "mark"}

(* One copy of the tables stays within the bounds.                         *)
Sized(rows) ==
  /\ Len(rows.buys) <= MaxBuys
  /\ \A i \in DOMAIN rows.sells : rows.sells[i].detected <= MaxClock

SizesOK == Sized(db) /\ \A p \in Scans : Sized(snap[p].rows)

(* What a pass has in hand is in the tables it reads, and the row it sends *)
(* is stored, not sent before it is and acknowledged before it is marked.  *)
PassOK(p) ==
  /\ scan[p].now <= clock
  /\ scan[p].pc = "idle" => ~snap[p].pinned
  /\ todo[p] \subseteq 1 .. Len(View(p).buys)
  /\ scan[p].pc \notin Busy => hold[p] = NoHold
  /\ scan[p].pc \in Busy => /\ hold[p].buy \in 1 .. Len(View(p).buys)
                            /\ hold[p].price \in Prices
  /\ scan[p].pc = "insert" => hold[p].rule \in Rules
  /\ scan[p].pc \in {"send", "flip"} => hold[p].row \in 1 .. Len(db.sells)
  /\ scan[p].pc = "send" => calls[hold[p].row] = 0
  /\ scan[p].pc = "flip" => acked[hold[p].row]

PassesOK == \A p \in Scans : PassOK(p)

(* Scans that may still store a signal.                                    *)
Storing == {p \in Scans : scan[p].pc \in {"decide", "insert"}}

RoomOK == Len(db.sells) + Cardinality(Storing) <= MaxSells

RowsOK ==
  /\ \A i \in SellIds : i > Len(db.sells) => calls[i] = 0
  /\ \A p, q \in Scans :
       scan[p].pc \in {"send", "flip"} /\ scan[q].pc \in {"send", "flip"} /\ p # q
         => hold[p].row # hold[q].row

Inv == TypeOK /\ SizesOK /\ PassesOK /\ RoomOK /\ RowsOK /\ SentOnce

(* Signals, or a decision and a signal, of one rule on one buy.            *)
Kin(a, b) == a.buy = b.buy /\ a.rule = b.rule

(* Two versions of one signal, and two versions of the signals.            *)
Alike(a, b) == Kin(a, b) /\ a.detected = b.detected

SameSells(old, new) ==
  /\ DOMAIN new.sells = DOMAIN old.sells
  /\ \A i \in DOMAIN old.sells : Alike(new.sells[i], old.sells[i])

(* own[i] is the scan that stored signal i.                                *)
Apart(own) ==
  \A i, j \in DOMAIN db.sells :
    i < j /\ own[i] = own[j] /\ Kin(db.sells[i], db.sells[j])
      => db.sells[j].detected - db.sells[i].detected >= CooldownHours

(* A scan under way reads what it has stored itself, and is about to store *)
(* only what its own signals allow.                                        *)
Knows(own, p) ==
  scan[p].pc # "idle" => \A i \in DOMAIN db.sells : own[i] = p =>
    /\ db.sells[i].detected <= scan[p].now
    /\ i \in DOMAIN View(p).sells
    /\ Alike(View(p).sells[i], db.sells[i])
    /\ scan[p].pc = "insert" /\ Kin(hold[p], db.sells[i])
         => scan[p].now - db.sells[i].detected >= CooldownHours

Owns(own) ==
  /\ Apart(own)
  /\ \A i \in DOMAIN db.sells : db.sells[i].detected <= clock
  /\ \A p \in Scans : Knows(own, p)

Owned == \E own : Owns(own) /\ \A i \in DOMAIN db.sells : own[i] \in Scans

-----------------------------------------------------------------------------
(* Sets of numbers and of scans.                                           *)

LEMMA HasLeast ==
  ASSUME NEW T \in SUBSET Nat, T # {} PROVE \E m \in T : \A n \in T : m <= n
  <1> DEFINE Less == OpToRel(<, Nat)
  <1>1. \E m \in T : \A n \in T : ~ (<<n, m>> \in Less)
    BY NatLessThanWellFounded, WFMin, Zenon
  <1>2. \A a, b \in Nat : a < b => <<a, b>> \in Less
    BY DEF OpToRel
  <1>3. \E m \in T : \A n \in T : ~(n < m)
    <2> HIDE DEF Less
    <2> QED BY <1>1, <1>2, T \subseteq Nat, Zenon
  <1> QED BY <1>3

LEMMA HasGreatest ==
  ASSUME NEW max \in Nat, NEW T \in SUBSET (0 .. max), T # {}
  PROVE  \E m \in T : \A n \in T : n <= m
  <1> DEFINE Below == {t \in Nat : t <= max /\ max - t \in T}
  <1>1. Below \in SUBSET Nat /\ Below # {}
    <2>1. PICK t \in T : TRUE
      OBVIOUS
    <2>2. max - t \in Nat /\ max - t <= max /\ max - (max - t) = t
      OBVIOUS
    <2> QED BY <2>1, <2>2
  <1>2. \E b \in Below : \A c \in Below : b <= c
    <2> HIDE DEF Below
    <2> QED BY <1>1, HasLeast
  <1>3. PICK b \in Below : \A c \in Below : b <= c
    BY <1>2
  <1>4. ASSUME NEW n \in T PROVE n <= max - b
    <2>1. n \in Nat /\ max - n \in Nat /\ max - n <= max /\ max - (max - n) = n
      OBVIOUS
    <2>2. max - n \in Below /\ b \in Nat
      BY <2>1, <1>3
    <2>3. b <= max - n
      BY <1>3, <2>2
    <2> QED BY <2>1, <2>2, <2>3
  <1> QED BY <1>3, <1>4

LEMMA FewerStoring ==
  ASSUME NEW S \in SUBSET Scans, NEW T \in SUBSET S
  PROVE  /\ Cardinality(S) \in Nat /\ Cardinality(T) \in Nat
         /\ Cardinality(T) <= Cardinality(S)
         /\ \A p \in S \ T : Cardinality(T) + 1 <= Cardinality(S)
  <1>1. IsFiniteSet(S) /\ IsFiniteSet(T)
    BY SellAssumption, FS_Subset
  <1>2. Cardinality(S) \in Nat /\ Cardinality(T) \in Nat /\ Cardinality(T) <= Cardinality(S)
    BY <1>1, FS_CardinalityType, FS_Subset
  <1>3. ASSUME NEW p \in S \ T PROVE Cardinality(T) + 1 <= Cardinality(S)
    <2>1. Cardinality(S \ {p}) = Cardinality(S) - 1 /\ IsFiniteSet(S \ {p})
      BY <1>1, FS_RemoveElement
    <2>2. Cardinality(T) <= Cardinality(S \ {p})
      BY <2>1, FS_Subset
    <2> QED BY <1>2, <2>1, <2>2
  <1> QED BY <1>2, <1>3

-----------------------------------------------------------------------------
(* One copy of the tables.                                                 *)

LEMMA PricesAreNumbers == \A x \in Prices \cup {Untracked} : x \in Nat
  <1>1. Prices \subseteq Nat \ {0}
    BY SellAssumption, Zenon DEF SellAssumption
  <1>2. Untracked \in Nat
    BY DEF Untracked
  <1> QED BY <1>1, <1>2, Zenon

LEMMA EmptyRows == Empty \in Rows /\ Sized(Empty)
  BY SellAssumption DEF Empty, Rows, Sized, Sell, Buy

LEMMA RowsTyped ==
  ASSUME NEW rows \in Rows
  PROVE  /\ rows.buys \in Seq(Buy) /\ Len(rows.buys) \in Nat
         /\ DOMAIN rows.buys = 1 .. Len(rows.buys)
         /\ \A b \in 1 .. Len(rows.buys) : rows.buys[b].entry \in Prices
         /\ rows.sells \in Seq(Sell) /\ Len(rows.sells) \in Nat
         /\ DOMAIN rows.sells = 1 .. Len(rows.sells)
         /\ \A i \in 1 .. Len(rows.sells) : rows.sells[i] \in Sell
         /\ rows.marks \in [BuyIds -> Prices \cup {Untracked}]
         /\ rows.close \in Prices \cup {NoPrice}
  <1>1. /\ rows.buys \in Seq(Buy) /\ rows.sells \in Seq(Sell)
        /\ rows.marks \in [BuyIds -> Prices \cup {Untracked}]
        /\ rows.close \in Prices \cup {NoPrice}
    BY DEF Rows
  <1>2. \A b \in 1 .. Len(rows.buys) : rows.buys[b] \in Buy
    BY <1>1
  <1>3. \A i \in 1 .. Len(rows.sells) : rows.sells[i] \in Sell
    BY <1>1
  <1> QED BY <1>1, <1>2, <1>3 DEF Buy

LEMMA BuyStored ==
  ASSUME NEW rows \in Rows, Sized(rows), Len(rows.buys) < MaxBuys, NEW price \in Prices,
         NEW new, new = [rows EXCEPT !.buys = Append(@, [entry |-> price, soldAt |-> Open])]
  PROVE  /\ new \in Rows /\ Sized(new)
         /\ new.sells = rows.sells /\ new.marks = rows.marks
         /\ Len(new.buys) = Len(rows.buys) + 1
  <1>1. [entry |-> price, soldAt |-> Open] \in Buy
    BY DEF Buy
  <1>2. new.buys = Append(rows.buys, [entry |-> price, soldAt |-> Open])
    BY DEF Rows
  <1>3. new.buys \in Seq(Buy) /\ Len(new.buys) = Len(rows.buys) + 1
    BY <1>1, <1>2, RowsTyped
  <1>4. new \in Rows /\ new.sells = rows.sells /\ new.marks = rows.marks
    BY <1>2, <1>3 DEF Rows
  <1> QED BY <1>3, <1>4, RowsTyped, SellAssumption DEF Sized

LEMMA SaleStored ==
  ASSUME NEW rows \in Rows, Sized(rows), NEW b \in DOMAIN rows.buys, NEW t \in Nat,
         NEW new, new = [rows EXCEPT !.buys[b].soldAt = t]
  PROVE  /\ new \in Rows /\ Sized(new)
         /\ new.sells = rows.sells /\ new.marks = rows.marks
         /\ Len(new.buys) = Len(rows.buys)
  <1>1. new.buys = [rows.buys EXCEPT ![b] = [@ EXCEPT !.soldAt = t]]
    BY DEF Rows
  <1>2. new.buys \in Seq(Buy) /\ Len(new.buys) = Len(rows.buys)
    <2>1. rows.buys \in Seq(Buy) /\ b \in 1 .. Len(rows.buys)
      BY RowsTyped
    <2>2. rows.buys[b] \in Buy
      BY <2>1
    <2>3. [rows.buys[b] EXCEPT !.soldAt = t] \in Buy
      BY <2>2 DEF Buy
    <2> QED BY <1>1, <2>1, <2>3
  <1> QED BY <1>2, RowsTyped DEF Rows, Sized

LEMMA CloseStored ==
  ASSUME NEW rows \in Rows, Sized(rows), NEW price \in Prices,
         NEW new, new = [rows EXCEPT !.close = price]
  PROVE  /\ new \in Rows /\ Sized(new)
         /\ new.sells = rows.sells /\ new.marks = rows.marks /\ new.buys = rows.buys
  BY DEF Rows, Sized

LEMMA SellStored ==
  ASSUME NEW rows \in Rows, Sized(rows), NEW h, NEW now \in 0 .. MaxClock,
         h.buy \in BuyIds, h.rule \in Rules, h.price \in Prices,
         NEW new, new = WithSell(rows, h, now)
  PROVE  /\ new \in Rows /\ Sized(new)
         /\ new.marks = rows.marks /\ new.buys = rows.buys
         /\ Len(new.sells) = Len(rows.sells) + 1
         /\ \A i \in 1 .. Len(rows.sells) : new.sells[i] = rows.sells[i]
         /\ new.sells[Len(rows.sells) + 1] =
              [buy |-> h.buy, rule |-> h.rule, price |-> h.price, detected |-> now,
               alerted |-> FALSE]
  <1> DEFINE sell == [buy |-> h.buy, rule |-> h.rule, price |-> h.price, detected |-> now,
                      alerted |-> FALSE]
  <1>1. sell \in Sell
    BY SellAssumption DEF Sell
  <1>2. new.sells = Append(rows.sells, sell) /\ new.buys = rows.buys
        /\ new.marks = rows.marks /\ new.close = rows.close
    BY DEF WithSell, Rows
  <1>3. /\ new.sells \in Seq(Sell) /\ Len(new.sells) = Len(rows.sells) + 1
        /\ \A i \in 1 .. Len(rows.sells) : new.sells[i] = rows.sells[i]
        /\ new.sells[Len(rows.sells) + 1] = sell
    <2> HIDE DEF sell
    <2> QED BY <1>1, <1>2, RowsTyped
  <1>4. new \in Rows
    BY <1>3, <1>2 DEF WithSell, Rows
  <1>5. Sized(new)
    BY <1>2, <1>3, RowsTyped, SellAssumption DEF Sized
  <1> QED BY <1>2, <1>3, <1>4, <1>5

LEMMA FlipStored ==
  ASSUME NEW rows \in Rows, Sized(rows), NEW k \in 1 .. Len(rows.sells),
         NEW new, new = [rows EXCEPT !.sells[k].alerted = TRUE]
  PROVE  /\ new \in Rows /\ Sized(new)
         /\ new.marks = rows.marks /\ new.buys = rows.buys
         /\ Len(new.sells) = Len(rows.sells) /\ SameSells(rows, new)
         /\ \A i \in 1 .. Len(rows.sells) : i # k => new.sells[i] = rows.sells[i]
  <1>1. /\ new.sells = [rows.sells EXCEPT ![k] = [@ EXCEPT !.alerted = TRUE]]
        /\ new.buys = rows.buys /\ new.marks = rows.marks /\ new.close = rows.close
    BY DEF Rows
  <1>2. rows.sells \in Seq(Sell) /\ rows.sells[k] \in Sell
    BY RowsTyped
  <1>3. [rows.sells[k] EXCEPT !.alerted = TRUE] \in Sell
    BY <1>2 DEF Sell
  <1>4. new.sells \in Seq(Sell) /\ Len(new.sells) = Len(rows.sells)
    BY <1>1, <1>2, <1>3
  <1>5. ASSUME NEW i \in 1 .. Len(rows.sells)
        PROVE  /\ Kin(new.sells[i], rows.sells[i])
               /\ new.sells[i].detected = rows.sells[i].detected
               /\ i # k => new.sells[i] = rows.sells[i]
    BY <1>1, <1>2, RowsTyped DEF Kin, Sell
  <1>6. new \in Rows
    BY <1>4, <1>1 DEF Rows
  <1>7. SameSells(rows, new) /\ Sized(new)
    <2>1. DOMAIN rows.sells = 1 .. Len(rows.sells) /\ DOMAIN new.sells = 1 .. Len(rows.sells)
      BY <1>4, <1>6, RowsTyped
    <2>2. SameSells(rows, new)
      BY <1>5, <2>1 DEF SameSells, Alike
    <2>3. \A i \in 1 .. Len(rows.sells) : new.sells[i].detected <= MaxClock
      BY <1>5, <2>1 DEF Sized
    <2> QED BY <1>1, <2>1, <2>2, <2>3 DEF Sized
  <1> QED BY <1>1, <1>4, <1>5, <1>6, <1>7

LEMMA MarkStored ==
  ASSUME NEW rows \in Rows, Sized(rows), NEW b \in BuyIds, NEW price \in Prices,
         NEW new, new = RaisedMark(rows, b, price)
  PROVE  /\ new \in Rows /\ Sized(new)
         /\ new.sells = rows.sells /\ new.buys = rows.buys
         /\ \A c \in BuyIds : new.marks[c] >= rows.marks[c]
  <1>1. rows.marks \in [BuyIds -> Prices \cup {Untracked}] /\ Prices \subseteq Nat
    BY RowsTyped, SellAssumption
  <1>2. /\ new.marks = [rows.marks EXCEPT ![b] = IF @ >= price THEN @ ELSE price]
        /\ new.buys = rows.buys /\ new.sells = rows.sells /\ new.close = rows.close
    BY DEF RaisedMark, Rows
  <1>3. new.marks \in [BuyIds -> Prices \cup {Untracked}]
    BY <1>1, <1>2
  <1>4. new \in Rows
    BY <1>3, <1>2 DEF RaisedMark, Rows
  <1>5. ASSUME NEW c \in BuyIds PROVE rows.marks[c] \in Nat
    <2>1. rows.marks[c] \in Prices \cup {Untracked}
      BY <1>1
    <2> QED BY <2>1, PricesAreNumbers, Zenon
  <1>6. \A c \in BuyIds : new.marks[c] >= rows.marks[c]
    BY <1>1, <1>2, <1>5
  <1> QED BY <1>2, <1>4, <1>6 DEF Sized

-----------------------------------------------------------------------------
(* What steps have in common.                                              *)

LEMMA ViewTyped ==
  ASSUME TypeOK, SizesOK, NEW p \in Scans
  PROVE  /\ View(p) \in Rows /\ Sized(View(p))
         /\ db \in Rows /\ Sized(db)
         /\ ~snap[p].pinned => View(p) = db
         /\ snap[p] \in [pinned: BOOLEAN, rows: Rows]
  BY DEF TypeOK, SizesOK, View

LEMMA Committed ==
  ASSUME TypeOK, SizesOK, NEW p \in Scans, NEW rows \in Rows, Sized(rows), Publish(p, rows)
  PROVE  /\ View(p) = db
         /\ db' = rows /\ db' \in Rows /\ View(p)' = rows /\ ~snap'[p].pinned
         /\ snap' \in [Scans -> [pinned: BOOLEAN, rows: Rows]]
         /\ SizesOK'
         /\ \A q \in Scans \ {p} : snap'[q] = snap[q]
  <1>1. Live \in [pinned: BOOLEAN, rows: Rows] /\ Sized(Live.rows) /\ Live.pinned = FALSE
    BY EmptyRows DEF Live
  <1>2. /\ snap \in [Scans -> [pinned: BOOLEAN, rows: Rows]]
        /\ snap' = [snap EXCEPT ![p] = Live] /\ db' = rows /\ View(p) = db
    BY DEF TypeOK, Publish, CanWrite
  <1>3. /\ snap'[p] = Live /\ \A q \in Scans \ {p} : snap'[q] = snap[q]
        /\ snap' \in [Scans -> [pinned: BOOLEAN, rows: Rows]]
    BY <1>1, <1>2
  <1>4. SizesOK'
    BY <1>1, <1>2, <1>3 DEF SizesOK, Sized
  <1> QED BY <1>1, <1>2, <1>3, <1>4 DEF View

LEMMA Bounded ==
  ASSUME Inv
  PROVE  /\ Len(db.sells) \in Nat /\ Len(db.sells) <= MaxSells
         /\ MaxSells \in Nat
         /\ \A p \in Storing : Len(db.sells) < MaxSells
  <1>1. Len(db.sells) \in Nat /\ MaxSells \in Nat
    BY RowsTyped, SellAssumption DEF Inv, TypeOK
  <1>2. Storing \in SUBSET Scans /\ {} \in SUBSET Storing /\ Cardinality({}) = 0
    BY FS_EmptySet DEF Storing
  <1>3. Cardinality(Storing) \in Nat
    BY <1>2, FewerStoring
  <1>4. \A p \in Storing : Cardinality(Storing) >= 1
    BY <1>2, FewerStoring
  <1> QED BY <1>1, <1>3, <1>4 DEF Inv, RoomOK

(* Scan q does nothing.                                                    *)
Leaves(q) ==
  /\ scan'[q] = scan[q] /\ todo'[q] = todo[q] /\ hold'[q] = hold[q]
  /\ snap'[q] = snap[q]

LEMMA OtherKept ==
  ASSUME Inv, NEW q \in Scans, Leaves(q), db' \in Rows,
         clock' \in Nat, clock' >= clock,
         Len(db'.buys) >= Len(db.buys), Len(db'.sells) >= Len(db.sells),
         scan[q].pc = "send" => calls'[hold[q].row] = calls[hold[q].row],
         scan[q].pc = "flip" /\ acked[hold[q].row] => acked'[hold[q].row]
  PROVE  PassOK(q)'
  <1>1. PassOK(q) /\ scan[q].now \in Nat /\ clock \in Nat
    BY SellAssumption DEF Inv, PassesOK, TypeOK
  <1>2. /\ View(q) \in Rows /\ db \in Rows
        /\ View(q)' = IF snap[q].pinned THEN snap[q].rows ELSE db'
    BY ViewTyped DEF Inv, View, Leaves
  <1>3. /\ Len(View(q)'.buys) >= Len(View(q).buys)
        /\ Len(View(q).buys) \in Nat /\ Len(View(q)'.buys) \in Nat
        /\ Len(db.sells) \in Nat /\ Len(db'.sells) \in Nat
    <2>1. CASE snap[q].pinned
      BY <1>2, <2>1, RowsTyped DEF View
    <2>2. CASE ~snap[q].pinned
      BY <1>2, <2>2, RowsTyped DEF View
    <2> QED BY <2>1, <2>2
  <1>4. scan'[q].now <= clock' /\ (scan'[q].pc = "idle" => ~snap'[q].pinned)
    BY <1>1 DEF PassOK, Leaves
  <1>5. 1 .. Len(View(q).buys) \subseteq 1 .. Len(View(q)'.buys)
        /\ 1 .. Len(db.sells) \subseteq 1 .. Len(db'.sells)
    BY <1>3
  <1>6. /\ todo'[q] \subseteq 1 .. Len(View(q)'.buys)
        /\ scan'[q].pc \notin Busy => hold'[q] = NoHold
        /\ scan'[q].pc \in Busy => /\ hold'[q].buy \in 1 .. Len(View(q)'.buys)
                                   /\ hold'[q].price \in Prices
        /\ scan'[q].pc = "insert" => hold'[q].rule \in Rules
    BY <1>1, <1>5 DEF PassOK, Leaves
  <1>7. /\ scan'[q].pc \in {"send", "flip"} => hold'[q].row \in 1 .. Len(db'.sells)
        /\ scan'[q].pc = "send" => calls'[hold'[q].row] = 0
        /\ scan'[q].pc = "flip" => acked'[hold'[q].row]
    BY <1>1, <1>5 DEF PassOK, Leaves
  <1> QED BY <1>4, <1>6, <1>7 DEF PassOK

LEMMA RoomKept ==
  ASSUME Inv, Len(db'.sells) = Len(db.sells), Storing' \subseteq Storing
  PROVE  RoomOK'
  <1>1. Storing \in SUBSET Scans /\ Storing' \in SUBSET Storing
    BY DEF Storing
  <1>2. /\ Cardinality(Storing') \in Nat /\ Cardinality(Storing) \in Nat
        /\ Cardinality(Storing') <= Cardinality(Storing)
    BY <1>1, FewerStoring
  <1> QED BY <1>2, Bounded DEF Inv, RoomOK

(* A step of scan p that neither stores nor sends nor marks a signal.      *)
LEMMA QuietStep ==
  ASSUME Inv, NEW p \in Scans, \A q \in Scans \ {p} : Leaves(q),
         TypeOK', SizesOK', PassOK(p)',
         clock' = clock, db'.sells = db.sells, Len(db'.buys) = Len(db.buys),
         calls' = calls, acked' = acked,
         scan'[p].pc \notin {"send", "flip"},
         scan'[p].pc \in {"decide", "insert"} => scan[p].pc \in {"decide", "insert"}
  PROVE  Inv'
  <1>1. /\ db' \in Rows /\ clock' \in Nat /\ clock' >= clock
        /\ Len(db'.buys) >= Len(db.buys) /\ Len(db'.sells) >= Len(db.sells)
    BY RowsTyped, SellAssumption DEF TypeOK, Inv
  <1>2. \A q \in Scans \ {p} : PassOK(q)'
    BY <1>1, OtherKept
  <1>3. PassesOK'
    BY <1>2 DEF PassesOK
  <1>4. Storing' \subseteq Storing
    BY DEF Storing, Leaves
  <1>5. RoomOK'
    BY <1>4, RoomKept
  <1>6. RowsOK'
    BY DEF Inv, RowsOK, Leaves
  <1>7. SentOnce'
    BY DEF Inv, SentOnce
  <1> QED BY <1>3, <1>5, <1>6, <1>7 DEF Inv

(* A step of the user, or of the clock.                                    *)
LEMMA OutsideStep ==
  ASSUME Inv, \A q \in Scans : Leaves(q), TypeOK', SizesOK',
         clock' >= clock, db'.sells = db.sells, Len(db'.buys) >= Len(db.buys),
         calls' = calls, acked' = acked
  PROVE  Inv'
  <1>1. /\ db' \in Rows /\ clock' \in Nat /\ Len(db'.sells) >= Len(db.sells)
    BY RowsTyped, SellAssumption DEF TypeOK, Inv
  <1>2. PassesOK'
    BY <1>1, OtherKept DEF PassesOK
  <1>3. Storing' \subseteq Storing
    BY DEF Storing, Leaves
  <1>4. RoomOK'
    BY <1>3, RoomKept
  <1>5. RowsOK'
    BY DEF Inv, RowsOK, Leaves
  <1>6. SentOnce'
    BY DEF Inv, SentOnce
  <1> QED BY <1>2, <1>4, <1>5, <1>6 DEF Inv

-----------------------------------------------------------------------------
(* The invariant, action by action.                                        *)

LEMMA InitKeeps == Init => Inv
  <1> SUFFICES ASSUME Init PROVE Inv
    OBVIOUS
  <1>1. TypeOK
    BY EmptyRows, SellAssumption DEF Init, TypeOK, Live, Idle, NoHold, NoPrice, Untracked,
      NoRow
  <1>2. SizesOK
    BY EmptyRows DEF Init, SizesOK, Live
  <1>3. PassesOK
    BY DEF Init, PassesOK, PassOK, Live, Idle, NoHold, Busy
  <1>4. Storing = {}
    BY DEF Init, Storing, Idle
  <1>5. RoomOK
    BY <1>4, FS_EmptySet, SellAssumption DEF Init, RoomOK, Empty
  <1>6. RowsOK /\ SentOnce
    BY DEF Init, RowsOK, SentOnce, Empty, Idle
  <1> QED BY <1>1, <1>2, <1>3, <1>5, <1>6 DEF Inv

LEMMA TickKeeps == ASSUME Inv, Tick PROVE Inv'
  <1>1. TypeOK' /\ SizesOK' /\ clock' >= clock
    BY SellAssumption DEF Tick, dbVars, Inv, TypeOK, SizesOK, Sized
  <1> QED BY <1>1, OutsideStep, RowsTyped DEF Tick, dbVars, Leaves, Inv, TypeOK

LEMMA InsertBuyKeeps == ASSUME Inv, InsertBuy PROVE Inv'
  <1>1. PICK price \in Prices :
          db' = [db EXCEPT !.buys = Append(@, [entry |-> price, soldAt |-> Open])]
    BY DEF InsertBuy
  <1>2. /\ db' \in Rows /\ Sized(db') /\ db'.sells = db.sells
        /\ Len(db'.buys) = Len(db.buys) + 1 /\ Len(db.buys) \in Nat
    BY <1>1, BuyStored, RowsTyped, ZenonT(60) DEF InsertBuy, Inv, TypeOK, SizesOK
  <1>3. TypeOK' /\ SizesOK'
    BY <1>2 DEF InsertBuy, Inv, TypeOK, SizesOK, Sized
  <1>4. clock' >= clock /\ Len(db'.buys) >= Len(db.buys)
    BY <1>2, SellAssumption DEF InsertBuy, Inv, TypeOK
  <1> QED BY <1>2, <1>3, <1>4, OutsideStep DEF InsertBuy, Leaves

LEMMA RecordSaleKeeps == ASSUME Inv, RecordSale PROVE Inv'
  <1>1. PICK b \in LoadOpenBuys(db) : db' = [db EXCEPT !.buys[b].soldAt = clock]
    BY DEF RecordSale
  <1>2. b \in DOMAIN db.buys /\ clock \in Nat /\ db \in Rows /\ Sized(db)
    BY SellAssumption DEF LoadOpenBuys, Inv, TypeOK, SizesOK
  <1>3. /\ db' \in Rows /\ Sized(db') /\ db'.sells = db.sells
        /\ Len(db'.buys) = Len(db.buys) /\ Len(db.buys) \in Nat
    BY <1>1, <1>2, SaleStored, RowsTyped, SMTT(30)
  <1>4. TypeOK' /\ SizesOK'
    BY <1>3 DEF RecordSale, Inv, TypeOK, SizesOK, Sized
  <1>5. clock' >= clock /\ Len(db'.buys) >= Len(db.buys)
    BY <1>2, <1>3 DEF RecordSale
  <1> QED BY <1>3, <1>4, <1>5, OutsideStep DEF RecordSale, Leaves

LEMMA StartScanKeeps == ASSUME Inv, NEW p \in Scans, StartScan(p) PROVE Inv'
  <1>1. PICK riskOff \in BOOLEAN :
          scan' = [scan EXCEPT ![p] = [pc |-> "ingest", now |-> clock, riskOff |-> riskOff]]
    BY DEF StartScan
  <1>2. TypeOK' /\ SizesOK'
    BY <1>1 DEF StartScan, dbVars, Inv, TypeOK, SizesOK, Sized
  <1>3. scan'[p].pc = "ingest" /\ scan'[p].now = clock
    BY <1>1 DEF Inv, TypeOK
  <1>4. PassOK(p)'
    <2>1. PassOK(p) /\ scan[p].pc = "idle" /\ View(p)' = View(p)
      BY DEF StartScan, dbVars, Inv, PassesOK, View
    <2>2. clock' = clock /\ clock <= clock
      BY SellAssumption DEF StartScan, Inv, TypeOK
    <2> QED BY <1>3, <2>1, <2>2 DEF StartScan, dbVars, PassOK, Busy
  <1>5. \A q \in Scans \ {p} : Leaves(q)
    BY <1>1 DEF StartScan, dbVars, Leaves, Inv, TypeOK
  <1> QED BY <1>2, <1>3, <1>4, <1>5, QuietStep DEF StartScan, dbVars

LEMMA IngestCloseKeeps == ASSUME Inv, NEW p \in Scans, IngestClose(p) PROVE Inv'
  <1>1. PICK price \in Prices : db' = [db EXCEPT !.close = price]
    BY DEF IngestClose
  <1>2. /\ db' \in Rows /\ Sized(db') /\ db'.sells = db.sells /\ db'.buys = db.buys
    BY <1>1, CloseStored DEF Inv, TypeOK, SizesOK
  <1>3. scan' = [scan EXCEPT ![p].pc = "load"] /\ scan[p].pc = "ingest"
    BY DEF IngestClose, Goes
  <1>4. TypeOK' /\ SizesOK'
    BY <1>2, <1>3, ZenonT(60) DEF IngestClose, Inv, TypeOK, SizesOK, Sized
  <1>5. scan'[p].pc = "load" /\ scan'[p].now = scan[p].now
    BY <1>3 DEF Inv, TypeOK
  <1>6. PassOK(p)'
    BY <1>2, <1>3, <1>5 DEF IngestClose, Inv, PassesOK, PassOK, View, Busy
  <1>7. \A q \in Scans \ {p} : Leaves(q)
    BY <1>3 DEF IngestClose, Leaves, Inv, TypeOK
  <1> QED BY <1>2, <1>4, <1>5, <1>6, <1>7, QuietStep DEF IngestClose

LEMMA IngestNothingKeeps == ASSUME Inv, NEW p \in Scans, IngestNothing(p) PROVE Inv'
  <1>1. scan' = [scan EXCEPT ![p].pc = "load"] /\ scan[p].pc = "ingest"
    BY DEF IngestNothing, Goes
  <1>2. TypeOK' /\ SizesOK'
    BY <1>1, ZenonT(60) DEF IngestNothing, dbVars, Inv, TypeOK, SizesOK, Sized
  <1>3. scan'[p].pc = "load" /\ scan'[p].now = scan[p].now
    BY <1>1 DEF Inv, TypeOK
  <1>4. PassOK(p)'
    BY <1>1, <1>3 DEF IngestNothing, dbVars, Inv, PassesOK, PassOK, View, Busy
  <1>5. \A q \in Scans \ {p} : Leaves(q)
    BY <1>1 DEF IngestNothing, dbVars, Leaves, Inv, TypeOK
  <1> QED BY <1>2, <1>3, <1>4, <1>5, QuietStep DEF IngestNothing, dbVars

LEMMA LoadBuysKeeps == ASSUME Inv, NEW p \in Scans, LoadBuys(p) PROVE Inv'
  <1>1. /\ scan' = [scan EXCEPT ![p].pc = "next"] /\ scan[p].pc = "load"
        /\ todo' = [todo EXCEPT ![p] = LoadOpenBuys(View(p))]
    BY DEF LoadBuys, Goes
  <1>2. View(p) \in Rows /\ Sized(View(p))
    BY ViewTyped DEF Inv
  <1>3. /\ LoadOpenBuys(View(p)) \subseteq 1 .. Len(View(p).buys)
        /\ LoadOpenBuys(View(p)) \subseteq BuyIds
    BY <1>2, RowsTyped, SellAssumption DEF LoadOpenBuys, Sized, BuyIds
  <1>4. TypeOK' /\ SizesOK'
    <2>1. todo' \in [Scans -> SUBSET BuyIds]
      BY <1>1, <1>3 DEF Inv, TypeOK
    <2> QED BY <1>1, <2>1, ZenonT(60) DEF LoadBuys, dbVars, Inv, TypeOK, SizesOK, Sized
  <1>5. /\ scan'[p].pc = "next" /\ scan'[p].now = scan[p].now
        /\ todo'[p] = LoadOpenBuys(View(p))
    BY <1>1 DEF Inv, TypeOK
  <1>6. PassOK(p)'
    BY <1>1, <1>3, <1>5 DEF LoadBuys, dbVars, Inv, PassesOK, PassOK, View, Busy
  <1>7. \A q \in Scans \ {p} : Leaves(q)
    BY <1>1 DEF LoadBuys, dbVars, Leaves, Inv, TypeOK
  <1> QED BY <1>4, <1>5, <1>6, <1>7, QuietStep DEF LoadBuys, dbVars

LEMMA SkipBuyKeeps == ASSUME Inv, NEW p \in Scans, SkipBuy(p) PROVE Inv'
  <1>1. PICK b \in todo[p] : todo' = [todo EXCEPT ![p] = @ \ {b}]
    BY DEF SkipBuy
  <1>2. TypeOK' /\ SizesOK'
    BY <1>1 DEF SkipBuy, dbVars, Inv, TypeOK, SizesOK, Sized
  <1>3. todo'[p] \subseteq todo[p]
    BY <1>1 DEF Inv, TypeOK
  <1>4. PassOK(p)'
    BY <1>3 DEF SkipBuy, dbVars, Inv, PassesOK, PassOK, View, Busy
  <1>5. \A q \in Scans \ {p} : Leaves(q)
    BY <1>1 DEF SkipBuy, dbVars, Leaves, Inv, TypeOK
  <1> QED BY <1>2, <1>4, <1>5, QuietStep DEF SkipBuy, dbVars

LEMMA EvaluateTyped ==
  ASSUME NEW entry, NEW price, NEW prior, NEW riskOff
  PROVE  EvaluateSell(entry, price, prior, riskOff) \in Rules \cup {"none"}
  BY DEF EvaluateSell, Rules

LEMMA EvaluateKeeps == ASSUME Inv, NEW p \in Scans, Evaluate(p) PROVE Inv'
  <1>1. PICK b \in todo[p] : LET price == View(p).close
                                 prior == GetHighWatermark(View(p), b) IN
          /\ price # NoPrice
          /\ todo' = [todo EXCEPT ![p] = @ \ {b}]
          /\ hold' = [hold EXCEPT ![p] =
               [buy |-> b, price |-> price, prior |-> prior, row |-> NoRow,
                rule |-> EvaluateSell(View(p).buys[b].entry, price, prior, scan[p].riskOff)]]
    BY DEF Evaluate
  <1> DEFINE h == hold'[p]
  <1>2. /\ scan' = [scan EXCEPT ![p].pc = "decide"] /\ scan[p].pc = "next" /\ Room
        /\ UNCHANGED <<clock, db, snap, calls, acked, faults>>
    BY DEF Evaluate, Goes, dbVars
  <1>3. View(p) \in Rows /\ Sized(View(p))
    BY ViewTyped DEF Inv
  <1>4. b \in 1 .. Len(View(p).buys) /\ b \in BuyIds /\ Len(View(p).buys) \in Nat
    BY <1>3, RowsTyped DEF Inv, PassesOK, PassOK, TypeOK
  <1>5. /\ View(p).close \in Prices
        /\ GetHighWatermark(View(p), b) \in Prices \cup {Untracked}
    BY <1>1, <1>3, <1>4, RowsTyped DEF GetHighWatermark
  <1>6. /\ h = [buy |-> b, price |-> View(p).close, prior |-> GetHighWatermark(View(p), b),
                row |-> NoRow,
                rule |-> EvaluateSell(View(p).buys[b].entry, View(p).close,
                                      GetHighWatermark(View(p), b), scan[p].riskOff)]
        /\ \A q \in Scans \ {p} : hold'[q] = hold[q]
        /\ hold' = [hold EXCEPT ![p] = h]
    BY <1>1 DEF Inv, TypeOK
  <1>7. h \in [buy: 0 .. MaxBuys, price: Prices \cup {NoPrice},
               prior: Prices \cup {Untracked}, rule: Rules \cup {"none"}, row: 0 .. MaxSells]
    BY <1>4, <1>5, <1>6, EvaluateTyped, SellAssumption DEF BuyIds, NoRow
  <1>8. TypeOK' /\ SizesOK'
    <2> HIDE DEF h
    <2>1. hold' \in [Scans -> [buy: 0 .. MaxBuys, price: Prices \cup {NoPrice},
                               prior: Prices \cup {Untracked}, rule: Rules \cup {"none"},
                               row: 0 .. MaxSells]]
      BY <1>6, <1>7 DEF Inv, TypeOK
    <2>2. todo' \in [Scans -> SUBSET BuyIds]
      BY <1>1 DEF Inv, TypeOK
    <2>3. scan' \in [Scans -> [pc: {"idle", "ingest", "load", "next", "decide", "insert",
                                   "send", "flip", "mark"},
                              now: 0 .. MaxClock, riskOff: BOOLEAN]]
      <3>1. scan' = [scan EXCEPT ![p].pc = "decide"]
        BY <1>2
      <3>2. scan \in [Scans -> [pc: {"idle", "ingest", "load", "next", "decide", "insert",
                                    "send", "flip", "mark"},
                               now: 0 .. MaxClock, riskOff: BOOLEAN]]
        BY DEF Inv, TypeOK
      <3> QED BY <3>1, <3>2
    <2>4. SizesOK'
      BY <1>2 DEF Inv, SizesOK, Sized
    <2> QED BY <1>2, <2>1, <2>2, <2>3, <2>4 DEF Inv, TypeOK
  <1>9. /\ scan'[p].pc = "decide" /\ scan'[p].now = scan[p].now /\ todo'[p] \subseteq todo[p]
        /\ \A q \in Scans \ {p} : Leaves(q)
    BY <1>1, <1>2, <1>6 DEF Inv, TypeOK, Leaves
  <1>10. PassOK(p)'
    BY <1>2, <1>4, <1>5, <1>6, <1>9 DEF Inv, PassesOK, PassOK, View, Busy
  <1>11. db' \in Rows /\ clock' \in Nat /\ clock' >= clock
         /\ Len(db'.buys) >= Len(db.buys) /\ Len(db'.sells) >= Len(db.sells)
    BY <1>2, RowsTyped, SellAssumption DEF Inv, TypeOK
  <1>12. \A q \in Scans \ {p} : PassOK(q)'
    BY <1>2, <1>9, <1>11, OtherKept
  <1>13. RoomOK'
    <2> DEFINE Holding == {q \in Scans : hold[q] # NoHold}
    <2>1. Holding \in SUBSET Scans /\ Storing \in SUBSET Holding
      <3>1. ASSUME NEW q \in Storing PROVE hold[q] # NoHold
        BY SellAssumption DEF Storing, Inv, PassesOK, PassOK, NoHold, Busy
      <3> QED BY <3>1 DEF Storing
    <2>2. /\ Cardinality(Holding) \in Nat /\ Cardinality(Storing) \in Nat
          /\ Cardinality(Storing) <= Cardinality(Holding)
      BY <2>1, FewerStoring
    <2>3. Storing' = Storing \cup {p}
      BY <1>2, <1>9 DEF Storing, Leaves
    <2>4. Cardinality(Storing') <= Cardinality(Storing) + 1 /\ Cardinality(Storing') \in Nat
      <3>1. IsFiniteSet(Storing)
        BY <2>1, FS_Subset, SellAssumption DEF Storing
      <3>2. Cardinality(Storing \cup {p}) =
              IF p \in Storing THEN Cardinality(Storing) ELSE Cardinality(Storing) + 1
        BY <3>1, FS_AddElement
      <3> QED BY <2>2, <2>3, <3>2
    <2>5. Len(db.sells) + Cardinality(Holding) < MaxSells
      BY <1>2 DEF Room
    <2> QED BY <1>2, <2>2, <2>4, <2>5, Bounded DEF RoomOK
  <1>14. RowsOK' /\ SentOnce'
    BY <1>2, <1>9 DEF Inv, RowsOK, SentOnce, Leaves
  <1> QED BY <1>8, <1>10, <1>12, <1>13, <1>14 DEF Inv, PassesOK

LEMMA DecideKeeps == ASSUME Inv, NEW p \in Scans, Decide(p) PROVE Inv'
  <1>1. PICK pc \in {"mark", "insert"} :
          /\ scan' = [scan EXCEPT ![p].pc = pc] /\ scan[p].pc = "decide"
          /\ pc = "insert" => hold[p].rule # "none"
    BY DEF Decide, Goes
  <1>2. TypeOK' /\ SizesOK'
    BY <1>1, ZenonT(60) DEF Decide, dbVars, Inv, TypeOK, SizesOK, Sized
  <1>3. scan'[p].pc = pc /\ scan'[p].now = scan[p].now
    BY <1>1 DEF Inv, TypeOK
  <1>4. hold[p].rule \in Rules \cup {"none"}
    BY DEF Inv, TypeOK
  <1>5. PassOK(p)'
    BY <1>1, <1>3, <1>4 DEF Decide, dbVars, Inv, PassesOK, PassOK, View, Busy
  <1>6. \A q \in Scans \ {p} : Leaves(q)
    BY <1>1 DEF Decide, dbVars, Leaves, Inv, TypeOK
  <1> QED BY <1>1, <1>2, <1>3, <1>5, <1>6, QuietStep DEF Decide, dbVars

(* What the insert of a signal by scan p changes.                          *)
Stores(p) ==
  /\ scan[p].pc = "insert" /\ p \in Storing
  /\ View(p) = db /\ View(p)' = db' /\ db' \in Rows /\ SizesOK'
  /\ snap' \in [Scans -> [pinned: BOOLEAN, rows: Rows]]
  /\ db'.buys = db.buys /\ db'.marks = db.marks
  /\ Len(db.sells) \in Nat /\ Len(db'.sells) = Len(db.sells) + 1
  /\ \A i \in 1 .. Len(db.sells) : db'.sells[i] = db.sells[i]
  /\ db'.sells[Len(db.sells) + 1] =
       [buy |-> hold[p].buy, rule |-> hold[p].rule, price |-> hold[p].price,
        detected |-> scan[p].now, alerted |-> FALSE]
  /\ scan' = [scan EXCEPT ![p].pc = "send"]
  /\ scan'[p] = [scan[p] EXCEPT !.pc = "send"]
  /\ hold' = [hold EXCEPT ![p].row = Len(db.sells) + 1]
  /\ hold'[p] = [hold[p] EXCEPT !.row = Len(db.sells) + 1]
  /\ ~snap'[p].pinned
  /\ \A q \in Scans \ {p} : Leaves(q)
  /\ UNCHANGED <<clock, todo, calls, acked, faults>>

LEMMA Inserted == ASSUME Inv, NEW p \in Scans, InsertSellSignal(p) PROVE Stores(p)
  <1>1. /\ scan[p].pc = "insert" /\ Publish(p, WithSell(db, hold[p], scan[p].now))
        /\ hold' = [hold EXCEPT ![p].row = Len(db'.sells)]
        /\ scan' = [scan EXCEPT ![p].pc = "send"]
        /\ UNCHANGED <<clock, todo, calls, acked, faults>>
    BY DEF InsertSellSignal, Goes
  <1>2. db \in Rows /\ Sized(db) /\ p \in Storing /\ TypeOK /\ SizesOK
    BY <1>1 DEF Inv, TypeOK, SizesOK, Storing
  <1>3. /\ hold[p].buy \in BuyIds /\ hold[p].rule \in Rules /\ hold[p].price \in Prices
        /\ scan[p].now \in 0 .. MaxClock
    <2>1. View(p) \in Rows /\ Sized(View(p)) /\ PassOK(p)
      BY <1>2, ViewTyped DEF Inv, PassesOK
    <2>2. Len(View(p).buys) \in Nat /\ Len(View(p).buys) <= MaxBuys /\ MaxBuys \in Nat
      BY <2>1, RowsTyped, SellAssumption DEF Sized
    <2> QED BY <1>1, <2>1, <2>2 DEF PassOK, Busy, BuyIds, Inv, TypeOK
  <1> DEFINE new == WithSell(db, hold[p], scan[p].now)
  <1>4. /\ new \in Rows /\ Sized(new)
        /\ new.marks = db.marks /\ new.buys = db.buys
        /\ Len(new.sells) = Len(db.sells) + 1
        /\ \A i \in 1 .. Len(db.sells) : new.sells[i] = db.sells[i]
        /\ new.sells[Len(db.sells) + 1] =
             [buy |-> hold[p].buy, rule |-> hold[p].rule, price |-> hold[p].price,
              detected |-> scan[p].now, alerted |-> FALSE]
    <2> HIDE DEF new
    <2> QED BY <1>2, <1>3, SellStored DEF new
  <1>5. /\ View(p) = db /\ db' = new /\ db' \in Rows /\ View(p)' = new /\ ~snap'[p].pinned
        /\ snap' \in [Scans -> [pinned: BOOLEAN, rows: Rows]]
        /\ SizesOK' /\ \A q \in Scans \ {p} : snap'[q] = snap[q]
    <2> HIDE DEF new
    <2>1. Publish(p, new)
      BY <1>1 DEF new
    <2> QED BY <1>2, <1>4, <2>1, Committed
  <1> HIDE DEF new
  <1>6. \A q \in Scans \ {p} : Leaves(q)
    BY <1>1, <1>2, <1>5 DEF TypeOK, Leaves
  <1>7. /\ hold' = [hold EXCEPT ![p].row = Len(db.sells) + 1]
        /\ hold'[p] = [hold[p] EXCEPT !.row = Len(db.sells) + 1]
        /\ scan'[p] = [scan[p] EXCEPT !.pc = "send"]
    BY <1>1, <1>2, <1>4, <1>5 DEF TypeOK
  <1>8. Len(db.sells) \in Nat
    BY <1>2, RowsTyped
  <1> QED BY <1>1, <1>2, <1>4, <1>5, <1>6, <1>7, <1>8 DEF Stores

LEMMA InsertSellSignalKeeps == ASSUME Inv, NEW p \in Scans, InsertSellSignal(p) PROVE Inv'
  <1>0. Stores(p)
    BY Inserted
  <1>1. /\ Len(db.sells) < MaxSells /\ Len(db.sells) \in Nat /\ MaxSells \in Nat
        /\ Len(db.sells) + 1 \in SellIds
    BY <1>0, Bounded DEF Stores, SellIds
  <1>2. hold[p] \in [buy: 0 .. MaxBuys, price: Prices \cup {NoPrice},
                     prior: Prices \cup {Untracked}, rule: Rules \cup {"none"}, row: 0 .. MaxSells]
    BY DEF Inv, TypeOK
  <1>3. /\ hold'[p].row = Len(db.sells) + 1 /\ hold'[p].buy = hold[p].buy
        /\ hold'[p].price = hold[p].price
        /\ scan'[p].pc = "send" /\ scan'[p].now = scan[p].now
    BY <1>2, <1>0 DEF Stores, Inv, TypeOK
  <1>4. TypeOK'
    <2>1. Len(db.sells) + 1 \in 0 .. MaxSells
      BY <1>1
    <2>2. hold' \in [Scans -> [buy: 0 .. MaxBuys, price: Prices \cup {NoPrice},
                               prior: Prices \cup {Untracked}, rule: Rules \cup {"none"},
                               row: 0 .. MaxSells]]
      <3>1. hold' = [hold EXCEPT ![p].row = Len(db.sells) + 1]
        BY <1>0 DEF Stores
      <3> QED BY <2>1, <3>1, ZenonT(60) DEF Inv, TypeOK
    <2>3. scan' \in [Scans -> [pc: {"idle", "ingest", "load", "next", "decide", "insert",
                                   "send", "flip", "mark"},
                              now: 0 .. MaxClock, riskOff: BOOLEAN]]
      <3>1. scan' = [scan EXCEPT ![p].pc = "send"]
        BY <1>0 DEF Stores
      <3> QED BY <3>1, ZenonT(60) DEF Inv, TypeOK
    <2>4. db' \in Rows /\ snap' \in [Scans -> [pinned: BOOLEAN, rows: Rows]]
          /\ UNCHANGED <<clock, todo, calls, acked, faults>>
      BY <1>0 DEF Stores
    <2> QED BY <2>2, <2>3, <2>4 DEF Inv, TypeOK
  <1>5. PassOK(p)'
    <2>1. PassOK(p) /\ scan[p].pc = "insert" /\ View(p) = db /\ View(p)' = db' /\ ~snap'[p].pinned
          /\ db'.buys = db.buys /\ todo' = todo /\ clock' = clock /\ calls' = calls
      BY <1>0 DEF Stores, Inv, PassesOK
    <2>2. calls[Len(db.sells) + 1] = 0
      BY <1>1 DEF Inv, RowsOK
    <2>3. Len(db.sells) + 1 \in 1 .. Len(db'.sells)
      BY <1>1, <1>0 DEF Stores
    <2> QED BY <1>3, <2>1, <2>2, <2>3 DEF PassOK, Busy
  <1>6. /\ db' \in Rows /\ clock' \in Nat /\ clock' >= clock
        /\ Len(db'.buys) >= Len(db.buys) /\ Len(db'.sells) >= Len(db.sells)
    BY <1>0, RowsTyped, SellAssumption DEF Stores, Inv, TypeOK
  <1>7. PassesOK'
    <2>1. \A q \in Scans \ {p} : PassOK(q)'
      BY <1>6, <1>0, OtherKept DEF Stores
    <2> QED BY <1>5, <2>1 DEF PassesOK
  <1>8. RoomOK'
    <2>1. Storing' \in SUBSET Storing /\ p \in Storing \ Storing' /\ Storing \in SUBSET Scans
      BY <1>3, <1>0 DEF Stores, Storing, Leaves
    <2>2. /\ Cardinality(Storing') \in Nat /\ Cardinality(Storing) \in Nat
          /\ Cardinality(Storing') + 1 <= Cardinality(Storing)
      BY <2>1, FewerStoring
    <2> QED BY <1>1, <2>2, <1>0 DEF Stores, Inv, RoomOK
  <1>9. RowsOK'
    <2>1. \A q \in Scans \ {p} : scan'[q].pc \in {"send", "flip"} =>
            hold'[q].row \in 1 .. Len(db.sells)
      BY <1>0 DEF Stores, Inv, PassesOK, PassOK, Leaves
    <2>2. \A q, r \in Scans :
            scan'[q].pc \in {"send", "flip"} /\ scan'[r].pc \in {"send", "flip"} /\ q # r
              => hold'[q].row # hold'[r].row
      <3>1. \A q \in Scans \ {p} : scan'[q].pc \in {"send", "flip"} => hold'[q].row # hold'[p].row
        BY <1>1, <1>3, <2>1
      <3>2. \A q, r \in Scans \ {p} :
              scan'[q].pc \in {"send", "flip"} /\ scan'[r].pc \in {"send", "flip"} /\ q # r
                => hold'[q].row # hold'[r].row
        BY <1>0 DEF Stores, Inv, RowsOK, Leaves
      <3> QED BY <3>1, <3>2
    <2>3. \A i \in SellIds : i > Len(db'.sells) => calls'[i] = 0
      BY <1>1, <1>0 DEF Stores, Inv, RowsOK, SellIds
    <2> QED BY <2>2, <2>3 DEF RowsOK
  <1>10. SentOnce'
    <2>1. DOMAIN db'.sells = 1 .. Len(db.sells) + 1 /\ DOMAIN db.sells = 1 .. Len(db.sells)
      BY <1>0, RowsTyped DEF Stores, Inv, TypeOK
    <2>2. ASSUME NEW i \in 1 .. Len(db.sells)
          PROVE  calls'[i] <= 1 /\ (db'.sells[i].alerted => acked'[i])
      BY <2>1, <1>0 DEF Stores, Inv, SentOnce
    <2>3. calls'[Len(db.sells) + 1] <= 1 /\ ~db'.sells[Len(db.sells) + 1].alerted
      BY <1>1, <1>0 DEF Stores, Inv, RowsOK
    <2> QED BY <1>1, <2>1, <2>2, <2>3 DEF SentOnce
  <1> QED BY <1>4, <1>7, <1>8, <1>9, <1>10, <1>0 DEF Stores, Inv

LEMMA SendKeeps == ASSUME Inv, NEW p \in Scans, Send(p) PROVE Inv'
  <1> DEFINE row == hold[p].row
  <1>1. PICK outcome \in {"sent", "failed"} :
          /\ acked' = [acked EXCEPT ![row] = @ \/ outcome = "sent"]
          /\ scan' = [scan EXCEPT ![p].pc = IF Sends(p, outcome) THEN "flip" ELSE "mark"]
    BY DEF Send, Goes
  <1>2. /\ scan[p].pc = "send" /\ calls' = [calls EXCEPT ![row] = @ + 1]
        /\ UNCHANGED <<clock, db, snap, todo, hold, faults>>
    BY DEF Send, dbVars
  <1>3. /\ row \in 1 .. Len(db.sells) /\ row \in SellIds /\ calls[row] = 0
        /\ Len(db.sells) \in Nat /\ Len(db.sells) <= MaxSells /\ MaxSells \in Nat
    BY <1>2, Bounded DEF Inv, PassesOK, PassOK, SellIds
  <1>4. /\ scan'[p].pc = IF outcome = "sent" THEN "flip" ELSE "mark"
        /\ scan'[p].now = scan[p].now
        /\ \A q \in Scans \ {p} : Leaves(q)
    BY <1>1, <1>2 DEF Sends, Inv, TypeOK, Leaves
  <1>5. /\ calls' \in [SellIds -> Nat] /\ calls'[row] = 1
        /\ \A i \in SellIds \ {row} : calls'[i] = calls[i] /\ acked'[i] = acked[i]
        /\ acked'[row] = (acked[row] \/ outcome = "sent")
    BY <1>1, <1>2, <1>3 DEF Inv, TypeOK
  <1>6. acked' \in [SellIds -> BOOLEAN]
    BY <1>1 DEF Inv, TypeOK
  <1>7. TypeOK' /\ SizesOK'
    <2>1. scan' \in [Scans -> [pc: {"idle", "ingest", "load", "next", "decide", "insert",
                                   "send", "flip", "mark"},
                              now: 0 .. MaxClock, riskOff: BOOLEAN]]
      BY <1>1 DEF Inv, TypeOK
    <2> QED BY <1>2, <1>5, <1>6, <2>1 DEF Inv, TypeOK, SizesOK, Sized
  <1>8. PassOK(p)'
    BY <1>2, <1>4, <1>5 DEF Inv, PassesOK, PassOK, View, Busy
  <1>9. \A q \in Scans \ {p} : scan[q].pc \in {"send", "flip"} =>
          hold[q].row # row /\ hold[q].row \in SellIds
    BY <1>2, <1>3 DEF Inv, RowsOK, PassesOK, PassOK, SellIds
  <1>10. PassesOK'
    <2>1. db' \in Rows /\ clock' \in Nat /\ clock' >= clock
          /\ Len(db'.buys) >= Len(db.buys) /\ Len(db'.sells) >= Len(db.sells)
      BY <1>2, RowsTyped, SellAssumption DEF Inv, TypeOK
    <2>2. ASSUME NEW q \in Scans \ {p} PROVE PassOK(q)'
      <3>1. /\ scan[q].pc = "send" => calls'[hold[q].row] = calls[hold[q].row]
            /\ scan[q].pc = "flip" /\ acked[hold[q].row] => acked'[hold[q].row]
        BY <1>5, <1>9
      <3> QED BY <1>4, <2>1, <3>1, OtherKept
    <2> QED BY <1>8, <2>2 DEF PassesOK
  <1>11. RoomOK'
    <2>1. Storing' \subseteq Storing
      BY <1>4 DEF Storing, Leaves
    <2> QED BY <1>2, <2>1, RoomKept
  <1>12. RowsOK'
    <2>1. \A i \in SellIds : i > Len(db'.sells) => calls'[i] = 0
      BY <1>2, <1>3, <1>5 DEF Inv, RowsOK, SellIds
    <2>2. \A q, r \in Scans :
            scan'[q].pc \in {"send", "flip"} /\ scan'[r].pc \in {"send", "flip"} /\ q # r
              => hold'[q].row # hold'[r].row
      BY <1>2, <1>4 DEF Inv, RowsOK, Leaves
    <2> QED BY <2>1, <2>2 DEF RowsOK
  <1>13. SentOnce'
    <2>1. DOMAIN db.sells \subseteq SellIds
      BY <1>3, RowsTyped DEF Inv, TypeOK, SellIds
    <2>2. ASSUME NEW i \in DOMAIN db.sells
          PROVE  calls'[i] <= 1 /\ (db.sells[i].alerted => acked'[i])
      <3>1. CASE i = row
        <4>1. calls'[i] <= 1
          BY <1>5, <3>1
        <4>2. db.sells[i].alerted => acked[i]
          BY DEF Inv, SentOnce
        <4> QED BY <1>5, <3>1, <4>1, <4>2, Zenon
      <3>2. CASE i # row
        BY <1>5, <2>1, <3>2 DEF Inv, SentOnce
      <3> QED BY <3>1, <3>2
    <2> QED BY <1>2, <2>2 DEF SentOnce
  <1> QED BY <1>7, <1>10, <1>11, <1>12, <1>13 DEF Inv

LEMMA FlipAlertedKeeps == ASSUME Inv, NEW p \in Scans, FlipAlerted(p) PROVE Inv'
  <1> DEFINE row == hold[p].row
             new == [db EXCEPT !.sells[hold[p].row].alerted = TRUE]
  <1>1. /\ scan[p].pc = "flip" /\ Publish(p, new) /\ scan' = [scan EXCEPT ![p].pc = "mark"]
        /\ UNCHANGED <<clock, todo, hold, calls, acked, faults>>
    BY DEF FlipAlerted, Goes
  <1>2. row \in 1 .. Len(db.sells) /\ acked[row] /\ db \in Rows /\ Sized(db)
        /\ TypeOK /\ SizesOK
    BY <1>1 DEF Inv, TypeOK, SizesOK, PassesOK, PassOK
  <1>3. /\ new \in Rows /\ Sized(new) /\ new.buys = db.buys /\ Len(new.sells) = Len(db.sells)
        /\ \A i \in 1 .. Len(db.sells) : i # row => new.sells[i] = db.sells[i]
    BY <1>2, FlipStored
  <1>4. /\ View(p) = db /\ db' = new /\ View(p)' = new /\ ~snap'[p].pinned
        /\ snap' \in [Scans -> [pinned: BOOLEAN, rows: Rows]]
        /\ SizesOK' /\ \A q \in Scans \ {p} : snap'[q] = snap[q]
    <2> HIDE DEF new
    <2> QED BY <1>1, <1>2, <1>3, Committed
  <1> HIDE DEF new
  <1>5. TypeOK'
    <2>1. scan' \in [Scans -> [pc: {"idle", "ingest", "load", "next", "decide", "insert",
                                   "send", "flip", "mark"},
                              now: 0 .. MaxClock, riskOff: BOOLEAN]]
      <3>1. scan' = [scan EXCEPT ![p].pc = "mark"]
        BY <1>1
      <3>2. scan \in [Scans -> [pc: {"idle", "ingest", "load", "next", "decide", "insert",
                                    "send", "flip", "mark"},
                               now: 0 .. MaxClock, riskOff: BOOLEAN]]
        BY <1>2 DEF TypeOK
      <3> QED BY <3>1, <3>2
    <2> QED BY <1>1, <1>2, <1>3, <1>4, <2>1 DEF TypeOK
  <1>6. scan'[p].pc = "mark" /\ scan'[p].now = scan[p].now /\ \A q \in Scans \ {p} : Leaves(q)
    BY <1>1, <1>2, <1>4 DEF TypeOK, Leaves
  <1>7. PassOK(p)'
    BY <1>1, <1>3, <1>4, <1>6 DEF Inv, PassesOK, PassOK, Busy
  <1>8. PassesOK'
    <2>1. db' \in Rows /\ clock' \in Nat /\ clock' >= clock
          /\ Len(db'.buys) >= Len(db.buys) /\ Len(db'.sells) >= Len(db.sells)
      BY <1>1, <1>2, <1>3, <1>4, RowsTyped, SellAssumption DEF TypeOK
    <2>2. \A q \in Scans \ {p} : PassOK(q)'
      BY <1>1, <1>6, <2>1, OtherKept
    <2> QED BY <1>7, <2>2 DEF PassesOK
  <1>9. RoomOK'
    <2>1. Storing' \subseteq Storing
      BY <1>6 DEF Storing, Leaves
    <2> QED BY <1>3, <1>4, <2>1, RoomKept
  <1>10. RowsOK'
    BY <1>1, <1>3, <1>4, <1>6 DEF Inv, RowsOK, Leaves
  <1>11. SentOnce'
    <2>1. DOMAIN db.sells = 1 .. Len(db.sells) /\ DOMAIN db'.sells = 1 .. Len(db.sells)
      BY <1>2, <1>3, <1>4, RowsTyped
    <2>2. ASSUME NEW i \in 1 .. Len(db.sells)
          PROVE  calls'[i] <= 1 /\ (db'.sells[i].alerted => acked'[i])
      <3>1. calls'[i] <= 1 /\ (db.sells[i].alerted => acked[i]) /\ acked' = acked
        BY <1>1, <2>1 DEF Inv, SentOnce
      <3>2. CASE i = row
        BY <1>2, <3>1, <3>2
      <3>3. CASE i # row
        BY <1>3, <1>4, <3>1, <3>3
      <3> QED BY <3>2, <3>3
    <2> QED BY <2>1, <2>2 DEF SentOnce
  <1> QED BY <1>4, <1>5, <1>8, <1>9, <1>10, <1>11 DEF Inv

LEMMA NoHoldTyped ==
  NoHold \in [buy: 0 .. MaxBuys, price: Prices \cup {NoPrice},
              prior: Prices \cup {Untracked}, rule: Rules \cup {"none"}, row: 0 .. MaxSells]
  <1>1. 0 \in 0 .. MaxBuys /\ 0 \in 0 .. MaxSells
    BY SellAssumption
  <1> QED BY <1>1 DEF NoHold, NoPrice, Untracked, NoRow

LEMMA BaselineTyped ==
  ASSUME Inv, NEW p \in Scans, scan[p].pc = "mark"
  PROVE  Baseline(p) \in Prices /\ hold[p].buy \in BuyIds
  <1>1. View(p) \in Rows /\ Sized(View(p)) /\ PassOK(p)
    BY ViewTyped DEF Inv, PassesOK
  <1>2. hold[p].buy \in 1 .. Len(View(p).buys) /\ hold[p].price \in Prices
    BY <1>1 DEF PassOK, Busy
  <1>3. View(p).buys[hold[p].buy].entry \in Prices
    BY <1>1, <1>2, RowsTyped
  <1>4. hold[p].buy \in BuyIds
    BY <1>1, <1>2, RowsTyped, SellAssumption DEF Sized, BuyIds
  <1> QED BY <1>2, <1>3, <1>4 DEF Baseline

LEMMA UpdateWatermarkKeeps == ASSUME Inv, NEW p \in Scans, UpdateWatermark(p) PROVE Inv'
  <1> DEFINE new == RaisedMark(db, hold[p].buy, Baseline(p))
  <1>1. /\ scan[p].pc = "mark" /\ scan' = [scan EXCEPT ![p].pc = "next"]
        /\ hold' = [hold EXCEPT ![p] = NoHold]
        /\ Publish(p, new) \/ (db' = db /\ snap' = snap)
        /\ UNCHANGED <<clock, todo, calls, acked, faults>>
    BY DEF UpdateWatermark, DoneWith, Goes, dbVars
  <1>2. TypeOK /\ SizesOK /\ db \in Rows /\ Sized(db)
    BY DEF Inv, TypeOK, SizesOK
  <1>3. /\ db' \in Rows /\ db'.sells = db.sells /\ db'.buys = db.buys
        /\ Len(View(p)'.buys) = Len(View(p).buys)
        /\ snap' \in [Scans -> [pinned: BOOLEAN, rows: Rows]]
        /\ SizesOK' /\ \A q \in Scans \ {p} : snap'[q] = snap[q]
    <2>1. CASE Publish(p, new)
      <3>1. new \in Rows /\ Sized(new) /\ new.sells = db.sells /\ new.buys = db.buys
        BY <1>1, <1>2, BaselineTyped, MarkStored
      <3> HIDE DEF new
      <3> QED BY <1>2, <2>1, <3>1, Committed
    <2>2. CASE db' = db /\ snap' = snap
      BY <1>2, <2>2 DEF TypeOK, SizesOK, Sized, View
    <2> QED BY <1>1, <2>1, <2>2
  <1>4. hold' \in [Scans -> [buy: 0 .. MaxBuys, price: Prices \cup {NoPrice},
                             prior: Prices \cup {Untracked}, rule: Rules \cup {"none"},
                             row: 0 .. MaxSells]]
    BY <1>1, NoHoldTyped DEF Inv, TypeOK
  <1>5. TypeOK'
    <2>1. scan' \in [Scans -> [pc: {"idle", "ingest", "load", "next", "decide", "insert",
                                   "send", "flip", "mark"},
                              now: 0 .. MaxClock, riskOff: BOOLEAN]]
      BY <1>1, <1>2 DEF TypeOK
    <2> QED BY <1>1, <1>2, <1>3, <1>4, <2>1 DEF TypeOK
  <1>6. /\ scan'[p].pc = "next" /\ scan'[p].now = scan[p].now /\ hold'[p] = NoHold
        /\ \A q \in Scans \ {p} : Leaves(q)
    BY <1>1, <1>2, <1>3 DEF TypeOK, Leaves
  <1>7. PassOK(p)'
    BY <1>1, <1>3, <1>6 DEF Inv, PassesOK, PassOK, Busy
  <1> QED BY <1>1, <1>3, <1>5, <1>6, <1>7, QuietStep

LEMMA EndPassKeeps == ASSUME Inv, NEW p \in Scans, EndPass(p) PROVE Inv'
  <1>1. /\ scan[p].pc = "next" /\ todo[p] = {} /\ scan' = [scan EXCEPT ![p] = Idle]
        /\ snap' = [snap EXCEPT ![p] = Live]
        /\ UNCHANGED <<clock, db, todo, hold, calls, acked, faults>>
    BY DEF EndPass
  <1>2. Live \in [pinned: BOOLEAN, rows: Rows] /\ Sized(Live.rows) /\ Live.pinned = FALSE
    BY EmptyRows DEF Live
  <1>3. /\ snap' \in [Scans -> [pinned: BOOLEAN, rows: Rows]] /\ snap'[p] = Live
        /\ scan'[p].pc = "idle" /\ scan'[p].now = 0
        /\ \A q \in Scans \ {p} : Leaves(q)
    BY <1>1, <1>2 DEF Inv, TypeOK, Leaves, Idle
  <1>4. TypeOK'
    BY <1>1, <1>3, SellAssumption DEF Inv, TypeOK, Idle
  <1>5. SizesOK'
    BY <1>1, <1>2, <1>3 DEF Inv, SizesOK, Sized, Leaves
  <1>6. PassOK(p)'
    <2>1. PassOK(p) /\ clock \in Nat
      BY SellAssumption DEF Inv, PassesOK, TypeOK
    <2> QED BY <1>1, <1>2, <1>3, <2>1 DEF PassOK, Busy
  <1> QED BY <1>1, <1>3, <1>4, <1>5, <1>6, QuietStep

LEMMA AbandonKeeps == ASSUME Inv, NEW p \in Scans, Abandon(p) PROVE Inv'
  <1>1. /\ scan[p].pc \in {"insert", "flip", "mark"} /\ scan' = [scan EXCEPT ![p].pc = "next"]
        /\ hold' = [hold EXCEPT ![p] = NoHold]
        /\ \/ /\ snap' = [snap EXCEPT ![p] = Pinned(View(p))]
              /\ faults' = faults + 1 /\ faults < MaxFaults
           \/ snap' = snap /\ faults' = faults
        /\ UNCHANGED <<clock, db, todo, calls, acked>>
    BY DEF Abandon, Writes, DoneWith, Goes, Fault
  <1>2. TypeOK /\ SizesOK /\ View(p) \in Rows /\ Sized(View(p))
    BY ViewTyped DEF Inv
  <1>3. /\ View(p)' = View(p) /\ \A q \in Scans \ {p} : snap'[q] = snap[q]
        /\ snap' \in [Scans -> [pinned: BOOLEAN, rows: Rows]] /\ SizesOK'
        /\ faults' \in 0 .. MaxFaults
    <2>1. CASE snap' = snap /\ faults' = faults
      BY <1>1, <1>2, <2>1 DEF TypeOK, SizesOK, Sized, View
    <2>2. CASE /\ snap' = [snap EXCEPT ![p] = Pinned(View(p))]
               /\ faults' = faults + 1 /\ faults < MaxFaults
      <3>1. /\ Pinned(View(p)) \in [pinned: BOOLEAN, rows: Rows]
            /\ Pinned(View(p)).pinned /\ Pinned(View(p)).rows = View(p)
        BY <1>2 DEF Pinned
      <3>2. /\ snap'[p] = Pinned(View(p)) /\ \A q \in Scans \ {p} : snap'[q] = snap[q]
            /\ snap' \in [Scans -> [pinned: BOOLEAN, rows: Rows]]
        BY <1>2, <2>2, <3>1 DEF TypeOK
      <3>3. View(p)' = View(p)
        BY <3>1, <3>2 DEF View
      <3>4. SizesOK'
        BY <1>1, <1>2, <3>1, <3>2 DEF SizesOK, Sized
      <3>5. faults' \in 0 .. MaxFaults
        BY <1>2, <2>2, SellAssumption DEF TypeOK
      <3> QED BY <3>2, <3>3, <3>4, <3>5
    <2> QED BY <1>1, <2>1, <2>2
  <1>4. hold' \in [Scans -> [buy: 0 .. MaxBuys, price: Prices \cup {NoPrice},
                             prior: Prices \cup {Untracked}, rule: Rules \cup {"none"},
                             row: 0 .. MaxSells]]
    BY <1>1, NoHoldTyped DEF Inv, TypeOK
  <1>5. TypeOK'
    BY <1>1, <1>2, <1>3, <1>4 DEF TypeOK
  <1>6. /\ scan'[p].pc = "next" /\ scan'[p].now = scan[p].now /\ hold'[p] = NoHold
        /\ \A q \in Scans \ {p} : Leaves(q)
    BY <1>1, <1>2, <1>3 DEF TypeOK, Leaves
  <1>7. PassOK(p)'
    BY <1>1, <1>3, <1>6 DEF Inv, PassesOK, PassOK, Busy
  <1> QED BY <1>1, <1>3, <1>5, <1>6, <1>7, QuietStep

LEMMA CrashKeeps == ASSUME Inv, NEW p \in Scans, Crash(p) PROVE Inv'
  <1>1. /\ scan' = [scan EXCEPT ![p] = Idle] /\ snap' = [snap EXCEPT ![p] = Live]
        /\ todo' = [todo EXCEPT ![p] = {}] /\ hold' = [hold EXCEPT ![p] = NoHold]
        /\ faults < MaxFaults /\ faults' = faults + 1
        /\ UNCHANGED <<clock, db, calls, acked>>
    BY DEF Crash, Fault
  <1>2. Live \in [pinned: BOOLEAN, rows: Rows] /\ Sized(Live.rows) /\ Live.pinned = FALSE
    BY EmptyRows DEF Live
  <1>3. /\ snap' \in [Scans -> [pinned: BOOLEAN, rows: Rows]] /\ snap'[p] = Live
        /\ scan'[p].pc = "idle" /\ scan'[p].now = 0 /\ hold'[p] = NoHold /\ todo'[p] = {}
        /\ \A q \in Scans \ {p} : Leaves(q)
    BY <1>1, <1>2 DEF Inv, TypeOK, Leaves, Idle
  <1>4. hold' \in [Scans -> [buy: 0 .. MaxBuys, price: Prices \cup {NoPrice},
                             prior: Prices \cup {Untracked}, rule: Rules \cup {"none"},
                             row: 0 .. MaxSells]]
    BY <1>1, NoHoldTyped DEF Inv, TypeOK
  <1>5. TypeOK'
    BY <1>1, <1>3, <1>4, SellAssumption DEF Inv, TypeOK, Idle
  <1>6. SizesOK'
    BY <1>1, <1>2, <1>3 DEF Inv, SizesOK, Sized, Leaves
  <1>7. PassOK(p)'
    <2>1. clock \in Nat
      BY SellAssumption DEF Inv, TypeOK
    <2> QED BY <1>1, <1>2, <1>3, <2>1 DEF PassOK, Busy
  <1> QED BY <1>1, <1>3, <1>5, <1>6, <1>7, QuietStep

LEMMA StepKeeps == Inv /\ [Next]_vars => Inv'
  <1> SUFFICES ASSUME Inv, [Next]_vars PROVE Inv'
    OBVIOUS
  <1>1. CASE UNCHANGED vars
    BY <1>1 DEF vars, dbVars, Inv, TypeOK, SizesOK, Sized, PassesOK, PassOK, View, RoomOK,
      Storing, RowsOK, SentOnce
  <1>2. CASE Tick \/ InsertBuy \/ RecordSale
    BY <1>2, TickKeeps, InsertBuyKeeps, RecordSaleKeeps
  <1>3. ASSUME NEW p \in Scans, Pass(p) PROVE Inv'
    BY <1>3, StartScanKeeps, IngestCloseKeeps, IngestNothingKeeps, LoadBuysKeeps,
      SkipBuyKeeps, EvaluateKeeps, DecideKeeps, InsertSellSignalKeeps, SendKeeps,
      FlipAlertedKeeps, UpdateWatermarkKeeps, EndPassKeeps DEF Pass
  <1>4. ASSUME NEW p \in Scans, Abandon(p) \/ Crash(p) PROVE Inv'
    BY <1>4, AbandonKeeps, CrashKeeps
  <1> QED BY <1>1, <1>2, <1>3, <1>4 DEF Next

-----------------------------------------------------------------------------
(* Owners, action by action.                                               *)

LEMMA SameTransfer ==
  ASSUME NEW a, NEW b, SameSells(a, b), NEW i \in DOMAIN a.sells
  PROVE  /\ i \in DOMAIN b.sells /\ b.sells[i].detected = a.sells[i].detected
         /\ b.sells[i].buy = a.sells[i].buy /\ b.sells[i].rule = a.sells[i].rule
  BY DEF SameSells, Alike, Kin

LEMMA ApartKept ==
  ASSUME Inv, SameSells(db, db'), clock' \in Nat, clock' >= clock,
         NEW own, Owns(own)
  PROVE  /\ Apart(own)'
         /\ \A i \in DOMAIN db'.sells : db'.sells[i].detected <= clock'
  <1>1. /\ clock \in Nat
        /\ \A i \in DOMAIN db.sells : db.sells[i].detected \in Nat
    <2>1. clock \in Nat /\ db \in Rows
      BY SellAssumption DEF Inv, TypeOK
    <2>2. \A i \in DOMAIN db.sells : db.sells[i] \in Sell
      BY <2>1, RowsTyped
    <2> QED BY <2>1, <2>2 DEF Sell
  <1>2. DOMAIN db'.sells = DOMAIN db.sells
    BY DEF SameSells
  <1>3. Apart(own)'
    BY <1>2, SameTransfer DEF Owns, Apart, Kin
  <1>4. \A i \in DOMAIN db'.sells : db'.sells[i].detected <= clock'
    BY <1>1, <1>2, SameTransfer DEF Owns
  <1> QED BY <1>3, <1>4

LEMMA KnowsKept ==
  ASSUME NEW p \in Scans, SameSells(db, db'), NEW own, Owns(own),
         scan[p].pc # "idle", scan'[p].now = scan[p].now, SameSells(View(p), View(p)'),
         scan'[p].pc = "insert" => scan[p].pc = "insert" /\ hold'[p] = hold[p]
  PROVE  Knows(own, p)'
  <1> SUFFICES ASSUME NEW i \in DOMAIN db'.sells, own[i] = p
               PROVE  /\ db'.sells[i].detected <= scan'[p].now
                      /\ i \in DOMAIN View(p)'.sells
                      /\ Alike(View(p)'.sells[i], db'.sells[i])
                      /\ scan'[p].pc = "insert" /\ Kin(hold'[p], db'.sells[i])
                           => scan'[p].now - db'.sells[i].detected >= CooldownHours
    BY DEF Knows
  <1>1. i \in DOMAIN db.sells
    BY DEF SameSells
  <1>2. /\ db.sells[i].detected <= scan[p].now
        /\ i \in DOMAIN View(p).sells
        /\ Alike(View(p).sells[i], db.sells[i])
        /\ scan[p].pc = "insert" /\ Kin(hold[p], db.sells[i])
             => scan[p].now - db.sells[i].detected >= CooldownHours
    BY <1>1 DEF Owns, Knows
  <1>3. /\ db'.sells[i].detected = db.sells[i].detected
        /\ db'.sells[i].buy = db.sells[i].buy /\ db'.sells[i].rule = db.sells[i].rule
    BY <1>1, SameTransfer
  <1>4. /\ i \in DOMAIN View(p)'.sells
        /\ View(p)'.sells[i].detected = View(p).sells[i].detected
        /\ View(p)'.sells[i].buy = View(p).sells[i].buy
        /\ View(p)'.sells[i].rule = View(p).sells[i].rule
    BY <1>2, SameTransfer
  <1> QED BY <1>2, <1>3, <1>4 DEF Alike, Kin

LEMMA SameSellsRefl == \A rows : SameSells(rows, rows)
  BY DEF SameSells, Alike, Kin

LEMMA OtherKnows ==
  ASSUME NEW q \in Scans, Leaves(q), SameSells(db, db'), NEW own, Owns(own)
  PROVE  Knows(own, q)'
  <1>1. CASE scan[q].pc = "idle"
    BY <1>1 DEF Knows, Leaves
  <1>2. CASE scan[q].pc # "idle"
    <2>1. SameSells(View(q), View(q)')
      BY SameSellsRefl DEF View, Leaves
    <2> QED BY <1>2, <2>1, KnowsKept DEF Leaves
  <1> QED BY <1>1, <1>2

(* A step of p that neither starts, decides nor stores.                    *)
LEMMA CalmStep ==
  ASSUME Inv, NEW own, Owns(own), NEW p \in Scans, \A q \in Scans \ {p} : Leaves(q),
         SameSells(db, db'), clock' = clock,
         \/ scan'[p].pc = "idle"
         \/ /\ scan[p].pc # "idle" /\ scan'[p].pc # "insert"
            /\ scan'[p].now = scan[p].now /\ SameSells(View(p), View(p)')
  PROVE  Owns(own)' /\ DOMAIN db'.sells = DOMAIN db.sells
  <1>1. Apart(own)' /\ \A i \in DOMAIN db'.sells : db'.sells[i].detected <= clock'
    BY ApartKept, SellAssumption DEF Inv, TypeOK
  <1>2. \A q \in Scans \ {p} : Knows(own, q)'
    BY OtherKnows
  <1>3. Knows(own, p)'
    <2>1. CASE scan'[p].pc = "idle"
      BY <2>1 DEF Knows
    <2>2. CASE scan'[p].pc # "idle"
      BY <2>2, KnowsKept
    <2> QED BY <2>1, <2>2
  <1> QED BY <1>1, <1>2, <1>3 DEF Owns, SameSells

LEMMA OutsideOwned ==
  ASSUME Inv, NEW own, Owns(own), Tick \/ InsertBuy \/ RecordSale
  PROVE  Owns(own)' /\ DOMAIN db'.sells = DOMAIN db.sells
  <1>1. db'.sells = db.sells /\ \A q \in Scans : Leaves(q)
    BY DEF Tick, InsertBuy, RecordSale, dbVars, Leaves, Inv, TypeOK, Rows
  <1>2. clock \in Nat /\ clock' \in Nat /\ clock' >= clock
    BY SellAssumption DEF Tick, InsertBuy, RecordSale, Inv, TypeOK
  <1>3. SameSells(db, db')
    BY <1>1 DEF SameSells, Alike, Kin
  <1>4. Apart(own)' /\ \A i \in DOMAIN db'.sells : db'.sells[i].detected <= clock'
    BY <1>2, <1>3, ApartKept
  <1>5. \A q \in Scans : Knows(own, q)'
    BY <1>1, <1>3, OtherKnows
  <1> QED BY <1>1, <1>4, <1>5 DEF Owns

LEMMA StartScanOwned ==
  ASSUME Inv, NEW own, Owns(own), NEW p \in Scans, StartScan(p)
  PROVE  Owns(own)' /\ DOMAIN db'.sells = DOMAIN db.sells
  <1>1. /\ scan[p].pc = "idle" /\ UNCHANGED <<clock, db, snap, todo, hold>>
        /\ scan'[p].pc = "ingest" /\ scan'[p].now = clock
        /\ \A q \in Scans \ {p} : Leaves(q)
    BY DEF StartScan, dbVars, Inv, TypeOK, Leaves
  <1>2. SameSells(db, db')
    BY <1>1, SameSellsRefl
  <1>3. Apart(own)' /\ \A i \in DOMAIN db'.sells : db'.sells[i].detected <= clock'
    BY <1>1, <1>2, ApartKept, SellAssumption DEF Inv, TypeOK
  <1>4. View(p)' = db
    BY <1>1 DEF Inv, PassesOK, PassOK, View
  <1>5. Knows(own, p)'
    BY <1>1, <1>4 DEF Knows, Owns, Alike, Kin
  <1>6. \A q \in Scans \ {p} : Knows(own, q)'
    BY <1>1, <1>2, OtherKnows
  <1> QED BY <1>1, <1>3, <1>5, <1>6 DEF Owns

(* What the cooldown check finds out.                                      *)
LEMMA CooldownSeesAll ==
  ASSUME Inv, NEW p \in Scans, scan[p].pc = "decide", ~CooldownActive(p),
         NEW i \in DOMAIN View(p).sells, Kin(hold[p], View(p).sells[i]),
         View(p).sells[i].detected <= scan[p].now
  PROVE  scan[p].now - View(p).sells[i].detected >= CooldownHours
  <1> DEFINE sells == View(p).sells
             times == {sells[j].detected : j \in {k \in DOMAIN sells :
                         sells[k].buy = hold[p].buy /\ sells[k].rule = hold[p].rule}}
  <1>1. View(p) \in Rows /\ Sized(View(p)) /\ scan[p].now \in Nat /\ MaxClock \in Nat
        /\ CooldownHours \in Int
    BY ViewTyped, SellAssumption DEF Inv, TypeOK
  <1>2. \A j \in DOMAIN sells : sells[j].detected \in 0 .. MaxClock
    <2>1. \A j \in DOMAIN sells : sells[j] \in Sell
      BY <1>1, RowsTyped
    <2> QED BY <1>1, <2>1 DEF Sized, Sell
  <1>3. sells[i].detected \in times /\ times \in SUBSET (0 .. MaxClock)
    BY <1>2 DEF Kin
  <1>4. PICK t \in times : \A u \in times : u <= t
    <2> HIDE DEF times
    <2> QED BY <1>1, <1>3, HasGreatest
  <1>5. t \in LastSellSignalTimes(View(p), hold[p].buy, hold[p].rule)
    BY <1>4 DEF LastSellSignalTimes
  <1>6. CooldownHours > 0 => ~(scan[p].now - t < CooldownHours)
    BY <1>5 DEF CooldownActive
  <1>7. sells[i].detected <= t /\ t \in Nat /\ sells[i].detected \in Nat
    <2> HIDE DEF times
    <2> QED BY <1>1, <1>2, <1>3, <1>4
  <1> QED BY <1>1, <1>6, <1>7

LEMMA DecideOwned ==
  ASSUME Inv, NEW own, Owns(own), NEW p \in Scans, Decide(p)
  PROVE  Owns(own)' /\ DOMAIN db'.sells = DOMAIN db.sells
  <1>1. /\ scan[p].pc = "decide" /\ UNCHANGED <<clock, db, snap, todo, hold>>
        /\ scan'[p].pc # "idle" /\ scan'[p].now = scan[p].now
        /\ scan'[p].pc = "insert" => ~CooldownActive(p)
        /\ \A q \in Scans \ {p} : Leaves(q)
    BY DEF Decide, Goes, dbVars, Inv, TypeOK, Leaves
  <1>2. SameSells(db, db') /\ View(p)' = View(p)
    BY <1>1, SameSellsRefl DEF View
  <1>3. Apart(own)' /\ \A i \in DOMAIN db'.sells : db'.sells[i].detected <= clock'
    BY <1>1, <1>2, ApartKept, SellAssumption DEF Inv, TypeOK
  <1>4. Knows(own, p)'
    <2> SUFFICES ASSUME NEW i \in DOMAIN db.sells, own[i] = p
                 PROVE  /\ db.sells[i].detected <= scan[p].now
                        /\ i \in DOMAIN View(p).sells
                        /\ Alike(View(p).sells[i], db.sells[i])
                        /\ scan'[p].pc = "insert" /\ Kin(hold[p], db.sells[i])
                             => scan[p].now - db.sells[i].detected >= CooldownHours
      BY <1>1, <1>2 DEF Knows
    <2>1. /\ db.sells[i].detected <= scan[p].now
          /\ i \in DOMAIN View(p).sells
          /\ Alike(View(p).sells[i], db.sells[i])
      BY <1>1 DEF Owns, Knows
    <2>2. ASSUME scan'[p].pc = "insert", Kin(hold[p], db.sells[i])
          PROVE  scan[p].now - db.sells[i].detected >= CooldownHours
      <3>1. /\ Kin(hold[p], View(p).sells[i])
            /\ View(p).sells[i].detected = db.sells[i].detected
        BY <2>1, <2>2 DEF Alike, Kin
      <3> QED BY <1>1, <2>1, <2>2, <3>1, CooldownSeesAll
    <2> QED BY <2>1, <2>2
  <1>5. \A q \in Scans \ {p} : Knows(own, q)'
    BY <1>1, <1>2, OtherKnows
  <1> QED BY <1>1, <1>3, <1>4, <1>5 DEF Owns

LEMMA InsertOwned ==
  ASSUME Inv, NEW own, Owns(own), NEW p \in Scans, InsertSellSignal(p),
         NEW own2, own2[Len(db.sells) + 1] = p,
         \A i \in 1 .. Len(db.sells) : own2[i] = own[i]
  PROVE  /\ Owns(own2)' /\ Len(db.sells) + 1 \in SellIds
         /\ DOMAIN db.sells = 1 .. Len(db.sells)
         /\ DOMAIN db'.sells = 1 .. Len(db.sells) + 1
  <1>0. Stores(p)
    BY Inserted
  <1>1. Len(db.sells) + 1 \in SellIds
    BY <1>0, Bounded DEF Stores, SellIds
  <1> DEFINE n == Len(db.sells) + 1
  <1>2. /\ DOMAIN db.sells = 1 .. Len(db.sells) /\ DOMAIN db'.sells = 1 .. n
        /\ Len(db.sells) \in Nat
        /\ \A i \in 1 .. Len(db.sells) : db'.sells[i] = db.sells[i]
        /\ \A i \in 1 .. Len(db.sells) : db.sells[i].detected \in Nat
    <2>1. /\ Len(db.sells) \in Nat /\ Len(db'.sells) = n
          /\ db \in Rows /\ db' \in Rows
          /\ \A i \in 1 .. Len(db.sells) : db'.sells[i] = db.sells[i]
      BY <1>0 DEF Stores, Inv, TypeOK
    <2>2. \A i \in 1 .. Len(db.sells) : db.sells[i] \in Sell
      BY <2>1, RowsTyped
    <2> QED BY <2>1, <2>2, RowsTyped DEF Sell
  <1>3. /\ db'.sells[n].buy = hold[p].buy /\ db'.sells[n].rule = hold[p].rule
        /\ db'.sells[n].detected = scan[p].now
    BY <1>0 DEF Stores
  <1>4. /\ scan[p].pc = "insert" /\ scan'[p].pc = "send" /\ scan'[p].now = scan[p].now
        /\ View(p) = db /\ View(p)' = db' /\ clock' = clock
        /\ scan[p].now \in Nat /\ scan[p].now <= clock /\ clock \in Nat
    BY <1>0, SellAssumption DEF Stores, Inv, TypeOK, PassesOK, PassOK
  <1>5. \A i \in 1 .. Len(db.sells) : own[i] = p =>
          /\ db.sells[i].detected <= scan[p].now
          /\ Kin(hold[p], db.sells[i]) => scan[p].now - db.sells[i].detected >= CooldownHours
    BY <1>2, <1>4 DEF Owns, Knows
  <1>6. Apart(own2)'
    <2> SUFFICES ASSUME NEW i \in 1 .. n, NEW j \in 1 .. n, i < j, own2[i] = own2[j],
                        Kin(db'.sells[i], db'.sells[j])
                 PROVE  db'.sells[j].detected - db'.sells[i].detected >= CooldownHours
      BY <1>2 DEF Apart
    <2>1. i \in 1 .. Len(db.sells)
      BY <1>2
    <2>2. CASE j = n
      BY <1>2, <1>3, <1>5, <2>1, <2>2 DEF Kin
    <2>3. CASE j # n
      <3>1. j \in 1 .. Len(db.sells)
        BY <1>2, <2>3
      <3> QED BY <1>2, <2>1, <3>1 DEF Owns, Apart
    <2> QED BY <2>2, <2>3
  <1>7. \A i \in DOMAIN db'.sells : db'.sells[i].detected <= clock'
    <2>1. \A i \in 1 .. Len(db.sells) : db'.sells[i].detected <= clock'
      BY <1>2, <1>4 DEF Owns
    <2>2. db'.sells[n].detected <= clock'
      BY <1>3, <1>4
    <2>3. \A i \in 1 .. n : i = n \/ i \in 1 .. Len(db.sells)
      BY <1>2
    <2> QED BY <1>2, <2>1, <2>2, <2>3
  <1>8. Knows(own2, p)'
    <2>1. ASSUME NEW i \in 1 .. n, own2[i] = p PROVE db'.sells[i].detected <= scan'[p].now
      <3>1. CASE i = n
        BY <1>3, <1>4, <3>1
      <3>2. CASE i # n
        BY <1>2, <1>4, <1>5, <2>1, <3>2, SMTT(30)
      <3> QED BY <3>1, <3>2
    <2> QED BY <1>2, <1>4, <2>1 DEF Knows, Alike, Kin
  <1>9. ASSUME NEW q \in Scans \ {p} PROVE Knows(own2, q)'
    <2> SUFFICES ASSUME scan[q].pc # "idle", NEW i \in 1 .. n, own2[i] = q
                 PROVE  /\ db'.sells[i].detected <= scan[q].now
                        /\ i \in DOMAIN View(q)'.sells
                        /\ Alike(View(q)'.sells[i], db'.sells[i])
                        /\ scan[q].pc = "insert" /\ Kin(hold[q], db'.sells[i])
                             => scan[q].now - db'.sells[i].detected >= CooldownHours
      BY <1>0, <1>2 DEF Knows, Stores, Leaves
    <2>1. i \in 1 .. Len(db.sells) /\ own[i] = q
      BY <1>2, <1>5
    <2>2. /\ db.sells[i].detected <= scan[q].now
          /\ i \in DOMAIN View(q).sells
          /\ Alike(View(q).sells[i], db.sells[i])
          /\ scan[q].pc = "insert" /\ Kin(hold[q], db.sells[i])
               => scan[q].now - db.sells[i].detected >= CooldownHours
      BY <1>2, <2>1 DEF Owns, Knows
    <2>3. db'.sells[i] = db.sells[i]
      BY <1>2, <2>1
    <2>4. i \in DOMAIN View(q)'.sells /\ Alike(View(q)'.sells[i], db'.sells[i])
      <3>1. snap'[q] = snap[q]
        BY <1>0 DEF Stores, Leaves
      <3>2. CASE snap[q].pinned
        BY <2>2, <2>3, <3>1, <3>2 DEF View
      <3>3. CASE ~snap[q].pinned
        BY <1>2, <2>1, <3>1, <3>3 DEF View, Alike, Kin
      <3> QED BY <3>2, <3>3
    <2> QED BY <2>2, <2>3, <2>4
  <1> QED BY <1>1, <1>2, <1>6, <1>7, <1>8, <1>9 DEF Owns

(* The other steps change no signal but its mark, and what p sees of the   *)
(* signals only as they do.                                                *)
LEMMA QuietOwned ==
  ASSUME Inv, NEW own, Owns(own), NEW p \in Scans,
         \/ IngestNothing(p) \/ LoadBuys(p) \/ SkipBuy(p) \/ Evaluate(p) \/ Send(p)
  PROVE  Owns(own)' /\ DOMAIN db'.sells = DOMAIN db.sells
  <1>1. /\ UNCHANGED <<clock, db, snap>> /\ \A q \in Scans \ {p} : Leaves(q)
        /\ scan[p].pc # "idle" /\ scan'[p].pc # "insert" /\ scan'[p].now = scan[p].now
    <2>1. CASE IngestNothing(p)
      BY <2>1 DEF IngestNothing, Goes, dbVars, Inv, TypeOK, Leaves
    <2>2. CASE LoadBuys(p)
      BY <2>2 DEF LoadBuys, Goes, dbVars, Inv, TypeOK, Leaves
    <2>3. CASE SkipBuy(p)
      BY <2>3 DEF SkipBuy, dbVars, Inv, TypeOK, Leaves
    <2>4. CASE Evaluate(p)
      BY <2>4 DEF Evaluate, Goes, dbVars, Inv, TypeOK, Leaves
    <2>5. CASE Send(p)
      BY <2>5 DEF Send, Goes, dbVars, Inv, TypeOK, Leaves
    <2> QED BY <2>1, <2>2, <2>3, <2>4, <2>5
  <1>2. SameSells(db, db') /\ SameSells(View(p), View(p)')
    BY <1>1, SameSellsRefl DEF View
  <1> QED BY <1>1, <1>2, CalmStep

LEMMA EndOwned ==
  ASSUME Inv, NEW own, Owns(own), NEW p \in Scans, EndPass(p) \/ Crash(p)
  PROVE  Owns(own)' /\ DOMAIN db'.sells = DOMAIN db.sells
  <1>1. /\ UNCHANGED <<clock, db>> /\ scan'[p].pc = "idle"
        /\ \A q \in Scans \ {p} : Leaves(q)
    BY DEF EndPass, Crash, Idle, Inv, TypeOK, Leaves
  <1>2. SameSells(db, db')
    BY <1>1, SameSellsRefl
  <1> QED BY <1>1, <1>2, CalmStep

LEMMA IngestCloseOwned ==
  ASSUME Inv, NEW own, Owns(own), NEW p \in Scans, IngestClose(p)
  PROVE  Owns(own)' /\ DOMAIN db'.sells = DOMAIN db.sells
  <1>1. /\ clock' = clock /\ snap' = snap /\ db'.sells = db.sells
        /\ scan[p].pc = "ingest" /\ scan'[p].pc = "load" /\ scan'[p].now = scan[p].now
        /\ \A q \in Scans \ {p} : Leaves(q)
    BY DEF IngestClose, Goes, Inv, TypeOK, Leaves, Rows
  <1>2. SameSells(db, db') /\ SameSells(View(p), View(p)')
    BY <1>1 DEF View, SameSells, Alike, Kin
  <1> QED BY <1>1, <1>2, CalmStep

LEMMA FlipOwned ==
  ASSUME Inv, NEW own, Owns(own), NEW p \in Scans, FlipAlerted(p)
  PROVE  Owns(own)' /\ DOMAIN db'.sells = DOMAIN db.sells
  <1> DEFINE new == [db EXCEPT !.sells[hold[p].row].alerted = TRUE]
  <1>1. /\ scan[p].pc = "flip" /\ Publish(p, new) /\ scan' = [scan EXCEPT ![p].pc = "mark"]
        /\ UNCHANGED <<clock, todo, hold, calls, acked, faults>>
    BY DEF FlipAlerted, Goes
  <1>2. hold[p].row \in 1 .. Len(db.sells) /\ db \in Rows /\ Sized(db) /\ TypeOK /\ SizesOK
    BY <1>1 DEF Inv, TypeOK, SizesOK, PassesOK, PassOK
  <1>3. /\ new \in Rows /\ Sized(new) /\ Len(new.sells) = Len(db.sells)
        /\ SameSells(db, new)
    BY <1>2, FlipStored
  <1>4. /\ View(p) = db /\ db' = new /\ View(p)' = new
        /\ \A q \in Scans \ {p} : snap'[q] = snap[q]
    <2> HIDE DEF new
    <2> QED BY <1>1, <1>2, <1>3, Committed
  <1> HIDE DEF new
  <1>5. /\ scan'[p].pc = "mark" /\ scan'[p].now = scan[p].now
        /\ \A q \in Scans \ {p} : Leaves(q)
    BY <1>1, <1>2, <1>4 DEF TypeOK, Leaves
  <1> QED BY <1>1, <1>3, <1>4, <1>5, CalmStep

LEMMA MarkOwned ==
  ASSUME Inv, NEW own, Owns(own), NEW p \in Scans, UpdateWatermark(p)
  PROVE  Owns(own)' /\ DOMAIN db'.sells = DOMAIN db.sells
  <1> DEFINE new == RaisedMark(db, hold[p].buy, Baseline(p))
  <1>1. /\ scan[p].pc = "mark" /\ scan' = [scan EXCEPT ![p].pc = "next"]
        /\ hold' = [hold EXCEPT ![p] = NoHold]
        /\ Publish(p, new) \/ (db' = db /\ snap' = snap)
        /\ UNCHANGED <<clock, todo, calls, acked, faults>>
    BY DEF UpdateWatermark, DoneWith, Goes, dbVars
  <1>2. TypeOK /\ SizesOK /\ db \in Rows /\ Sized(db)
    BY DEF Inv, TypeOK, SizesOK
  <1>3. /\ SameSells(db, db') /\ SameSells(View(p), View(p)')
        /\ \A q \in Scans \ {p} : snap'[q] = snap[q]
    <2>1. CASE Publish(p, new)
      <3>1. new \in Rows /\ Sized(new) /\ new.sells = db.sells
        BY <1>1, <1>2, BaselineTyped, MarkStored
      <3>2. SameSells(db, new)
        BY <3>1 DEF SameSells, Alike, Kin
      <3> HIDE DEF new
      <3> QED BY <1>2, <2>1, <3>1, <3>2, Committed
    <2>2. CASE db' = db /\ snap' = snap
      BY <2>2, SameSellsRefl DEF View
    <2> QED BY <1>1, <2>1, <2>2
  <1>4. /\ scan'[p].pc = "next" /\ scan'[p].now = scan[p].now
        /\ \A q \in Scans \ {p} : Leaves(q)
    BY <1>1, <1>2, <1>3 DEF TypeOK, Leaves
  <1> QED BY <1>1, <1>3, <1>4, CalmStep

LEMMA AbandonOwned ==
  ASSUME Inv, NEW own, Owns(own), NEW p \in Scans, Abandon(p)
  PROVE  Owns(own)' /\ DOMAIN db'.sells = DOMAIN db.sells
  <1>1. /\ scan[p].pc \in {"insert", "flip", "mark"} /\ scan' = [scan EXCEPT ![p].pc = "next"]
        /\ hold' = [hold EXCEPT ![p] = NoHold]
        /\ snap' = [snap EXCEPT ![p] = Pinned(View(p))] \/ snap' = snap
        /\ UNCHANGED <<clock, db, todo, calls, acked>>
    BY DEF Abandon, Writes, DoneWith, Goes, Fault
  <1>2. View(p)' = View(p)
    BY <1>1 DEF View, Pinned, Inv, TypeOK
  <1>3. SameSells(db, db') /\ SameSells(View(p), View(p)')
    BY <1>1, <1>2, SameSellsRefl
  <1>4. /\ scan'[p].pc = "next" /\ scan'[p].now = scan[p].now
        /\ \A q \in Scans \ {p} : Leaves(q)
    BY <1>1 DEF Inv, TypeOK, Leaves
  <1> QED BY <1>1, <1>3, <1>4, CalmStep

LEMMA OwnersKept ==
  ASSUME Inv, NEW own, Owns(own), [Next]_vars, ~\E p \in Scans : InsertSellSignal(p)
  PROVE  Owns(own)' /\ DOMAIN db'.sells = DOMAIN db.sells
  <1>1. CASE UNCHANGED vars
    BY <1>1 DEF vars, dbVars, Owns, Apart, Knows, View
  <1>2. CASE Tick \/ InsertBuy \/ RecordSale
    BY <1>2, OutsideOwned
  <1>3. ASSUME NEW p \in Scans, Pass(p)
        PROVE  Owns(own)' /\ DOMAIN db'.sells = DOMAIN db.sells
    BY <1>3, StartScanOwned, IngestCloseOwned, QuietOwned, DecideOwned, FlipOwned, MarkOwned,
      EndOwned DEF Pass
  <1>4. ASSUME NEW p \in Scans, Abandon(p) \/ Crash(p)
        PROVE  Owns(own)' /\ DOMAIN db'.sells = DOMAIN db.sells
    BY <1>4, AbandonOwned, EndOwned
  <1> QED BY <1>1, <1>2, <1>3, <1>4 DEF Next

LEMMA StepOwned == Inv /\ Owned /\ [Next]_vars => Owned'
  <1> SUFFICES ASSUME Inv, Owned, [Next]_vars PROVE Owned'
    OBVIOUS
  <1>1. PICK own : Owns(own) /\ \A i \in DOMAIN db.sells : own[i] \in Scans
    BY DEF Owned
  <1>2. CASE ~\E p \in Scans : InsertSellSignal(p)
    BY <1>1, <1>2, OwnersKept DEF Owned
  <1>3. ASSUME NEW p \in Scans, InsertSellSignal(p) PROVE Owned'
    <2> DEFINE n == Len(db.sells) + 1
               with == [i \in 1 .. n |-> IF i = n THEN p ELSE own[i]]
    <2>1. /\ Len(db.sells) \in Nat /\ DOMAIN db.sells = 1 .. Len(db.sells)
      BY RowsTyped DEF Inv, TypeOK
    <2>2. /\ with[n] = p
          /\ \A i \in 1 .. Len(db.sells) : with[i] = own[i]
          /\ \A i \in 1 .. n : with[i] \in Scans
      BY <1>1, <2>1
    <2> HIDE DEF with
    <2>3. PICK own2 : own2 = with
      OBVIOUS
    <2>4. Owns(own2)' /\ DOMAIN db'.sells = 1 .. n
      BY <1>1, <1>3, <2>2, <2>3, InsertOwned
    <2> QED BY <2>2, <2>3, <2>4 DEF Owned
  <1> QED BY <1>2, <1>3

LEMMA InitOwned == Init => Owned
  <1> SUFFICES ASSUME Init PROVE Owned
    OBVIOUS
  <1>1. DOMAIN db.sells = {} /\ \A p \in Scans : scan[p].pc = "idle"
    BY DEF Init, Empty, Idle
  <1>2. Owns([i \in {} |-> i])
    BY <1>1 DEF Owns, Apart, Knows
  <1> QED BY <1>1, <1>2 DEF Owned

-----------------------------------------------------------------------------
(* The theorems.                                                           *)

LEMMA OwnedBounds == ASSUME Inv, Owned PROVE WindowBounded
  <1>1. PICK own : Owns(own) /\ \A i \in DOMAIN db.sells : own[i] \in Scans
    BY DEF Owned
  <1> SUFFICES ASSUME NEW i \in DOMAIN db.sells
               PROVE Cardinality({j \in DOMAIN db.sells :
                        /\ db.sells[j].buy = db.sells[i].buy
                        /\ db.sells[j].rule = db.sells[i].rule
                        /\ db.sells[j].detected >= db.sells[i].detected
                        /\ db.sells[j].detected - db.sells[i].detected < CooldownHours})
                      <= Cardinality(Scans)
    BY DEF WindowBounded
  <1> DEFINE Window == {j \in DOMAIN db.sells :
                        /\ db.sells[j].buy = db.sells[i].buy
                        /\ db.sells[j].rule = db.sells[i].rule
                        /\ db.sells[j].detected >= db.sells[i].detected
                        /\ db.sells[j].detected - db.sells[i].detected < CooldownHours}
             f == [j \in Window |-> own[j]]
  <1>2. /\ DOMAIN db.sells = 1 .. Len(db.sells) /\ Len(db.sells) \in Nat
        /\ CooldownHours \in Int
        /\ \A j \in DOMAIN db.sells : db.sells[j].detected \in Nat
    <2>1. db \in Rows
      BY DEF Inv, TypeOK
    <2>2. \A j \in DOMAIN db.sells : db.sells[j] \in Sell
      BY <2>1, RowsTyped
    <2> QED BY <2>1, <2>2, RowsTyped, SellAssumption DEF Sell
  <1>3. ASSUME NEW j \in Window, NEW k \in Window, j < k PROVE own[j] # own[k]
    <2>1. /\ j \in DOMAIN db.sells /\ k \in DOMAIN db.sells
          /\ Kin(db.sells[j], db.sells[k])
          /\ db.sells[j].detected >= db.sells[i].detected
          /\ db.sells[k].detected - db.sells[i].detected < CooldownHours
      BY DEF Kin
    <2>2. ~(db.sells[k].detected - db.sells[j].detected >= CooldownHours)
      BY <1>2, <2>1, SMTT(30)
    <2> QED BY <1>1, <1>3, <2>1, <2>2 DEF Owns, Apart
  <1>4. ASSUME NEW j \in Window, NEW k \in Window, own[j] = own[k] PROVE j = k
    <2>1. j \in Nat /\ k \in Nat
      BY <1>2
    <2>2. ~(j < k) /\ ~(k < j)
      BY <1>3, <1>4
    <2> QED BY <2>1, <2>2
  <1>5. f \in Injection(Window, Scans)
    <2> HIDE DEF Window
    <2>1. Window \subseteq DOMAIN db.sells
      BY DEF Window
    <2> QED BY <1>1, <1>4, <2>1 DEF Injection, IsInjective
  <1>6. IsFiniteSet(Scans)
    BY SellAssumption
  <1>7. Cardinality(Window) <= Cardinality(Scans)
    <2> HIDE DEF Window, f
    <2> QED BY <1>5, <1>6, FS_Injection
  <1> QED BY <1>7

THEOREM Invariance == Spec => [](Inv /\ Owned)
  <1>1. Init => Inv /\ Owned
    BY InitKeeps, InitOwned
  <1>2. Inv /\ Owned /\ [Next]_vars => (Inv /\ Owned)'
    BY StepKeeps, StepOwned
  <1> QED BY <1>1, <1>2, PTL DEF Spec

(* Whatever overlaps, crashes or times out, a signal is sent once at most, *)
(* marked only when acknowledged, and repeated within a cooldown by at     *)
(* most one scan each (the cooldown check and the insert of                *)
(* process_open_positions are separate transactions).                      *)
THEOREM RepeatsAreBounded == Spec => []AlertsBounded
  <1>1. Inv /\ Owned => AlertsBounded
    BY OwnedBounds DEF AlertsBounded, Inv
  <1> QED BY <1>1, Invariance, PTL

(* A stored peak never falls, whoever wrote it in between.                 *)
THEOREM PeaksNeverFall == Spec => MarksRise
  <1>1. ASSUME Inv, [Next]_vars, db' # db
        PROVE  \A b \in BuyIds : db'.marks[b] >= db.marks[b]
    <2>1. db \in Rows /\ Sized(db) /\ TypeOK /\ SizesOK
      BY <1>1 DEF Inv, TypeOK, SizesOK
    <2>2. \A b \in BuyIds : db.marks[b] \in Nat
      <3>1. \A b \in BuyIds : db.marks[b] \in Prices \cup {Untracked}
        BY <2>1, RowsTyped
      <3> QED BY <3>1, PricesAreNumbers, Zenon
    <2>3. ASSUME db'.marks = db.marks
          PROVE  \A b \in BuyIds : db'.marks[b] >= db.marks[b]
      BY <2>2, <2>3
    <2>4. CASE InsertBuy \/ RecordSale
      BY <2>1, <2>3, <2>4 DEF InsertBuy, RecordSale, Rows
    <2>5. ASSUME NEW p \in Scans, IngestClose(p)
          PROVE  \A b \in BuyIds : db'.marks[b] >= db.marks[b]
      BY <2>1, <2>3, <2>5 DEF IngestClose, Rows
    <2>6. ASSUME NEW p \in Scans, InsertSellSignal(p)
          PROVE  \A b \in BuyIds : db'.marks[b] >= db.marks[b]
      <3>1. Stores(p)
        BY <1>1, <2>6, Inserted
      <3> QED BY <2>3, <3>1 DEF Stores
    <2>7. ASSUME NEW p \in Scans, FlipAlerted(p)
          PROVE  \A b \in BuyIds : db'.marks[b] >= db.marks[b]
      BY <2>1, <2>3, <2>7 DEF FlipAlerted, Publish, Rows
    <2>8. ASSUME NEW p \in Scans, UpdateWatermark(p)
          PROVE  \A b \in BuyIds : db'.marks[b] >= db.marks[b]
      <3>1. Baseline(p) \in Prices /\ hold[p].buy \in BuyIds
        BY <1>1, <2>8, BaselineTyped DEF UpdateWatermark
      <3>2. db' = RaisedMark(db, hold[p].buy, Baseline(p))
        BY <1>1, <2>8 DEF UpdateWatermark, Publish, dbVars
      <3> QED BY <2>1, <3>1, <3>2, MarkStored
    <2> QED BY <1>1, <2>4, <2>5, <2>6, <2>7, <2>8 DEF Next, Pass, Tick, StartScan,
          IngestNothing, LoadBuys, SkipBuy, Evaluate, Decide, Send, EndPass, Abandon, Crash,
          vars, dbVars
  <1>2. Inv /\ [Next]_vars => [\A b \in BuyIds : db'.marks[b] >= db.marks[b]]_db
    BY <1>1
  <1> QED BY <1>2, Invariance, PTL DEF Spec, MarksRise

-----------------------------------------------------------------------------
(* A step of one scan leaves the others where they were.                   *)

LEMMA OnlyOneMoves ==
  ASSUME Inv, NEW p \in Scans, Pass(p) \/ Abandon(p) \/ Crash(p)
  PROVE  \A q \in Scans \ {p} : Leaves(q)
  <1> USE DEF Inv, TypeOK, Leaves, dbVars
  <1>1. CASE StartScan(p) \/ IngestNothing(p) \/ LoadBuys(p) \/ SkipBuy(p)
    BY <1>1 DEF StartScan, IngestNothing, LoadBuys, SkipBuy, Goes
  <1>2. CASE IngestClose(p) \/ Evaluate(p) \/ Decide(p) \/ Send(p)
    BY <1>2 DEF IngestClose, Evaluate, Decide, Send, Goes
  <1>3. CASE InsertSellSignal(p) \/ FlipAlerted(p)
    BY <1>3 DEF InsertSellSignal, FlipAlerted, Publish, Goes
  <1>4. CASE UpdateWatermark(p)
    BY <1>4 DEF UpdateWatermark, Publish, DoneWith, Goes
  <1>5. CASE EndPass(p) \/ Crash(p)
    BY <1>5 DEF EndPass, Crash
  <1>6. CASE Abandon(p)
    BY <1>6 DEF Abandon, DoneWith, Goes
  <1> QED BY <1>1, <1>2, <1>3, <1>4, <1>5, <1>6 DEF Pass

-----------------------------------------------------------------------------
(* Scans that do not overlap: the one under way may pass for the owner of  *)
(* every signal, so all of them are a cooldown apart.                      *)

Alone(p) == \A q \in Scans : scan[q].pc # "idle" => q = p

OwnerOfAll(p) == [i \in SellIds |-> p]

Sole == \E p : Alone(p) /\ Owns(OwnerOfAll(p))

LEMMA OnlyRunningMoves ==
  ASSUME Inv, NEW p \in Scans, Pass(p) \/ Abandon(p) \/ Crash(p), ~StartScan(p)
  PROVE  scan[p].pc # "idle"
  BY DEF Pass, Abandon, Crash, IngestClose, IngestNothing, LoadBuys, SkipBuy, Evaluate, Decide,
    InsertSellSignal, Send, FlipAlerted, UpdateWatermark, EndPass, Writes

LEMMA InitSole == Init => Sole
  <1> SUFFICES ASSUME Init PROVE Sole
    OBVIOUS
  <1>1. DOMAIN db.sells = {} /\ \A p \in Scans : scan[p].pc = "idle"
    BY DEF Init, Empty, Idle
  <1>2. \A p : Alone(p) /\ Owns(OwnerOfAll(p))
    BY <1>1 DEF Alone, Owns, Apart, Knows
  <1> QED BY <1>2 DEF Sole

LEMMA StepSole == ASSUME Serial, Inv, Sole, [Next]_vars PROVE Sole'
  <1>1. PICK p : Alone(p) /\ Owns(OwnerOfAll(p))
    BY DEF Sole
  <1>2. CASE Tick \/ InsertBuy \/ RecordSale \/ UNCHANGED vars
    <2>1. scan' = scan
      BY <1>2 DEF Tick, InsertBuy, RecordSale, vars
    <2>2. ~\E q \in Scans : InsertSellSignal(q)
      <3>1. ASSUME NEW q \in Scans, InsertSellSignal(q) PROVE FALSE
        <4>1. scan[q].pc = "insert" /\ scan'[q].pc = "send"
          BY <3>1 DEF InsertSellSignal, Goes, Inv, TypeOK
        <4> QED BY <2>1, <4>1
      <3> QED BY <3>1
    <2>3. Owns(OwnerOfAll(p))'
      <3>1. PICK own : own = OwnerOfAll(p)
        OBVIOUS
      <3>2. Owns(own)'
        BY <1>1, <2>2, <3>1, OwnersKept
      <3> QED BY <3>1, <3>2 DEF OwnerOfAll
    <2> QED BY <1>1, <2>1, <2>3 DEF Sole, Alone
  <1>3. ASSUME NEW q \in Scans, StartScan(q) PROVE Sole'
    <2>1. \A r \in Scans : scan[r].pc = "idle"
      BY <1>3 DEF StartScan
    <2>2. Owns(OwnerOfAll(q))
      <3>1. db \in Rows /\ DOMAIN db.sells = 1 .. Len(db.sells)
        BY RowsTyped DEF Inv, TypeOK
      <3>2. DOMAIN db.sells \subseteq SellIds
        BY <3>1, Bounded DEF SellIds
      <3>3. \A i \in DOMAIN db.sells : OwnerOfAll(q)[i] = q /\ OwnerOfAll(p)[i] = p
        BY <3>2 DEF OwnerOfAll
      <3>4. Apart(OwnerOfAll(q))
        BY <1>1, <3>3 DEF Owns, Apart
      <3> QED BY <1>1, <2>1, <3>4 DEF Owns, Knows
    <2>3. PICK own : own = OwnerOfAll(q)
      OBVIOUS
    <2>4. Owns(own)'
      BY <1>3, <2>2, <2>3, StartScanOwned
    <2>5. Alone(q)'
      BY <1>3, <2>1, OnlyOneMoves DEF Alone, Leaves, Pass
    <2> QED BY <2>3, <2>4, <2>5 DEF Sole, OwnerOfAll
  <1>4. ASSUME NEW q \in Scans, Pass(q) \/ Abandon(q) \/ Crash(q), ~StartScan(q)
        PROVE  Sole'
    <2>1. q = p
      BY <1>1, <1>4, OnlyRunningMoves DEF Alone
    <2>2. Alone(p)'
      BY <1>1, <1>4, <2>1, OnlyOneMoves DEF Alone, Leaves
    <2>3. PICK own : own = OwnerOfAll(p)
      OBVIOUS
    <2>4. CASE InsertSellSignal(p)
      <3>1. Len(db.sells) < MaxSells /\ Len(db.sells) \in Nat /\ MaxSells \in Nat
        BY <2>1, <2>4, Inserted, Bounded DEF Stores
      <3>2. own[Len(db.sells) + 1] = p /\ \A i \in 1 .. Len(db.sells) : own[i] = own[i]
        BY <2>3, <3>1 DEF OwnerOfAll, SellIds
      <3>3. Owns(own)'
        BY <1>1, <2>1, <2>3, <2>4, <3>2, InsertOwned
      <3> QED BY <2>2, <2>3, <3>3 DEF Sole, OwnerOfAll
    <2>5. CASE ~InsertSellSignal(p)
      <3>1. ~\E r \in Scans : InsertSellSignal(r)
        <4>1. ASSUME NEW r \in Scans, InsertSellSignal(r) PROVE FALSE
          BY <1>1, <2>5, <4>1, InsertSellSignal(r) => scan[r].pc # "idle" DEF Alone, InsertSellSignal
        <4> QED BY <4>1
      <3>2. Owns(own)'
        BY <1>1, <2>3, <3>1, OwnersKept
      <3> QED BY <2>2, <2>3, <3>2 DEF Sole, OwnerOfAll
    <2> QED BY <2>4, <2>5
  <1> QED BY <1>2, <1>3, <1>4 DEF Next

LEMMA SoleApart == ASSUME Inv, Sole PROVE CooldownHeld
  <1>1. PICK p : Owns(OwnerOfAll(p))
    BY DEF Sole
  <1>2. DOMAIN db.sells \subseteq SellIds
    <2>1. db \in Rows
      BY DEF Inv, TypeOK
    <2> QED BY <2>1, RowsTyped, Bounded DEF SellIds
  <1>3. \A i \in DOMAIN db.sells : OwnerOfAll(p)[i] = p
    BY <1>2 DEF OwnerOfAll
  <1> QED BY <1>1, <1>3 DEF Owns, Apart, Kin, CooldownHeld

(* Scans that do not overlap leave a cooldown between any two signals of   *)
(* one rule on one buy, through crashes, failed sends and busy timeouts.   *)
THEOREM RepeatsWait == ASSUME Serial PROVE Spec => []CooldownHeld
  <1>1. Init => Sole
    BY InitSole
  <1>2. Inv /\ Sole /\ [Next]_vars => Sole'
    BY StepSole
  <1>3. Inv /\ Sole => CooldownHeld
    BY SoleApart
  <1> QED BY <1>1, <1>2, <1>3, Invariance, PTL DEF Spec

-----------------------------------------------------------------------------
(* What a pass holds and what the log says, against the buys and their     *)
(* watermarks.                                                             *)

Early == {"idle", "ingest", "load"}

(* Buy b was not sold before t.                                            *)
NotSoldBefore(b, t) == db.buys[b].soldAt # Open => t <= db.buys[b].soldAt

(* What a scan reads is no newer than the database.                        *)
Reads(p) ==
  /\ Len(View(p).buys) <= Len(db.buys)
  /\ \A b \in BuyIds : View(p).marks[b] <= db.marks[b]

(* The buys a pass has in hand were open when it began; its watermark has  *)
(* been stored, and a trailing stop it has decided on follows from it.     *)
Hands(p) ==
  /\ scan[p].pc \in Early => ~snap[p].pinned /\ todo[p] = {}
  /\ \A b \in todo[p] : NotSoldBefore(b, scan[p].now)
  /\ scan[p].pc \in Busy =>
       /\ NotSoldBefore(hold[p].buy, scan[p].now)
       /\ hold[p].prior <= db.marks[hold[p].buy]
       /\ hold[p].rule = "trailing_stop" => TrailingStop(hold[p].prior, hold[p].price)

Logged(i) ==
  LET sell == db.sells[i] IN
  /\ sell.buy \in 1 .. Len(db.buys)
  /\ NotSoldBefore(sell.buy, sell.detected)
  /\ sell.rule = "trailing_stop" => TrailingStop(db.marks[sell.buy], sell.price)

Facts ==
  /\ \A p \in Scans : Reads(p) /\ Hands(p)
  /\ \A i \in DOMAIN db.sells : Logged(i)

(* What any step does to the tables: buys and signals are kept, an open    *)
(* buy may be sold now, and watermarks rise.                               *)
BuysKept ==
  /\ Len(db.buys) <= Len(db'.buys)
  /\ \A b \in 1 .. Len(db.buys) :
       \/ db'.buys[b].soldAt = db.buys[b].soldAt
       \/ db.buys[b].soldAt = Open /\ db'.buys[b].soldAt = clock

MarksRaised == \A b \in BuyIds : db.marks[b] <= db'.marks[b]

SellsKept ==
  /\ Len(db'.sells) = Len(db.sells)
  /\ \A i \in 1 .. Len(db.sells) :
       /\ Kin(db'.sells[i], db.sells[i])
       /\ db'.sells[i].price = db.sells[i].price
       /\ db'.sells[i].detected = db.sells[i].detected

LEMMA TrailsHigher ==
  ASSUME NEW a \in Nat, NEW b \in Nat, a <= b, NEW price \in Nat, TrailingStop(a, price)
  PROVE  TrailingStop(b, price)
  <1>1. 100 - TrailingStopPct \in Nat
    BY SellAssumption
  <1>2. \A c \in Nat : a * c <= b * c
    OBVIOUS
  <1>3. a * (100 - TrailingStopPct) <= b * (100 - TrailingStopPct)
    BY <1>1, <1>2
  <1>4. \A c \in Nat : a * c \in Nat /\ b * c \in Nat
    OBVIOUS
  <1>5. price * 100 \in Nat /\ a * (100 - TrailingStopPct) \in Nat
        /\ b * (100 - TrailingStopPct) \in Nat
    BY <1>1, <1>4
  <1>6. a # 0 /\ price * 100 <= a * (100 - TrailingStopPct)
    BY DEF TrailingStop, Untracked
  <1>7. b # 0 /\ price * 100 <= b * (100 - TrailingStopPct)
    BY <1>3, <1>5, <1>6
  <1> QED BY <1>7 DEF TrailingStop, Untracked

LEMMA RowNumbers ==
  ASSUME NEW rows \in Rows
  PROVE  /\ \A b \in BuyIds : rows.marks[b] \in Nat
         /\ \A b \in 1 .. Len(rows.buys) : rows.buys[b].soldAt \in Nat \cup {Open}
         /\ \A i \in 1 .. Len(rows.sells) :
              /\ rows.sells[i].buy \in BuyIds /\ rows.sells[i].price \in Nat
              /\ rows.sells[i].detected \in Nat
  <1>1. \A b \in BuyIds : rows.marks[b] \in Nat
    <2>1. \A b \in BuyIds : rows.marks[b] \in Prices \cup {Untracked}
      BY RowsTyped
    <2> QED BY <2>1, PricesAreNumbers, Zenon
  <1>2. \A b \in 1 .. Len(rows.buys) : rows.buys[b] \in Buy
    <2>1. rows.buys \in Seq(Buy)
      BY RowsTyped
    <2> QED BY <2>1
  <1>3. \A i \in 1 .. Len(rows.sells) : rows.sells[i] \in Sell
    BY RowsTyped
  <1>4. ASSUME NEW i \in 1 .. Len(rows.sells) PROVE rows.sells[i].price \in Nat
    <2>1. rows.sells[i].price \in Prices
      BY <1>3 DEF Sell
    <2> QED BY <2>1, PricesAreNumbers, Zenon
  <1> QED BY <1>1, <1>2, <1>3, <1>4 DEF Buy, Sell

-----------------------------------------------------------------------------
(* Facts are kept as the tables grow.                                      *)

LEMMA SoldKept ==
  ASSUME Inv, BuysKept, NEW b \in 1 .. Len(db.buys), NEW t \in Nat, t <= clock,
         NotSoldBefore(b, t)
  PROVE  NotSoldBefore(b, t)'
  BY SellAssumption DEF Inv, TypeOK, BuysKept, NotSoldBefore

LEMMA LogKept ==
  ASSUME Inv, Owned, BuysKept, MarksRaised, TypeOK',
         NEW i \in DOMAIN db.sells, Logged(i), i \in DOMAIN db'.sells,
         Kin(db'.sells[i], db.sells[i]),
         db'.sells[i].price = db.sells[i].price,
         db'.sells[i].detected = db.sells[i].detected
  PROVE  Logged(i)'
  <1>1. /\ db \in Rows /\ db' \in Rows /\ i \in 1 .. Len(db.sells)
        /\ Len(db.buys) \in Nat /\ Len(db'.buys) \in Nat
    BY RowsTyped DEF Inv, TypeOK
  <1> DEFINE b == db.sells[i].buy
  <1>2. /\ b \in 1 .. Len(db.buys) /\ b \in BuyIds /\ db'.sells[i].buy = b
        /\ b \in 1 .. Len(db'.buys)
        /\ db.sells[i].detected \in Nat /\ db.sells[i].detected <= clock
        /\ db.sells[i].price \in Nat
        /\ db.marks[b] \in Nat /\ db'.marks[b] \in Nat
    BY <1>1, RowNumbers DEF Logged, Kin, BuysKept, Owned, Owns
  <1>3. NotSoldBefore(b, db.sells[i].detected)'
    <2>1. PICK t : t = db.sells[i].detected
      OBVIOUS
    <2>2. PICK c : c = b
      OBVIOUS
    <2>3. NotSoldBefore(c, t)'
      BY <1>2, <2>1, <2>2, SoldKept DEF Logged
    <2> QED BY <1>2, <2>1, <2>2, <2>3 DEF NotSoldBefore
  <1>4. db.sells[i].rule = "trailing_stop" => TrailingStop(db'.marks[b], db.sells[i].price)
    BY <1>2, TrailsHigher DEF Logged, MarksRaised
  <1> QED BY <1>2, <1>3, <1>4 DEF Logged, Kin, NotSoldBefore

LEMMA ReadsKept ==
  ASSUME Inv, BuysKept, MarksRaised, TypeOK', SizesOK',
         NEW p \in Scans, Reads(p), View(p)' = View(p) \/ View(p)' = db'
  PROVE  Reads(p)'
  <1>1. db \in Rows /\ db' \in Rows /\ View(p) \in Rows
    BY ViewTyped DEF Inv, TypeOK
  <1>2. /\ Len(db.buys) \in Nat /\ Len(db'.buys) \in Nat /\ Len(View(p).buys) \in Nat
        /\ \A b \in BuyIds : db.marks[b] \in Nat /\ db'.marks[b] \in Nat
                             /\ View(p).marks[b] \in Nat
    BY <1>1, RowsTyped, RowNumbers
  <1>3. CASE View(p)' = View(p)
    BY <1>2, <1>3 DEF Reads, BuysKept, MarksRaised
  <1>4. CASE View(p)' = db'
    BY <1>2, <1>4 DEF Reads
  <1> QED BY <1>3, <1>4

(* A step of anybody that gives p nothing new in hand.                     *)
HandsOn(p) ==
  /\ todo'[p] \subseteq todo[p]
  /\ scan'[p].now = scan[p].now
  /\ scan'[p].pc \in Early => scan[p].pc \in Early /\ (snap'[p] = snap[p] \/ ~snap'[p].pinned)
  /\ scan'[p].pc \in Busy => scan[p].pc \in Busy /\ Kin(hold'[p], hold[p])
       /\ hold'[p].price = hold[p].price /\ hold'[p].prior = hold[p].prior

LEMMA HandsKept ==
  ASSUME Inv, BuysKept, MarksRaised, TypeOK', NEW p \in Scans, Reads(p), Hands(p), HandsOn(p)
  PROVE  Hands(p)'
  <1>1. /\ db \in Rows /\ db' \in Rows /\ Len(db.buys) \in Nat /\ Len(View(p).buys) \in Nat
        /\ scan[p].now \in Nat /\ scan[p].now <= clock
    BY ViewTyped, RowsTyped, SellAssumption DEF Inv, TypeOK, PassesOK, PassOK
  <1>2. \A b \in todo[p] : b \in 1 .. Len(db.buys)
    BY <1>1 DEF Inv, PassesOK, PassOK, Reads
  <1>3. PICK now : now = scan[p].now
    OBVIOUS
  <1>4. ASSUME NEW b \in todo[p] PROVE NotSoldBefore(b, now)'
    BY <1>1, <1>2, <1>3, SoldKept DEF Hands
  <1>5. ASSUME scan'[p].pc \in Busy
        PROVE  /\ NotSoldBefore(hold[p].buy, scan[p].now)'
               /\ hold'[p].prior <= db'.marks[hold'[p].buy]
               /\ hold'[p].rule = "trailing_stop" => TrailingStop(hold'[p].prior, hold'[p].price)
    <2>1. /\ scan[p].pc \in Busy /\ hold'[p].buy = hold[p].buy /\ hold'[p].rule = hold[p].rule
          /\ hold'[p].price = hold[p].price /\ hold'[p].prior = hold[p].prior
      BY <1>5 DEF HandsOn, Kin
    <2>2. PICK b : b = hold[p].buy
      OBVIOUS
    <2>3. b \in 1 .. Len(db.buys) /\ b \in BuyIds
      <3>1. b \in 1 .. Len(View(p).buys)
        BY <2>1, <2>2 DEF Inv, PassesOK, PassOK
      <3>2. Len(View(p).buys) <= MaxBuys /\ MaxBuys \in Nat
        BY ViewTyped, SellAssumption DEF Inv, Sized
      <3> QED BY <1>1, <3>1, <3>2 DEF Reads, BuyIds
    <2>4. NotSoldBefore(b, now)'
      BY <1>1, <1>3, <2>1, <2>2, <2>3, SoldKept DEF Hands
    <2>5. hold[p].prior \in Nat /\ db.marks[b] \in Nat /\ db'.marks[b] \in Nat
      <3>1. hold[p].prior \in Prices \cup {Untracked}
        BY DEF Inv, TypeOK
      <3>2. hold[p].prior \in Nat
        BY <3>1, PricesAreNumbers, Zenon
      <3> QED BY <1>1, <2>3, <3>2, RowNumbers
    <2>6. hold[p].prior <= db'.marks[b]
      BY <2>1, <2>2, <2>3, <2>5 DEF Hands, MarksRaised
    <2>7. scan'[p].now = scan[p].now
      BY DEF HandsOn
    <2> QED BY <1>3, <2>1, <2>2, <2>4, <2>6, <2>7 DEF Hands, NotSoldBefore
  <1>6. scan'[p].pc \in Early => ~snap'[p].pinned /\ todo'[p] = {}
    BY DEF HandsOn, Hands
  <1>7. \A b \in todo'[p] : NotSoldBefore(b, scan[p].now)'
    <2>1. scan'[p].now = scan[p].now /\ todo'[p] \subseteq todo[p]
      BY DEF HandsOn
    <2> QED BY <1>3, <1>4, <2>1 DEF NotSoldBefore
  <1> QED BY <1>5, <1>6, <1>7 DEF Hands, HandsOn, NotSoldBefore

-----------------------------------------------------------------------------
(* Facts, action by action.                                                *)

LEMMA TablesKept ==
  ASSUME Inv, [Next]_vars
  PROVE  BuysKept /\ MarksRaised /\ (SellsKept \/ \E p \in Scans : InsertSellSignal(p))
  <1>1. /\ db \in Rows /\ Sized(db) /\ TypeOK /\ SizesOK
        /\ Len(db.buys) \in Nat /\ \A b \in BuyIds : db.marks[b] \in Nat
        /\ db.buys \in Seq(Buy) /\ DOMAIN db.buys = 1 .. Len(db.buys)
    BY RowsTyped, RowNumbers DEF Inv, TypeOK, SizesOK
  <1>2. ASSUME db'.buys = db.buys PROVE BuysKept
    BY <1>1, <1>2 DEF BuysKept
  <1>3. ASSUME db'.marks = db.marks PROVE MarksRaised
    BY <1>1, <1>3 DEF MarksRaised
  <1>4. ASSUME db'.sells = db.sells PROVE SellsKept
    BY <1>4 DEF SellsKept, Kin
  <1>5. CASE InsertBuy
    <2>1. PICK price \in Prices :
            db' = [db EXCEPT !.buys = Append(@, [entry |-> price, soldAt |-> Open])]
      BY <1>5 DEF InsertBuy
    <2>2. db'.sells = db.sells /\ db'.marks = db.marks
          /\ db'.buys = Append(db.buys, [entry |-> price, soldAt |-> Open])
      BY <1>1, <2>1 DEF Rows
    <2>3. [entry |-> price, soldAt |-> Open] \in Buy
      BY DEF Buy
    <2>4. BuysKept
      BY <1>1, <2>2, <2>3 DEF BuysKept
    <2> QED BY <1>3, <1>4, <2>2, <2>4
  <1>6. CASE RecordSale
    <2>1. PICK b \in LoadOpenBuys(db) : db' = [db EXCEPT !.buys[b].soldAt = clock]
      BY <1>6 DEF RecordSale
    <2>2. b \in 1 .. Len(db.buys) /\ db.buys[b].soldAt = Open /\ db.buys[b] \in Buy
      BY <1>1, <2>1 DEF LoadOpenBuys
    <2>3. /\ db'.sells = db.sells /\ db'.marks = db.marks
          /\ db'.buys = [db.buys EXCEPT ![b] = [db.buys[b] EXCEPT !.soldAt = clock]]
      BY <1>1, <2>1 DEF Rows
    <2>4. /\ Len(db'.buys) = Len(db.buys)
          /\ db'.buys[b].soldAt = clock
          /\ \A c \in 1 .. Len(db.buys) : c # b => db'.buys[c] = db.buys[c]
      BY <1>1, <2>2, <2>3 DEF Buy
    <2>5. BuysKept
      BY <1>1, <2>2, <2>4 DEF BuysKept
    <2> QED BY <1>3, <1>4, <2>3, <2>5
  <1>7. ASSUME NEW p \in Scans, IngestClose(p) PROVE BuysKept /\ MarksRaised /\ SellsKept
    BY <1>1, <1>2, <1>3, <1>4, <1>7 DEF IngestClose, Rows
  <1>8. ASSUME NEW p \in Scans, InsertSellSignal(p) PROVE BuysKept /\ MarksRaised
    BY <1>2, <1>3, <1>8, Inserted DEF Stores
  <1>9. ASSUME NEW p \in Scans, FlipAlerted(p) PROVE BuysKept /\ MarksRaised /\ SellsKept
    <2> DEFINE row == hold[p].row
    <2>1. scan[p].pc = "flip" /\ db' = [db EXCEPT !.sells[row].alerted = TRUE]
      BY <1>9 DEF FlipAlerted, Publish
    <2>2. row \in 1 .. Len(db.sells) /\ db.sells \in Seq(Sell)
          /\ DOMAIN db.sells = 1 .. Len(db.sells)
          /\ \A i \in 1 .. Len(db.sells) : db.sells[i] \in Sell
      BY <1>1, <2>1, RowsTyped DEF Inv, PassesOK, PassOK
    <2>3. /\ db'.buys = db.buys /\ db'.marks = db.marks
          /\ db'.sells = [db.sells EXCEPT ![row] = [db.sells[row] EXCEPT !.alerted = TRUE]]
      BY <1>1, <2>1 DEF Rows
    <2>4. SellsKept
      BY <2>2, <2>3 DEF SellsKept, Kin, Sell
    <2> QED BY <1>2, <1>3, <2>3, <2>4
  <1>10. ASSUME NEW p \in Scans, UpdateWatermark(p) PROVE BuysKept /\ MarksRaised /\ SellsKept
    <2>1. Baseline(p) \in Prices /\ hold[p].buy \in BuyIds
      BY <1>10, BaselineTyped DEF UpdateWatermark
    <2>2. CASE db' = RaisedMark(db, hold[p].buy, Baseline(p))
      <3>1. /\ db'.buys = db.buys /\ db'.sells = db.sells
            /\ \A c \in BuyIds : db'.marks[c] >= db.marks[c]
            /\ db' \in Rows
        BY <1>1, <2>1, <2>2, MarkStored
      <3>2. \A c \in BuyIds : db'.marks[c] \in Nat
        BY <3>1, RowNumbers
      <3>3. MarksRaised
        BY <1>1, <3>1, <3>2 DEF MarksRaised
      <3> QED BY <1>2, <1>4, <3>1, <3>3
    <2>3. CASE db' = db
      BY <1>2, <1>3, <1>4, <2>3
    <2> QED BY <1>10, <2>2, <2>3 DEF UpdateWatermark, Publish, dbVars
  <1>11. CASE db' = db
    BY <1>2, <1>3, <1>4, <1>11
  <1>12. ASSUME NEW p \in Scans, Pass(p) \/ Abandon(p) \/ Crash(p)
         PROVE  \/ db' = db
                \/ IngestClose(p) \/ InsertSellSignal(p) \/ FlipAlerted(p) \/ UpdateWatermark(p)
    BY <1>12 DEF Pass, Abandon, Crash, StartScan, IngestNothing, LoadBuys, SkipBuy, Evaluate,
      Decide, Send, EndPass, dbVars
  <1> QED BY <1>5, <1>6, <1>7, <1>8, <1>9, <1>10, <1>11, <1>12 DEF Next, Tick, vars, dbVars

(* What the scan that acts sees afterwards.                                *)
LEMMA ViewMoves ==
  ASSUME Inv, NEW p \in Scans, Pass(p) \/ Abandon(p) \/ Crash(p)
  PROVE  View(p)' = View(p) \/ View(p)' = db'
  <1> USE DEF Inv, TypeOK, View, dbVars
  <1>1. CASE UNCHANGED snap
    BY <1>1
  <1>2. CASE snap' = [snap EXCEPT ![p] = Live]
    BY <1>2 DEF Live
  <1>3. CASE snap' = [snap EXCEPT ![p] = Pinned(View(p))]
    BY <1>3 DEF Pinned
  <1>4. CASE Abandon(p) \/ Crash(p) \/ EndPass(p)
    BY <1>1, <1>2, <1>3, <1>4 DEF Abandon, Crash, EndPass
  <1>5. CASE InsertSellSignal(p) \/ FlipAlerted(p) \/ UpdateWatermark(p)
    BY <1>1, <1>2, <1>5 DEF InsertSellSignal, FlipAlerted, UpdateWatermark, Publish
  <1>6. CASE \/ StartScan(p) \/ IngestClose(p) \/ IngestNothing(p) \/ LoadBuys(p)
             \/ SkipBuy(p) \/ Evaluate(p) \/ Decide(p) \/ Send(p)
    <2>1. UNCHANGED snap
      BY <1>6 DEF StartScan, IngestClose, IngestNothing, LoadBuys, SkipBuy, Evaluate, Decide, Send
    <2> QED BY <1>1, <2>1
  <1> QED BY <1>4, <1>5, <1>6 DEF Pass

LEMMA QuietHands ==
  ASSUME Inv, NEW p \in Scans, Hands(p), Pass(p) \/ Abandon(p) \/ Crash(p),
         ~StartScan(p), ~LoadBuys(p), ~Evaluate(p), ~Crash(p), ~EndPass(p)
  PROVE  HandsOn(p)
  <1> USE DEF Inv, TypeOK, dbVars, HandsOn, Goes, Busy, Early, Kin
  <1>1. CASE IngestClose(p) \/ IngestNothing(p)
    BY <1>1 DEF IngestClose, IngestNothing
  <1>2. CASE SkipBuy(p)
    BY <1>2 DEF SkipBuy
  <1>3. CASE Decide(p) \/ Send(p)
    BY <1>3 DEF Decide, Send
  <1>4. CASE InsertSellSignal(p) \/ FlipAlerted(p)
    BY <1>4 DEF InsertSellSignal, FlipAlerted
  <1>5. CASE UpdateWatermark(p) \/ Abandon(p)
    BY <1>5 DEF UpdateWatermark, Abandon, Writes, DoneWith
  <1> QED BY <1>1, <1>2, <1>3, <1>4, <1>5 DEF Pass

LEMMA LoadHands ==
  ASSUME Inv, NEW p \in Scans, Hands(p), LoadBuys(p)
  PROVE  Hands(p)'
  <1>1. View(p) = db /\ todo'[p] = LoadOpenBuys(db) /\ scan'[p].pc = "next" /\ db' = db
    BY DEF LoadBuys, Goes, Hands, Early, View, Inv, TypeOK, dbVars
  <1> QED BY <1>1 DEF Hands, NotSoldBefore, LoadOpenBuys, Early, Busy

LEMMA EndHands ==
  ASSUME Inv, NEW p \in Scans, Hands(p), StartScan(p) \/ Crash(p) \/ EndPass(p)
  PROVE  Hands(p)'
  <1>1. todo'[p] = {} /\ ~snap'[p].pinned /\ scan'[p].pc \in {"idle", "ingest"}
    <2>1. CASE StartScan(p)
      BY <2>1 DEF StartScan, Hands, Early, Inv, TypeOK, dbVars
    <2>2. CASE Crash(p) \/ EndPass(p)
      BY <2>2 DEF Crash, EndPass, Idle, Live, Inv, TypeOK
    <2> QED BY <2>1, <2>2
  <1> QED BY <1>1 DEF Hands, Early, Busy

LEMMA EvaluateHands ==
  ASSUME Inv, NEW p \in Scans, Reads(p), Hands(p), Evaluate(p)
  PROVE  Hands(p)'
  <1>1. PICK b \in todo[p] : LET price == View(p).close
                                 prior == GetHighWatermark(View(p), b) IN
          /\ todo' = [todo EXCEPT ![p] = @ \ {b}]
          /\ hold' = [hold EXCEPT ![p] =
               [buy |-> b, price |-> price, prior |-> prior, row |-> NoRow,
                rule |-> EvaluateSell(View(p).buys[b].entry, price, prior, scan[p].riskOff)]]
    BY DEF Evaluate
  <1>2. /\ scan'[p].pc = "decide" /\ scan'[p].now = scan[p].now /\ db' = db
    BY DEF Evaluate, Goes, dbVars, Inv, TypeOK
  <1>3. /\ hold'[p].buy = b /\ hold'[p].price = View(p).close
        /\ hold'[p].prior = View(p).marks[b]
        /\ hold'[p].rule = EvaluateSell(View(p).buys[b].entry, View(p).close,
                                        View(p).marks[b], scan[p].riskOff)
        /\ todo'[p] \subseteq todo[p]
    BY <1>1 DEF GetHighWatermark, Inv, TypeOK
  <1>4. b \in BuyIds
    BY DEF Inv, TypeOK
  <1>5. \A entry, price, prior, riskOff :
          EvaluateSell(entry, price, prior, riskOff) = "trailing_stop"
            => TrailingStop(prior, price)
    BY DEF EvaluateSell
  <1>6. hold'[p].rule = "trailing_stop" => TrailingStop(hold'[p].prior, hold'[p].price)
    BY <1>3, <1>5
  <1>7. hold'[p].prior <= db'.marks[hold'[p].buy]
    BY <1>2, <1>3, <1>4 DEF Reads
  <1> QED BY <1>2, <1>3, <1>6, <1>7 DEF Hands, NotSoldBefore, Early, Busy

-----------------------------------------------------------------------------
(* The log, and what it says of every signal.                              *)

LEMMA InsertLogged ==
  ASSUME Inv, NEW p \in Scans, Reads(p), Hands(p), InsertSellSignal(p),
         NEW n, n = Len(db.sells) + 1
  PROVE  Logged(n)'
  <1>0. Stores(p)
    BY Inserted
  <1> DEFINE h == hold[p]
  <1>1. /\ scan[p].pc = "insert" /\ View(p) = db /\ db'.buys = db.buys /\ db'.marks = db.marks
        /\ db'.sells[n].buy = h.buy
        /\ db'.sells[n].rule = h.rule
        /\ db'.sells[n].price = h.price
        /\ db'.sells[n].detected = scan[p].now
    BY <1>0 DEF Stores
  <1>2. h.buy \in 1 .. Len(db.buys) /\ h.price \in Nat
    <2>1. h.buy \in 1 .. Len(db.buys) /\ h.price \in Prices
      BY <1>1 DEF Inv, PassesOK, PassOK, Busy
    <2> QED BY <2>1, PricesAreNumbers, Zenon
  <1>3. h.buy \in BuyIds /\ h.prior \in Nat /\ db.marks[h.buy] \in Nat
    <2>1. h.prior \in Prices \cup {Untracked} /\ db \in Rows /\ Sized(db)
      BY DEF Inv, TypeOK, SizesOK
    <2>2. h.prior \in Nat
      BY <2>1, PricesAreNumbers, Zenon
    <2>3. h.buy \in BuyIds
      <3>1. Len(db.buys) <= MaxBuys /\ Len(db.buys) \in Nat /\ MaxBuys \in Nat
        BY <2>1, RowsTyped, SellAssumption DEF Sized
      <3> HIDE DEF h
      <3> QED BY <1>2, <3>1 DEF BuyIds
    <2> QED BY <2>1, <2>2, <2>3, RowNumbers
  <1>4. /\ NotSoldBefore(h.buy, scan[p].now)
        /\ h.rule = "trailing_stop" => TrailingStop(db.marks[h.buy], h.price)
    BY <1>1, <1>2, <1>3, TrailsHigher DEF Hands, Busy
  <1> QED BY <1>1, <1>2, <1>4 DEF Logged, NotSoldBefore

LEMMA InitFacts == Init => Facts
  <1> SUFFICES ASSUME Init PROVE Facts
    OBVIOUS
  <1>1. /\ db = Empty /\ \A p \in Scans : /\ scan[p].pc = "idle" /\ todo[p] = {}
                                          /\ View(p) = db /\ ~snap[p].pinned
    BY DEF Init, Idle, Live, View
  <1>2. Len(Empty.buys) \in Nat /\ DOMAIN Empty.sells = {}
        /\ \A b \in BuyIds : Empty.marks[b] \in Nat
    BY DEF Empty, Untracked
  <1> QED BY <1>1, <1>2 DEF Facts, Reads, Hands, Early, Busy

LEMMA StepFacts == Inv /\ Owned /\ Facts /\ [Next]_vars => Facts'
  <1> SUFFICES ASSUME Inv, Owned, Facts, [Next]_vars PROVE Facts'
    OBVIOUS
  <1>1. /\ BuysKept /\ MarksRaised /\ (SellsKept \/ \E p \in Scans : InsertSellSignal(p))
        /\ Inv'
    BY TablesKept, StepKeeps
  <1>2. TypeOK' /\ SizesOK' /\ db \in Rows /\ db' \in Rows
        /\ Len(db.sells) \in Nat /\ Len(db'.sells) \in Nat
        /\ DOMAIN db.sells = 1 .. Len(db.sells) /\ DOMAIN db'.sells = 1 .. Len(db'.sells)
    BY <1>1, RowsTyped DEF Inv, TypeOK
  <1>3. ASSUME NEW q \in Scans, Leaves(q) PROVE Reads(q)' /\ Hands(q)'
    <2>1. View(q)' = View(q) \/ View(q)' = db'
      BY <1>3 DEF Leaves, View
    <2>2. HandsOn(q)
      BY <1>3 DEF Leaves, HandsOn, Kin
    <2> QED BY <1>1, <1>2, <2>1, <2>2, ReadsKept, HandsKept DEF Facts
  <1>4. ASSUME NEW p \in Scans, Pass(p) \/ Abandon(p) \/ Crash(p)
        PROVE  Reads(p)' /\ Hands(p)'
    <2>1. Reads(p)'
      BY <1>1, <1>2, <1>4, ViewMoves, ReadsKept DEF Facts
    <2>2. CASE StartScan(p) \/ LoadBuys(p) \/ Evaluate(p) \/ Crash(p) \/ EndPass(p)
      BY <2>1, <2>2, LoadHands, EndHands, EvaluateHands DEF Facts
    <2>3. CASE ~(StartScan(p) \/ LoadBuys(p) \/ Evaluate(p) \/ Crash(p) \/ EndPass(p))
      BY <1>1, <1>2, <1>4, <2>1, <2>3, QuietHands, HandsKept DEF Facts
    <2> QED BY <2>1, <2>2, <2>3
  <1>5. \A p \in Scans : Reads(p)' /\ Hands(p)'
    <2>1. CASE \E p \in Scans : Pass(p) \/ Abandon(p) \/ Crash(p)
      BY <1>3, <1>4, <2>1, OnlyOneMoves
    <2>2. CASE Tick \/ InsertBuy \/ RecordSale \/ UNCHANGED vars
      BY <1>3, <2>2 DEF Tick, InsertBuy, RecordSale, vars, dbVars, Leaves
    <2> QED BY <2>1, <2>2 DEF Next
  <1>6. \A i \in DOMAIN db'.sells : Logged(i)'
    <2>1. CASE SellsKept
      BY <1>1, <1>2, <2>1, LogKept DEF SellsKept, Facts
    <2>2. ASSUME NEW p \in Scans, InsertSellSignal(p) PROVE \A i \in DOMAIN db'.sells : Logged(i)'
      <3>1. /\ Len(db'.sells) = Len(db.sells) + 1
            /\ \A i \in 1 .. Len(db.sells) : db'.sells[i] = db.sells[i]
        BY <2>2, Inserted DEF Stores
      <3>2. PICK n : n = Len(db.sells) + 1
        OBVIOUS
      <3>3. Logged(n)'
        BY <2>2, <3>2, InsertLogged DEF Facts
      <3>4. ASSUME NEW i \in 1 .. Len(db.sells) PROVE Logged(i)'
        BY <1>1, <1>2, <3>1, <3>4, LogKept DEF Facts, Kin
      <3> QED BY <1>2, <3>1, <3>2, <3>3, <3>4
    <2> QED BY <1>1, <2>1, <2>2
  <1> QED BY <1>5, <1>6 DEF Facts

LEMMA FactsHold == Spec => []Facts
  <1> QED BY InitFacts, StepFacts, Invariance, PTL DEF Spec

(* A pass never alerts on a position sold before the pass began, scans     *)
(* overlapping or not.                                                     *)
THEOREM SoldStaysSilent == Spec => []SilentOnceSold
  <1>1. Facts => SilentOnceSold
    BY DEF Facts, Logged, NotSoldBefore, SilentOnceSold
  <1> QED BY <1>1, FactsHold, PTL

(* Every trailing stop on record fired below a peak stored for that very   *)
(* buy, whichever scan raised the peak and however old the copy it read.   *)
THEOREM TrailingStopsAreOwn == Spec => []TrailsItsOwnPeak
  <1>1. Facts => TrailsItsOwnPeak
    BY DEF Facts, Logged, TrailsItsOwnPeak
  <1> QED BY <1>1, FactsHold, PTL

LEMMA MarkLeft ==
  ASSUME Inv, Facts, [Next]_vars, NEW p \in Scans, hold[p] # NoHold, hold'[p] = NoHold,
         faults' = faults, ~snap[p].pinned
  PROVE  /\ db'.marks[hold[p].buy] >= hold[p].price
         /\ db'.marks[hold[p].buy] >= db'.buys[hold[p].buy].entry
  <1>1. /\ db \in Rows /\ Sized(db) /\ View(p) = db /\ faults \in Nat
    BY SellAssumption DEF Inv, TypeOK, SizesOK, View
  <1>2. UpdateWatermark(p)
    <2>1. PICK q \in Scans : Pass(q) \/ Abandon(q) \/ Crash(q)
      BY DEF Next, Tick, InsertBuy, RecordSale, vars
    <2>2. q = p
      BY <2>1, OnlyOneMoves DEF Leaves
    <2>3. ~Crash(p) /\ ~Abandon(p)
      BY <1>1 DEF Crash, Abandon, Fault, CanWrite
    <2>4. /\ scan[p].pc \in Busy
      BY DEF Inv, PassesOK, PassOK
    <2>5. ASSUME InsertSellSignal(p) PROVE FALSE
      <3>1. hold[p] \in [buy: 0 .. MaxBuys, price: Prices \cup {NoPrice},
                         prior: Prices \cup {Untracked}, rule: Rules \cup {"none"},
                         row: 0 .. MaxSells]
        BY DEF Inv, TypeOK
      <3>2. hold'[p] = [hold[p] EXCEPT !.row = Len(db.sells) + 1] /\ Len(db.sells) \in Nat
        BY <2>5, Inserted DEF Stores
      <3>3. hold'[p].row = Len(db.sells) + 1
        BY <3>1, <3>2
      <3> QED BY <3>2, <3>3 DEF NoHold, NoRow
    <2> QED BY <2>1, <2>2, <2>3, <2>4, <2>5 DEF Pass, Busy, StartScan, IngestClose,
      IngestNothing, LoadBuys, SkipBuy, Evaluate, Decide, Send, FlipAlerted, EndPass
  <1> DEFINE b == hold[p].buy
             entry == db.buys[b].entry
             price == hold[p].price
  <1>3. scan[p].pc = "mark" /\ b \in 1 .. Len(db.buys) /\ price \in Prices
    BY <1>1, <1>2 DEF UpdateWatermark, Inv, PassesOK, PassOK, Busy
  <1>4. /\ b \in BuyIds /\ entry \in Nat /\ price \in Nat /\ entry \in Prices
        /\ db.marks[b] \in Nat /\ hold[p].prior \in Nat
    <2>1. entry \in Prices /\ hold[p].prior \in Prices \cup {Untracked}
      BY <1>1, <1>3, RowsTyped DEF Inv, TypeOK
    <2>2. entry \in Nat /\ price \in Nat /\ hold[p].prior \in Nat
      BY <1>3, <2>1, PricesAreNumbers, Zenon
    <2>3. b \in BuyIds
      BY <1>1, <1>3, RowsTyped, SellAssumption DEF BuyIds, Sized
    <2> QED BY <1>1, <2>1, <2>2, <2>3, RowNumbers
  <1>5. /\ Baseline(p) \in Nat /\ Baseline(p) >= price /\ Baseline(p) >= entry
    BY <1>1, <1>4 DEF Baseline
  <1>6. CASE Raises(p)
    <2>1. db' = RaisedMark(db, b, Baseline(p))
      BY <1>2, <1>6 DEF UpdateWatermark, Publish
    <2>2. db'.buys = db.buys /\ db'.marks[b] >= Baseline(p) /\ db'.marks[b] \in Nat
      BY <1>1, <1>4, <1>5, <2>1 DEF RaisedMark, Rows
    <2> QED BY <1>4, <1>5, <2>2
  <1>7. CASE ~Raises(p)
    <2>1. db' = db
      BY <1>2, <1>7 DEF UpdateWatermark, dbVars
    <2>2. Baseline(p) <= hold[p].prior /\ hold[p].prior <= db.marks[b]
      BY <1>3, <1>4, <1>5, <1>7 DEF Raises, Facts, Hands, Busy
    <2> QED BY <1>4, <1>5, <2>1, <2>2
  <1> QED BY <1>6, <1>7

(* When a pass is through with a buy, the watermark on disk covers the     *)
(* price it saw and the entry, signal or no signal, whoever else writes.   *)
THEOREM NoPeakForgotten == Spec => PeaksRemembered
  <1>1. Inv /\ Facts /\ [Next]_vars =>
          [\A p \in Scans :
             /\ hold[p] # NoHold /\ hold'[p] = NoHold
             /\ faults' = faults /\ ~snap[p].pinned
             => /\ db'.marks[hold[p].buy] >= hold[p].price
                /\ db'.marks[hold[p].buy] >= db'.buys[hold[p].buy].entry]_vars
    BY MarkLeft
  <1> QED BY <1>1, FactsHold, Invariance, PTL DEF Spec, PeaksRemembered

=============================================================================
