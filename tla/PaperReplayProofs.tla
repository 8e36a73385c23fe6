-------------------------- MODULE PaperReplayProofs --------------------------
(***************************************************************************)
(* Theorems about PaperReplay, for every set of signals, every market and  *)
(* every configuration that validate_config accepts.                       *)
(*                                                                         *)
(* The argument: signals are answered in the order of availability, none   *)
(* before its hour and none after it, so when its turn comes the trades    *)
(* that are open are the trades it met, the cash is what the trades before *)
(* it left (Ordered, MeetsOpen, CashLeftNow), and neither changes          *)
(* afterwards (MetStays, CashLeftStays).  A trade follows from its         *)
(* signal's hour alone (Kept), and an hour's sales move its proceeds from  *)
(* one side of the books to the other (SalesAddUp).                        *)
(***************************************************************************)
EXTENDS PaperReplay, FiniteSetTheorems, WellFoundedInduction, TLAPS

(* The inductive invariant: signals that wait (Pending), signals that have *)
(* had their answer (Asked), and the order and the hours of both.          *)

Answers == {"position_open", "position_limit", "insufficient_cash", "entered"}
Pending == {i \in Ids : fate[i] = "event"}
Asked == {i \in Ids : fate[i] \in Answers}

Known(i) == Available(input[i])
At(i) == Entry(input[i])
Before(i, j) == Known(i) < Known(j) \/ (Known(i) = Known(j) /\ i < j)

Typed ==
  /\ input \in [Ids -> Candidates] /\ delivered \in BOOLEAN
  /\ DOMAIN fate = Ids
  /\ now \in Nat /\ now % Hour = 0
  /\ bar \in [Symbols -> {NoBar} \cup Quotes]
  /\ cash \in Nat
  /\ trade \in [Ids -> [entry : Int, quantity : Nat, exit : Int, proceeds : Nat]]

(* Only usable signals of known pairs wait for their hour.                 *)
Usable ==
  \A i \in Pending \cup Asked :
    input[i].symbol \in Symbols /\ 0 <= Known(i) /\ At(i) < End

(* The hour being replayed, between the signals answered and those to come.*)
Phased ==
  /\ phase \in {"hour", "entry", "close", "done", "invalid"}
  /\ phase \in {"hour", "entry", "close"} => now < End
  /\ phase = "done" => now = End
  /\ \A i \in Pending : now <= At(i) /\ (phase = "close" => now < At(i))
  /\ \A i \in Asked : At(i) <= now /\ (phase = "hour" => At(i) < now)

(* Answers are given in the order of availability.                         *)
Ordered == \A i \in Asked, j \in Pending : Before(i, j)

(* A trade belongs to a signal that was entered, from its hour on and for  *)
(* as long as it has to last.                                              *)
Kept ==
  \A i \in Ids :
    LET t == trade[i] leave == At(i) + HoldingHours * Hour IN
    /\ fate[i] # "entered" => t = NoTrade
    /\ fate[i] = "entered" =>
         /\ t.entry = At(i)
         /\ \/ t.exit = -1 /\ now < leave
            \/ t.exit = leave /\ leave <= now

OneEach == \A i, j \in OpenTrades : input[i].symbol = input[j].symbol => i = j

Closed == Entered \ OpenTrades

Balanced ==
  /\ cash = InitialCapital - Budget * Cardinality(Entered)
              + SumFunction([i \in Closed |-> trade[i].proceeds])
  /\ Cardinality(OpenTrades) <= MaxPositions

Charted ==
  /\ curve \in Seq(Nat) /\ peak \in Nat /\ peak > 0
  /\ \A i \in DOMAIN curve : curve[i] <= peak
  /\ \E i \in DOMAIN curve : peak = curve[i]
  /\ worst \in Nat \X Nat
  /\ DrawdownIsWorst

Inv == Typed /\ Usable /\ Phased /\ Ordered /\ Kept /\ OneEach /\ SkipsExplained
         /\ Balanced /\ Charted

-----------------------------------------------------------------------------
(* Induction on finite sets.                                               *)

LEMMA HasLeast ==
  ASSUME NEW T \in SUBSET Nat, T # {} PROVE \E m \in T : \A n \in T : m <= n
  <1> DEFINE Less == OpToRel(<, Nat)
  <1>1. \E m \in T : \A n \in T : ~ (<<n, m>> \in Less)
    BY NatLessThanWellFounded, WFMin, Zenon
  <1>2. \A a, b \in Nat : a < b => <<a, b>> \in Less
    BY DEF OpToRel
  <1>3. \E m \in T : \A n \in T : ~(n < m)
    <2> HIDE DEF Less
    <2> QED BY <1>1, <1>2, T \subseteq Nat, Zenon
  <1> QED BY <1>3

(* What holds for a set whenever it holds without any of its members holds *)
(* for every subset of a finite set.                                       *)
LEMMA FiniteInduction ==
  ASSUME NEW S, IsFiniteSet(S), NEW Good,
         \A T \in SUBSET S : (\A x \in T : T \ {x} \in Good) => T \in Good
  PROVE  \A T \in SUBSET S : T \in Good
  <1> DEFINE Bad == {n \in Nat : \E T \in SUBSET S : T \notin Good /\ Cardinality(T) = n}
  <1>1. SUFFICES ASSUME NEW T \in SUBSET S, T \notin Good PROVE FALSE
    OBVIOUS
  <1>2. \A U \in SUBSET S : IsFiniteSet(U) /\ Cardinality(U) \in Nat
    BY FS_Subset, FS_CardinalityType
  <1>3. Bad \in SUBSET Nat /\ Bad # {}
    BY <1>1, <1>2
  <1>4. PICK n \in Bad : \A m \in Bad : n <= m
    <2> HIDE DEF Bad
    <2> QED BY <1>3, HasLeast
  <1>5. PICK U \in SUBSET S : U \notin Good /\ Cardinality(U) = n
    BY <1>4
  <1>6. PICK x \in U : U \ {x} \notin Good
    BY <1>5
  <1>7. Cardinality(U \ {x}) = n - 1 /\ U \ {x} \in SUBSET S
    BY <1>2, <1>5, FS_RemoveElement
  <1>8. n - 1 \in Bad
    BY <1>2, <1>6, <1>7
  <1> QED BY <1>4, <1>8

-----------------------------------------------------------------------------
(* Sums over finite sets.  The fold of the community modules is a          *)
(* recursive function on the subsets: such a table exists, any two agree,  *)
(* and the sum does not depend on the order in which indices are taken.    *)

(* it is a table of the sums of f over the subsets of S.                   *)
Sums(it, f, S) ==
  it = [s \in SUBSET S |-> IF s = {} THEN 0
          ELSE f[CHOOSE x \in s : TRUE] + it[s \ {CHOOSE x \in s : TRUE}]]

LEMMA SumIsTabled ==
  ASSUME NEW f, NEW S
  PROVE  SumFunctionOnSet(f, S) = (CHOOSE it : Sums(it, f, S))[S]
  BY DEF SumFunctionOnSet, FoldFunctionOnSet, MapThenFoldSet, Sums

(* A table of the sums over the subsets of up to n members.                *)
Sizes(S, n) == {s \in SUBSET S : Cardinality(s) <= n}

Partial(it, f, S, n) ==
  it = [s \in Sizes(S, n) |-> IF s = {} THEN 0
          ELSE f[CHOOSE x \in s : TRUE] + it[s \ {CHOOSE x \in s : TRUE}]]

LEMMA PartialGrows ==
  ASSUME NEW f, NEW S, IsFiniteSet(S), NEW n \in Nat, NEW it, Partial(it, f, S, n)
  PROVE  \E up : Partial(up, f, S, n + 1)
  <1> DEFINE c(s) == CHOOSE x \in s : TRUE
             up == [s \in Sizes(S, n + 1) |-> IF s = {} THEN 0 ELSE f[c(s)] + it[s \ {c(s)}]]
  <1>1. ASSUME NEW s \in Sizes(S, n + 1), s # {}
        PROVE  s \ {c(s)} \in Sizes(S, n)
    <2>1. c(s) \in s
      BY <1>1
    <2>2. IsFiniteSet(s) /\ Cardinality(s) \in Nat /\ Cardinality(s) <= n + 1
      BY FS_Subset, FS_CardinalityType DEF Sizes
    <2>3. Cardinality(s \ {c(s)}) = Cardinality(s) - 1
      BY <2>1, <2>2, FS_RemoveElement
    <2> QED BY <2>2, <2>3 DEF Sizes
  <1>2. Sizes(S, n) \subseteq Sizes(S, n + 1)
    <2>1. \A s \in SUBSET S : Cardinality(s) \in Nat
      BY FS_Subset, FS_CardinalityType
    <2> QED BY <2>1 DEF Sizes
  <1>3. ASSUME NEW s \in Sizes(S, n) PROVE up[s] = it[s]
    <2>1. up[s] = IF s = {} THEN 0 ELSE f[c(s)] + it[s \ {c(s)}]
      BY <1>2
    <2>2. it[s] = IF s = {} THEN 0 ELSE f[c(s)] + it[s \ {c(s)}]
      BY DEF Partial
    <2> QED BY <2>1, <2>2
  <1>4. up = [s \in Sizes(S, n + 1) |-> IF s = {} THEN 0 ELSE f[c(s)] + up[s \ {c(s)}]]
    <2>1. \A s \in Sizes(S, n + 1) : s # {} => up[s \ {c(s)}] = it[s \ {c(s)}]
      BY <1>1, <1>3
    <2> DEFINE old(s) == IF s = {} THEN 0 ELSE f[c(s)] + it[s \ {c(s)}]
               new(s) == IF s = {} THEN 0 ELSE f[c(s)] + up[s \ {c(s)}]
    <2>2. \A s \in Sizes(S, n + 1) : old(s) = new(s)
      <3> SUFFICES ASSUME NEW s \in Sizes(S, n + 1) PROVE old(s) = new(s)
        OBVIOUS
      <3>1. s # {} => up[s \ {c(s)}] = it[s \ {c(s)}]
        BY <2>1
      <3> HIDE DEF up, c
      <3> QED BY <3>1, Zenon
    <2>3. [s \in Sizes(S, n + 1) |-> old(s)] = [s \in Sizes(S, n + 1) |-> new(s)]
      <3> HIDE DEF old, new
      <3> QED BY <2>2
    <2> QED BY <2>3, Zenon
  <1> QED BY <1>4 DEF Partial

LEMMA TablesExist ==
  ASSUME NEW f, NEW S, IsFiniteSet(S)
  PROVE  \E it : Sums(it, f, S)
  <1> DEFINE Bad == {n \in Nat : ~ \E it : Partial(it, f, S, n)}
  <1>1. Bad = {}
    <2>1. SUFFICES ASSUME Bad # {} PROVE FALSE
      OBVIOUS
    <2>2. PICK n \in Bad : \A m \in Bad : n <= m
      <3>1. Bad \in SUBSET Nat
        OBVIOUS
      <3> HIDE DEF Bad
      <3> QED BY <2>1, <3>1, HasLeast
    <2>3. n # 0
      <3>1. Sizes(S, 0) = {{}}
        <4>1. \A s \in SUBSET S : Cardinality(s) \in Nat /\ (Cardinality(s) = 0 <=> s = {})
          BY FS_Subset, FS_CardinalityType, FS_EmptySet
        <4> QED BY <4>1 DEF Sizes
      <3>2. Partial([s \in Sizes(S, 0) |-> 0], f, S, 0)
        BY <3>1 DEF Partial
      <3> QED BY <3>2
    <2>4. n - 1 \in Nat /\ n - 1 \notin Bad
      BY <2>2, <2>3
    <2>5. PICK it : Partial(it, f, S, n - 1)
      BY <2>4
    <2>6. \E up : Partial(up, f, S, (n - 1) + 1)
      BY <2>4, <2>5, PartialGrows
    <2>7. (n - 1) + 1 = n
      BY <2>4
    <2> QED BY <2>2, <2>6, <2>7
  <1>2. Cardinality(S) \in Nat /\ Sizes(S, Cardinality(S)) = SUBSET S
    BY FS_Subset, FS_CardinalityType DEF Sizes
  <1>3. PICK it : Partial(it, f, S, Cardinality(S))
    BY <1>1, <1>2
  <1> QED BY <1>2, <1>3 DEF Partial, Sums

LEMMA TablesAgree ==
  ASSUME NEW f, NEW S, IsFiniteSet(S), NEW T \in SUBSET S,
         NEW a, Sums(a, f, S), NEW b, Sums(b, f, T)
  PROVE  a[T] = b[T]
  <1> DEFINE Good == {s \in SUBSET T : a[s] = b[s]}
  <1>1. IsFiniteSet(T)
    BY FS_Subset
  <1>2. ASSUME NEW s \in SUBSET T, \A x \in s : s \ {x} \in Good
        PROVE  s \in Good
    <2>1. CASE s = {}
      <3>1. a[s] = 0 /\ b[s] = 0
        BY <2>1 DEF Sums
      <3> QED BY <3>1
    <2>2. CASE s # {}
      <3> DEFINE c == CHOOSE x \in s : TRUE
      <3>1. c \in s
        BY <2>2
      <3>2. a[s] = f[c] + a[s \ {c}] /\ b[s] = f[c] + b[s \ {c}]
        BY <2>2 DEF Sums
      <3>3. a[s \ {c}] = b[s \ {c}]
        BY <1>2, <3>1
      <3> QED BY <3>2, <3>3
    <2> QED BY <2>1, <2>2
  <1>3. T \in SUBSET T
    OBVIOUS
  <1>4. T \in Good
    <2> HIDE DEF Good
    <2> QED BY <1>1, <1>2, <1>3, FiniteInduction
  <1> QED BY <1>4

(* The sum over no indices is 0, and over some what the first of them adds *)
(* to the sum over the rest.                                               *)
LEMMA SumUnfolds ==
  ASSUME NEW f, NEW S, IsFiniteSet(S)
  PROVE  /\ S = {} => SumFunctionOnSet(f, S) = 0
         /\ S # {} => \E c \in S :
              SumFunctionOnSet(f, S) = f[c] + SumFunctionOnSet(f, S \ {c})
  <1> DEFINE a == CHOOSE it : Sums(it, f, S)
             c == CHOOSE x \in S : TRUE
             b == CHOOSE it : Sums(it, f, S \ {c})
  <1>1. Sums(a, f, S)
    BY TablesExist
  <1>2. IsFiniteSet(S \ {c}) /\ Sums(b, f, S \ {c})
    BY TablesExist, FS_RemoveElement
  <1>3. a[S \ {c}] = b[S \ {c}]
    <2> HIDE DEF a, b
    <2> QED BY <1>1, <1>2, TablesAgree
  <1>4. SumFunctionOnSet(f, S) = a[S] /\ SumFunctionOnSet(f, S \ {c}) = b[S \ {c}]
    BY SumIsTabled, Zenon
  <1>5. (S = {} => a[S] = 0) /\ (S # {} => a[S] = f[c] + a[S \ {c}])
    <2> HIDE DEF a
    <2> QED BY <1>1 DEF Sums
  <1>6. S # {} => c \in S
    OBVIOUS
  <1> QED BY <1>3, <1>4, <1>5, <1>6

(* Sums of members of a set that adding does not leave.                    *)
LEMMA SumStaysIn ==
  ASSUME NEW S, IsFiniteSet(S), NEW f, NEW V, 0 \in V,
         \A a, b \in V : a + b \in V, \A i \in S : f[i] \in V
  PROVE  SumFunctionOnSet(f, S) \in V
  <1> DEFINE sum(T) == SumFunctionOnSet(f, T)
             Good == {T \in SUBSET S : sum(T) \in V}
  <1>1. ASSUME NEW T \in SUBSET S, \A x \in T : T \ {x} \in Good
        PROVE  T \in Good
    <2>1. /\ T = {} => sum(T) = 0
          /\ T # {} => \E c \in T : sum(T) = f[c] + sum(T \ {c})
      BY FS_Subset, SumUnfolds
    <2>2. \A c \in T : sum(T \ {c}) \in V /\ f[c] \in V
      BY <1>1
    <2> HIDE DEF sum
    <2> QED BY <2>1, <2>2, ZenonT(60)
  <1>2. S \in SUBSET S
    OBVIOUS
  <1>3. S \in Good
    <2> HIDE DEF Good
    <2> QED BY <1>1, <1>2, FiniteInduction
  <1> QED BY <1>3

LEMMA SumIsWhole ==
  ASSUME NEW S, IsFiniteSet(S), NEW f, \A i \in S : f[i] \in Int
  PROVE  SumFunctionOnSet(f, S) \in Int
  <1>1. 0 \in Int /\ \A a, b \in Int : a + b \in Int
    OBVIOUS
  <1> QED BY <1>1, SumStaysIn, Zenon

LEMMA SumIsNatural ==
  ASSUME NEW S, IsFiniteSet(S), NEW f, \A i \in S : f[i] \in Nat
  PROVE  SumFunctionOnSet(f, S) \in Nat
  <1>1. 0 \in Nat /\ \A a, b \in Nat : a + b \in Nat
    OBVIOUS
  <1> QED BY <1>1, SumStaysIn, Zenon

(* Whatever index is taken out, its value is what the sum loses.           *)
LEMMA SumTakesOut ==
  ASSUME NEW S, IsFiniteSet(S), NEW f, \A i \in S : f[i] \in Int, NEW x \in S
  PROVE  SumFunctionOnSet(f, S) = f[x] + SumFunctionOnSet(f, S \ {x})
  <1> DEFINE sum(T) == SumFunctionOnSet(f, T)
             Good == {T \in SUBSET S : \A y \in T : sum(T) = f[y] + sum(T \ {y})}
  <1>1. \A T \in SUBSET S : IsFiniteSet(T) /\ sum(T) \in Int
    BY FS_Subset, SumIsWhole
  <1>2. ASSUME NEW T \in SUBSET S, \A y \in T : T \ {y} \in Good, NEW y \in T
        PROVE  sum(T) = f[y] + sum(T \ {y})
    <2>1. PICK c \in T : sum(T) = f[c] + sum(T \ {c})
      BY <1>1, SumUnfolds
    <2>2. CASE y = c
      BY <2>1, <2>2
    <2>3. CASE y # c
      <3>1. sum(T \ {c}) = f[y] + sum((T \ {c}) \ {y})
        BY <1>2, <2>3
      <3>2. sum(T \ {y}) = f[c] + sum((T \ {y}) \ {c})
        BY <1>2, <2>3
      <3>3. (T \ {c}) \ {y} = (T \ {y}) \ {c}
        OBVIOUS
      <3>4. sum((T \ {y}) \ {c}) \in Int /\ f[c] \in Int /\ f[y] \in Int
        BY <1>1
      <3>5. sum((T \ {c}) \ {y}) = sum((T \ {y}) \ {c})
        BY <3>3, Zenon
      <3> HIDE DEF sum
      <3> QED BY <2>1, <3>1, <3>2, <3>4, <3>5
    <2> QED BY <2>2, <2>3
  <1>3. \A T \in SUBSET S : (\A y \in T : T \ {y} \in Good) => T \in Good
    BY <1>2
  <1>4. S \in SUBSET S
    OBVIOUS
  <1>5. S \in Good
    <2> HIDE DEF Good
    <2> QED BY <1>3, <1>4, FiniteInduction
  <1> QED BY <1>5

(* Only the values at the indices count.                                   *)
LEMMA SumSeesIndices ==
  ASSUME NEW S, IsFiniteSet(S), NEW f, NEW g, \A i \in S : f[i] = g[i]
  PROVE  SumFunctionOnSet(f, S) = SumFunctionOnSet(g, S)
  <1> DEFINE it == CHOOSE t : Sums(t, f, S)
  <1>1. Sums(it, f, S)
    BY TablesExist
  <1>2. \A T \in SUBSET S : T # {} => f[CHOOSE x \in T : TRUE] = g[CHOOSE x \in T : TRUE]
    <2>1. \A T \in SUBSET S : T # {} => (CHOOSE x \in T : TRUE) \in S
      OBVIOUS
    <2> QED BY <2>1
  <1>3. Sums(it, g, S)
    <2> DEFINE with(h, s) == IF s = {} THEN 0 ELSE h[CHOOSE x \in s : TRUE] + it[s \ {CHOOSE x \in s : TRUE}]
    <2>1. \A s \in SUBSET S : with(f, s) = with(g, s)
      <3> SUFFICES ASSUME NEW s \in SUBSET S PROVE with(f, s) = with(g, s)
        OBVIOUS
      <3>1. s # {} => f[CHOOSE x \in s : TRUE] = g[CHOOSE x \in s : TRUE]
        BY <1>2
      <3> HIDE DEF it
      <3> QED BY <3>1, Zenon
    <2>2. [s \in SUBSET S |-> with(f, s)] = [s \in SUBSET S |-> with(g, s)]
      <3> HIDE DEF with
      <3> QED BY <2>1
    <2> HIDE DEF it
    <2> QED BY <1>1, <2>2, Zenon DEF Sums
  <1> DEFINE was == CHOOSE t : Sums(t, g, S)
  <1>4. Sums(was, g, S)
    BY <1>3
  <1>5. S \in SUBSET S /\ was[S] = it[S]
    <2> HIDE DEF was, it
    <2> QED BY <1>3, <1>4, TablesAgree
  <1> QED BY <1>5, SumIsTabled, Zenon

(* Sums over sets that share nothing add up.                               *)
LEMMA SumAddsUp ==
  ASSUME NEW S, IsFiniteSet(S), NEW R, IsFiniteSet(R), R \cap S = {},
         NEW f, \A i \in R \cup S : f[i] \in Int
  PROVE  SumFunctionOnSet(f, R \cup S) = SumFunctionOnSet(f, R) + SumFunctionOnSet(f, S)
  <1> DEFINE sum(T) == SumFunctionOnSet(f, T)
             Good == {T \in SUBSET S : sum(R \cup T) = sum(R) + sum(T)}
  <1>1. IsFiniteSet(R \cup S)
    BY FS_Union
  <1>2. \A T \in SUBSET (R \cup S) : IsFiniteSet(T) /\ sum(T) \in Int
    BY <1>1, FS_Subset, SumIsWhole
  <1>3. ASSUME NEW T \in SUBSET S, \A x \in T : T \ {x} \in Good
        PROVE  sum(R \cup T) = sum(R) + sum(T)
    <2>1. CASE T = {}
      <3>1. sum(T) = 0 /\ R \cup T = R
        BY <2>1, <1>2, SumUnfolds
      <3>2. sum(R) \in Int
        BY <1>2
      <3>3. sum(R \cup T) = sum(R)
        BY <3>1, Zenon
      <3> HIDE DEF sum
      <3> QED BY <3>1, <3>2, <3>3
    <2>2. CASE T # {}
      <3>1. PICK x \in T : TRUE
        BY <2>2
      <3>2. (R \cup T) \ {x} = R \cup (T \ {x}) /\ x \in R \cup T
        BY <3>1
      <3>3. sum(T) = f[x] + sum(T \ {x})
        BY <1>2, SumTakesOut
      <3>4. sum(R \cup T) = f[x] + sum((R \cup T) \ {x})
        BY <1>2, <3>2, SumTakesOut
      <3>5. sum(R \cup (T \ {x})) = sum(R) + sum(T \ {x})
        BY <1>3
      <3>6. f[x] \in Int /\ sum(R) \in Int /\ sum(T \ {x}) \in Int
        BY <1>2
      <3>7. sum((R \cup T) \ {x}) = sum(R \cup (T \ {x}))
        BY <3>2, Zenon
      <3> HIDE DEF sum
      <3> QED BY <3>3, <3>4, <3>5, <3>6, <3>7
    <2> QED BY <2>1, <2>2
  <1>4. \A T \in SUBSET S : (\A x \in T : T \ {x} \in Good) => T \in Good
    BY <1>3
  <1>5. S \in SUBSET S
    OBVIOUS
  <1>6. \A T \in SUBSET S : T \in Good
    <2> HIDE DEF Good
    <2> QED BY ONLY <1>4, IsFiniteSet(S), FiniteInduction
  <1> QED BY <1>5, <1>6

(* The sum of a function over its domain, as the replay takes it.          *)
LEMMA SumOfTable ==
  ASSUME NEW S, IsFiniteSet(S), NEW f
  PROVE  SumFunction([i \in S |-> f[i]]) = SumFunctionOnSet(f, S)
  <1> DEFINE g == [i \in S |-> f[i]]
  <1>1. DOMAIN g = S /\ \A i \in S : g[i] = f[i]
    OBVIOUS
  <1> HIDE DEF g
  <1>2. SumFunction(g) = SumFunctionOnSet(g, S)
    BY <1>1, Zenon DEF SumFunction
  <1>3. SumFunctionOnSet(g, S) = SumFunctionOnSet(f, S)
    BY <1>1, SumSeesIndices
  <1> QED BY <1>2, <1>3 DEF g

-----------------------------------------------------------------------------
(* Least and greatest numbers.                                             *)

LEMMA HasMin ==
  ASSUME NEW S \in SUBSET Int, IsFiniteSet(S), S # {}
  PROVE  Min(S) \in S /\ \A x \in S : Min(S) <= x
  <1> DEFINE Good == {T \in SUBSET S : T = {} \/ \E m \in T : \A x \in T : m <= x}
  <1>1. ASSUME NEW T \in SUBSET S, \A x \in T : T \ {x} \in Good, T # {}
        PROVE  \E m \in T : \A x \in T : m <= x
    <2>1. PICK x \in T : TRUE
      BY <1>1
    <2>2. T \ {x} \in Good
      BY <1>1
    <2>3. CASE T \ {x} = {}
      BY <2>1, <2>3
    <2>4. CASE T \ {x} # {}
      <3>1. PICK m \in T \ {x} : \A y \in T \ {x} : m <= y
        BY <2>2, <2>4
      <3>2. x <= m \/ m <= x
        OBVIOUS
      <3> QED BY <3>1, <3>2
    <2> QED BY <2>3, <2>4
  <1>2. \A T \in SUBSET S : (\A x \in T : T \ {x} \in Good) => T \in Good
    BY <1>1
  <1>3. \A T \in SUBSET S : T \in Good
    <2> HIDE DEF Good
    <2> QED BY ONLY <1>2, IsFiniteSet(S), FiniteInduction
  <1>4. S \in Good
    BY <1>3
  <1> QED BY <1>4 DEF Min

LEMMA MaxOfTwo ==
  ASSUME NEW a \in Int, NEW b \in Int
  PROVE  /\ Max({a, b}) \in {a, b}
         /\ a <= Max({a, b}) /\ b <= Max({a, b})
  <1>1. \E x \in {a, b} : \A y \in {a, b} : x >= y
    OBVIOUS
  <1> QED BY <1>1 DEF Max

LEMMA MaxOfThree ==
  ASSUME NEW a \in Int, NEW b \in Int, NEW c \in Int
  PROVE  /\ Max({a, b, c}) \in {a, b, c}
         /\ a <= Max({a, b, c}) /\ b <= Max({a, b, c}) /\ c <= Max({a, b, c})
  <1>1. \E x \in {a, b, c} : \A y \in {a, b, c} : x >= y
    OBVIOUS
  <1> QED BY <1>1 DEF Max

-----------------------------------------------------------------------------
(* Whole hours.                                                            *)

LEMMA Settings ==
  /\ Hour \in Nat /\ Hour > 0 /\ End \in Nat /\ End > 0 /\ End % Hour = 0
  /\ InitialCapital \in Nat /\ InitialCapital > 0
  /\ MaxPositions \in Nat /\ MaxPositions > 0
  /\ HoldingHours \in Nat /\ HoldingHours > 0
  /\ PositionPct \in Nat /\ FeePct \in 0 .. 99 /\ SlipPct \in 0 .. 99
  /\ Ids \subseteq Nat /\ IsFiniteSet(Ids)
  BY PaperAssumption DEF ValidateConfig

LEMMA WholeHours ==
  ASSUME NEW t \in Int
  PROVE  t % Hour = 0 <=> \E k \in Int : t = k * Hour
  <1>1. ASSUME t % Hour = 0 PROVE \E k \in Int : t = k * Hour
    <2>1. t \div Hour \in Int /\ t = (t \div Hour) * Hour
      BY <1>1, Settings
    <2> QED BY <2>1
  <1>2. ASSUME NEW k \in Int, t = k * Hour PROVE t % Hour = 0
    BY <1>2, Settings
  <1> QED BY <1>1, <1>2

LEMMA HoursPass ==
  ASSUME NEW t \in Int, t % Hour = 0, NEW n \in Int
  PROVE  t + n * Hour \in Int /\ (t + n * Hour) % Hour = 0 /\ (t + Hour) % Hour = 0
  <1>1. PICK k \in Int : t = k * Hour
    BY WholeHours
  <1>2. t + n * Hour = (k + n) * Hour /\ k + n \in Int
    BY <1>1, Settings
  <1>3. t + Hour = (k + 1) * Hour /\ k + 1 \in Int /\ t + Hour \in Int
    BY <1>1, Settings
  <1>4. t + n * Hour \in Int
    BY Settings
  <1> QED BY <1>2, <1>3, <1>4, WholeHours

LEMMA HoursApart ==
  ASSUME NEW a \in Int, a % Hour = 0, NEW b \in Int, b % Hour = 0, a < b
  PROVE  a + Hour <= b
  <1>1. PICK k \in Int : a = k * Hour
    BY WholeHours
  <1>2. PICK n \in Int : b = n * Hour
    BY WholeHours
  <1>3. k < n
    <2>1. SUFFICES ASSUME n <= k PROVE FALSE
      OBVIOUS
    <2>2. n * Hour <= k * Hour
      BY <2>1, Settings
    <2> QED BY <1>1, <1>2, <2>2
  <1>4. n - k - 1 \in Nat /\ (n - k - 1) * Hour \in Nat
    BY <1>3, Settings
  <1>5. b = a + Hour + (n - k - 1) * Hour
    BY <1>1, <1>2, Settings
  <1> QED BY <1>4, <1>5, Settings

LEMMA Floors ==
  ASSUME NEW t \in Int
  PROVE  /\ FloorToHour(t) \in Int /\ FloorToHour(t) % Hour = 0
         /\ FloorToHour(t) <= t /\ t < FloorToHour(t) + Hour
         /\ (FloorToHour(t) + Hour) % Hour = 0
  <1>1. t % Hour \in 0 .. Hour - 1 /\ t \div Hour \in Int
    BY Settings
  <1>2. FloorToHour(t) = (t \div Hour) * Hour /\ FloorToHour(t) \in Int
    BY <1>1, Settings DEF FloorToHour
  <1>3. FloorToHour(t) % Hour = 0
    BY <1>1, <1>2, WholeHours
  <1>4. (FloorToHour(t) + Hour) % Hour = 0
    BY <1>2, <1>3, HoursPass
  <1> QED BY <1>1, <1>2, <1>3, <1>4, Settings DEF FloorToHour

-----------------------------------------------------------------------------
(* When a signal becomes available.                                        *)

LEMMA Latest ==
  ASSUME NEW s \in Candidates
  PROVE  /\ Available(s) \in Int
         /\ s.candle \in Int /\ s.detected \in Int
         /\ s.candle + Hour <= Available(s) /\ s.detected <= Available(s)
         /\ Available(s) \in {s.candle + Hour, s.detected} \cup s.sends
  <1>1. s.candle \in Int /\ s.detected \in Int /\ s.sends \in SUBSET Int /\ IsFiniteSet(s.sends)
    BY PaperAssumption
  <1>2. s.candle + Hour \in Int
    BY <1>1, Settings
  <1>3. CASE delivered /\ s.sends # {}
    <2>1. Min(s.sends) \in s.sends /\ Min(s.sends) \in Int
      BY <1>1, <1>3, HasMin
    <2>2. Available(s) = Max({s.candle + Hour, s.detected, Min(s.sends)})
      <3>1. {s.candle + Hour, s.detected, Min(s.sends)}
              = {s.candle + Hour, s.detected} \cup {Min(s.sends)}
        OBVIOUS
      <3> QED BY <1>3, <3>1 DEF Available
    <2> DEFINE top == Max({s.candle + Hour, s.detected, Min(s.sends)})
    <2>3. /\ top \in {s.candle + Hour, s.detected, Min(s.sends)}
          /\ s.candle + Hour <= top /\ s.detected <= top
      BY <1>1, <1>2, <2>1, MaxOfThree, Zenon
    <2> HIDE DEF top
    <2>4. top \in Int /\ top \in {s.candle + Hour, s.detected} \cup s.sends
      BY <1>1, <1>2, <2>1, <2>3
    <2> QED BY <1>1, <2>2, <2>3, <2>4 DEF top
  <1>4. CASE ~(delivered /\ s.sends # {})
    <2>1. Available(s) = Max({s.candle + Hour, s.detected})
      <3>1. {s.candle + Hour, s.detected} = {s.candle + Hour, s.detected} \cup {}
        OBVIOUS
      <3> QED BY <1>4, <3>1 DEF Available
    <2> QED BY <1>1, <1>2, <2>1, MaxOfTwo
  <1> QED BY <1>3, <1>4

LEMMA UnloadedIsIgnored ==
  ASSUME NEW s \in Candidates, ~Loaded(s) PROVE Screened(s) = "ignored"
  <1>1. ~InPeriod(Available(s))
    <2>1. Available(s) < 0 \/ Available(s) >= End \/ Available(s) \in s.sends
      BY Latest, Settings DEF Loaded
    <2>2. CASE Available(s) \in s.sends
      <3>1. CASE s.detected < End /\ s.candle + Hour < End
        BY <2>2, <3>1 DEF Loaded
      <3>2. CASE ~(s.detected < End /\ s.candle + Hour < End)
        BY <3>2, Latest, Settings DEF InPeriod
      <3> QED BY <3>1, <3>2
    <2>3. CASE Available(s) < 0 \/ Available(s) >= End
      BY <2>3, Latest, Settings DEF InPeriod
    <2> QED BY <2>1, <2>2, <2>3
  <1> QED BY <1>1 DEF Screened

LEMMA UsableLoads ==
  ASSUME input \in [Ids -> Candidates] PROVE UsableIsLoaded
  BY UnloadedIsIgnored DEF UsableIsLoaded

LEMMA EntryTimes ==
  ASSUME NEW s \in Candidates
  PROVE  /\ Entry(s) \in Int /\ Entry(s) % Hour = 0
         /\ Available(s) \in Int
         /\ Available(s) < Entry(s) /\ Entry(s) <= Available(s) + Hour
  <1>1. Available(s) \in Int
    BY Latest
  <1> QED BY <1>1, Floors, Settings DEF Entry

LEMMA LaterHourLater ==
  ASSUME NEW s \in Candidates, NEW u \in Candidates, Entry(s) < Entry(u)
  PROVE  Available(s) < Available(u)
  <1>1. Entry(s) + Hour <= Entry(u)
    BY EntryTimes, HoursApart
  <1> QED BY <1>1, EntryTimes, Settings

-----------------------------------------------------------------------------
(* Amounts.                                                                *)

LEMMA Quotients ==
  ASSUME NEW a \in Nat, NEW b \in Nat, b > 0 PROVE a \div b \in Nat
  <1>1. a \div b \in Int /\ a % b \in 0 .. b - 1 /\ a = b * (a \div b) + (a % b)
    OBVIOUS
  <1>2. ASSUME a \div b < 0 PROVE FALSE
    <2>1. a \div b <= -1
      BY <1>1, <1>2
    <2>2. b * (a \div b) <= b * (-1)
      BY <1>1, <2>1
    <2> QED BY <1>1, <2>2
  <1> QED BY <1>1, <1>2

LEMMA Amounts ==
  /\ Budget \in Nat
  /\ \A price \in Nat \ {0} : Quantity(price) \in Nat
  /\ \A quantity, price \in Nat : NetValue(quantity, price) \in Nat
  <1>1. \A a, b \in Nat : a * b \in Nat
    OBVIOUS
  <1>2. \A a, b \in Nat : a > 0 /\ b > 0 => a * b > 0
    OBVIOUS
  <1>3. Budget \in Nat
    <2>1. InitialCapital * PositionPct \in Nat
      BY Settings, <1>1
    <2> QED BY <2>1, Quotients DEF Budget
  <1>4. 100 + SlipPct \in Nat /\ 100 + SlipPct > 0 /\ 100 + FeePct \in Nat /\ 100 + FeePct > 0
        /\ 100 - SlipPct \in Nat /\ 100 - FeePct \in Nat
    BY Settings
  <1>5. ASSUME NEW price \in Nat \ {0} PROVE Quantity(price) \in Nat
    <2>1. price * (100 + SlipPct) \in Nat /\ price * (100 + SlipPct) > 0
      BY <1>1, <1>2, <1>4
    <2>2. /\ price * (100 + SlipPct) * (100 + FeePct) \in Nat
          /\ price * (100 + SlipPct) * (100 + FeePct) > 0
      BY <1>1, <1>2, <1>4, <2>1
    <2>3. Budget * 10000 \in Nat
      BY <1>1, <1>3
    <2> QED BY <2>2, <2>3, Quotients DEF Quantity
  <1>6. ASSUME NEW quantity \in Nat, NEW price \in Nat PROVE NetValue(quantity, price) \in Nat
    <2>1. quantity * price \in Nat
      BY <1>1
    <2>2. quantity * price * (100 - SlipPct) \in Nat
      BY <1>1, <1>4, <2>1
    <2>3. quantity * price * (100 - SlipPct) * (100 - FeePct) \in Nat
      BY <1>1, <1>4, <2>2
    <2> QED BY <2>3, Quotients DEF NetValue
  <1> QED BY <1>3, <1>5, <1>6

-----------------------------------------------------------------------------
(* The next to be answered.                                                *)

LEMMA KnownTimes ==
  ASSUME Typed
  PROVE  \A i \in Ids : /\ input[i] \in Candidates /\ i \in Nat
                        /\ Known(i) \in Int /\ At(i) \in Int /\ At(i) % Hour = 0
                        /\ Known(i) < At(i) /\ At(i) <= Known(i) + Hour
  BY EntryTimes, Settings DEF Typed, Known, At

LEMMA FirstIsFirst ==
  ASSUME Typed, Waiting # {}
  PROVE  First \in Waiting /\ \A j \in Waiting : ComesFirst(First, j)
  <1> DEFINE Good == {T \in SUBSET Waiting : T = {} \/ \E i \in T : \A j \in T : ComesFirst(i, j)}
  <1>1. Waiting \subseteq Ids /\ IsFiniteSet(Waiting)
    BY Settings, FS_Subset DEF Waiting
  <1>2. \A i, j \in Ids : ComesFirst(i, j) <=> (Known(i) < Known(j) \/ (Known(i) = Known(j) /\ i <= j))
    BY DEF ComesFirst, Known
  <1>3. \A i, j \in Ids : ComesFirst(i, j) \/ ComesFirst(j, i)
    BY <1>2, KnownTimes
  <1>4. \A i, j, k \in Ids : ComesFirst(i, j) /\ ComesFirst(j, k) => ComesFirst(i, k)
    BY <1>2, KnownTimes
  <1>5. \A i \in Ids : ComesFirst(i, i)
    BY <1>3
  <1>6. ASSUME NEW T \in SUBSET Waiting, \A i \in T : T \ {i} \in Good, T # {}
        PROVE  \E i \in T : \A j \in T : ComesFirst(i, j)
    <2>1. PICK i \in T : TRUE
      BY <1>6
    <2>2. T \ {i} \in Good /\ T \subseteq Ids
      BY <1>1, <1>6
    <2>3. CASE T \ {i} = {}
      BY <1>5, <2>1, <2>2, <2>3
    <2>4. CASE T \ {i} # {}
      <3>1. PICK k \in T \ {i} : \A j \in T \ {i} : ComesFirst(k, j)
        BY <2>2, <2>4
      <3>2. CASE ComesFirst(i, k)
        <4>1. \A j \in T : ComesFirst(i, j)
          BY <1>4, <1>5, <2>2, <3>1, <3>2
        <4> QED BY <4>1
      <3>3. CASE ComesFirst(k, i)
        <4>1. \A j \in T : ComesFirst(k, j)
          BY <3>1, <3>3
        <4> QED BY <4>1
      <3> QED BY <1>3, <2>2, <3>1, <3>2, <3>3
    <2> QED BY <2>3, <2>4
  <1>7. \A T \in SUBSET Waiting : (\A i \in T : T \ {i} \in Good) => T \in Good
    BY <1>6
  <1>8. \A T \in SUBSET Waiting : T \in Good
    <2> HIDE DEF Good
    <2> QED BY ONLY <1>1, <1>7, FiniteInduction
  <1>9. Waiting \in Good
    BY <1>8
  <1>10. \E i \in Waiting : \A j \in Waiting : ComesFirst(i, j)
    BY <1>9
  <1> QED BY <1>10, Zenon DEF First

LEMMA FirstComesBefore ==
  ASSUME Typed, Waiting # {}
  PROVE  /\ First \in Ids /\ fate[First] = "event" /\ At(First) = now
         /\ \A j \in Waiting : j # First => Before(First, j)
  <1>1. First \in Waiting /\ \A j \in Waiting : ComesFirst(First, j)
    BY FirstIsFirst
  <1>2. Waiting \subseteq Ids
    BY DEF Waiting
  <1>3. \A j \in Waiting : ComesFirst(First, j) /\ j # First => Before(First, j)
    BY <1>1, <1>2, KnownTimes DEF ComesFirst, Before, Known
  <1> QED BY <1>1, <1>3 DEF Waiting, At

-----------------------------------------------------------------------------
(* The beginning.                                                          *)

LEMMA Begins ==
  ASSUME Init PROVE Typed /\ Usable /\ Phased /\ Ordered /\ Kept
  <1>1. \A i \in Ids : fate[i] = IF Loaded(input[i]) THEN Screened(input[i]) ELSE "not_loaded"
    BY DEF Init
  <1>2. \A i \in Ids : fate[i] \notin Answers
    BY <1>1, Zenon DEF Screened, Answers
  <1>3. \A i \in Ids : fate[i] = "event" => /\ input[i].symbol \in Symbols /\ Entry(input[i]) < End
                                            /\ 0 <= Available(input[i])
    BY <1>1, Settings, EntryTimes DEF Screened, InPeriod, Init
  <1>4. Typed
    <2>1. 0 % Hour = 0
      BY Settings
    <2>2. NoBar \in {NoBar} \cup Quotes /\ NoTrade \in [entry : Int, quantity : Nat, exit : Int, proceeds : Nat]
      BY DEF NoTrade
    <2>3. DOMAIN fate = Ids
      BY DEF Init
    <2> QED BY <2>1, <2>2, <2>3, Settings DEF Init, Typed
  <1>5. Asked = {}
    BY <1>2 DEF Asked
  <1>6. Phased
    <2>1. \A i \in Pending : 0 <= At(i)
      BY <1>3, <1>4, KnownTimes DEF Pending, Known, At
    <2> QED BY <1>5, <2>1, Settings DEF Phased, Init
  <1>7. Usable
    BY <1>3, <1>5 DEF Usable, Pending, At, Known
  <1>8. Kept
    BY <1>2 DEF Kept, Init, Answers
  <1> QED BY <1>4, <1>5, <1>6, <1>7, <1>8 DEF Ordered

-----------------------------------------------------------------------------
(* The equity curve.                                                       *)

LEMMA EnteredIsTraded ==
  ASSUME Typed, Usable, Kept
  PROVE  /\ Entered = {i \in Ids : fate[i] = "entered"}
         /\ OpenTrades \subseteq Entered /\ Entered \subseteq Asked
         /\ \A i \in Entered : input[i].symbol \in Symbols
  <1>1. ASSUME NEW i \in Ids, fate[i] = "entered" PROVE trade[i].entry >= 0
    <2>1. trade[i].entry = At(i) /\ 0 <= Known(i)
      BY <1>1 DEF Kept, Usable, Asked, Answers
    <2> QED BY <2>1, KnownTimes
  <1>2. ASSUME NEW i \in Ids, fate[i] # "entered" PROVE ~(trade[i].entry >= 0)
    BY <1>2 DEF Kept, NoTrade
  <1>3. Entered = {i \in Ids : fate[i] = "entered"}
    BY <1>1, <1>2 DEF Entered
  <1>4. Entered \subseteq Asked
    BY <1>3 DEF Asked, Answers
  <1> QED BY <1>3, <1>4 DEF OpenTrades, Usable

LEMMA Prices ==
  ASSUME Typed, NEW m \in Symbols PROVE bar[m].open \in Nat /\ bar[m].close \in Nat
  <1>1. bar[m] \in {NoBar} \cup Quotes
    BY DEF Typed
  <1>2. NoBar.open = 0 /\ NoBar.close = 0
    BY DEF NoBar
  <1>3. \A q \in Quotes : q.open \in Nat /\ q.close \in Nat
    BY PaperAssumption
  <1> QED BY <1>1, <1>2, <1>3

LEMMA EquityIsNatural ==
  ASSUME Typed, NEW coins \in Nat, NEW ids \in SUBSET Ids, NEW prices,
         \A i \in ids : prices[input[i].symbol] \in Nat
  PROVE  Equity(coins, ids, prices) \in Nat
  <1> DEFINE got == [i \in ids |-> NetValue(trade[i].quantity, prices[input[i].symbol])]
  <1>1. \A i \in ids : got[i] \in Nat
    <2>1. \A i \in ids : trade[i].quantity \in Nat
      BY DEF Typed
    <2> QED BY <2>1, Amounts
  <1>2. IsFiniteSet(ids) /\ DOMAIN got = ids
    BY Settings, FS_Subset
  <1>3. SumFunction(got) \in Nat
    <2> HIDE DEF got
    <2>1. SumFunction(got) = SumFunctionOnSet(got, ids)
      BY <1>2, Zenon DEF SumFunction
    <2> QED BY <1>1, <1>2, <2>1, SumIsNatural
  <1>4. Equity(coins, ids, prices) = coins + SumFunction(got)
    BY DEF Equity
  <1> HIDE DEF got
  <1> QED BY <1>3, <1>4

(* The deepest fall so far: every product below compares two falls without *)
(* dividing by their peaks.                                                *)
LEMMA DeeperHolds ==
  ASSUME NEW c \in Nat, NEW w \in Nat, NEW v \in Nat, NEW b \in Nat, NEW e \in Nat, NEW top \in Nat,
         e * w < v * top, c * w >= v * b
  PROVE  c * top >= e * b
  <1>1. v > 0
    <2>1. e * w \in Nat
      OBVIOUS
    <2>2. v = 0 => v * top = 0
      OBVIOUS
    <2> QED BY <2>1, <2>2
  <1>2. (c * top) * v = c * (v * top) /\ (e * b) * v = e * (v * b)
    OBVIOUS
  <1>3. c * (v * top) >= c * (e * w)
    <2>1. v * top \in Nat /\ e * w \in Nat
      OBVIOUS
    <2>2. \A x, y \in Nat : x <= y => c * x <= c * y
      OBVIOUS
    <2> QED BY <2>1, <2>2
  <1>4. c * (e * w) = e * (c * w)
    OBVIOUS
  <1>5. e * (c * w) >= e * (v * b)
    <2>1. c * w \in Nat /\ v * b \in Nat
      OBVIOUS
    <2>2. \A x, y \in Nat : x <= y => e * x <= e * y
      OBVIOUS
    <2> QED BY <2>1, <2>2
  <1>6. (c * top) * v >= (e * b) * v
    <2>1. c * (v * top) \in Nat /\ c * (e * w) \in Nat /\ e * (v * b) \in Nat /\ e * (c * w) \in Nat
      OBVIOUS
    <2> QED BY <1>2, <1>3, <1>4, <1>5, <2>1
  <1>7. \A x, y \in Nat : x * v >= y * v => x >= y
    BY <1>1
  <1>8. c * top \in Nat /\ e * b \in Nat
    OBVIOUS
  <1> QED BY <1>6, <1>7, <1>8

LEMMA Multiplies ==
  \A x, y, z \in Nat : x <= y => z * x <= z * y /\ x * z <= y * z /\ z * x \in Nat /\ z * y \in Nat
  OBVIOUS

LEMMA Marked ==
  ASSUME Charted, NEW e \in Nat, Mark(e) PROVE Charted'
  <1> DEFINE n == Len(curve)
             top == Max({peak, e})
             w == worst[1]
             v == worst[2]
  <1>1. /\ curve \in Seq(Nat) /\ n \in Nat /\ peak \in Nat /\ peak > 0
        /\ DOMAIN curve = 1 .. n /\ \A i \in 1 .. n : curve[i] \in Nat /\ curve[i] <= peak
        /\ worst \in Nat \X Nat /\ w \in Nat /\ v \in Nat
    <2>1. curve \in Seq(Nat) /\ peak \in Nat /\ peak > 0 /\ worst \in Nat \X Nat
      BY DEF Charted
    <2>2. n \in Nat /\ DOMAIN curve = 1 .. n /\ \A i \in 1 .. n : curve[i] \in Nat
      BY <2>1
    <2>3. w \in Nat /\ v \in Nat
      BY <2>1
    <2>4. \A i \in 1 .. n : curve[i] <= peak
      BY <2>2 DEF Charted
    <2> QED BY <2>1, <2>2, <2>3, <2>4
  <1>2. top \in Nat /\ (top = peak \/ top = e) /\ peak <= top /\ e <= top /\ top > 0
    <2>1. peak \in Int /\ e \in Int
      BY <1>1
    <2>2. top \in {peak, e} /\ peak <= top /\ e <= top
      BY <2>1, MaxOfTwo, Zenon
    <2> HIDE DEF top
    <2> QED BY <1>1, <2>2
  <1>3. /\ curve' \in Seq(Nat) /\ DOMAIN curve' = 1 .. n + 1
        /\ \A i \in 1 .. n : curve'[i] = curve[i]
        /\ curve'[n + 1] = e
        /\ peak' = top
        /\ worst' = IF e * w < v * top THEN <<top, e>> ELSE worst
    <2>1. curve' = Append(curve, e) /\ peak' = top
      BY DEF Mark
    <2>2. /\ curve' \in Seq(Nat) /\ DOMAIN curve' = 1 .. n + 1
          /\ \A i \in 1 .. n : curve'[i] = curve[i]
          /\ curve'[n + 1] = e
      <3> HIDE DEF top, w, v
      <3> QED BY <1>1, <2>1
    <2>3. worst' = IF e * w < v * top THEN <<top, e>> ELSE worst
      BY DEF Mark, Deeper
    <2> QED BY <2>1, <2>2, <2>3
  <1>4. \A i \in 1 .. n + 1 : i \in 1 .. n \/ i = n + 1
    BY <1>1
  <1>5. \A i \in 1 .. n + 1 : curve'[i] \in Nat /\ curve'[i] <= top
    <2> HIDE DEF top, n
    <2>1. ASSUME NEW i \in 1 .. n PROVE curve'[i] \in Nat /\ curve'[i] <= top
      <3>1. curve'[i] = curve[i]
        BY <1>3, Zenon
      <3>2. curve[i] \in Nat /\ curve[i] <= peak /\ peak \in Nat
        BY <1>1
      <3>3. top \in Nat /\ peak <= top
        BY <1>2
      <3> QED BY <3>1, <3>2, <3>3
    <2> QED BY <1>2, <1>3, <1>4, <2>1
  <1>6. PICK k \in 1 .. n : peak = curve[k]
    BY <1>1 DEF Charted
  <1>7. \A i, j \in 1 .. n : i <= j => curve[j] * w >= v * curve[i]
    BY <1>1 DEF Charted, DrawdownIsWorst
  <1>8. \E i, j \in 1 .. n : i <= j /\ worst = <<curve[i], curve[j]>>
    BY <1>1 DEF Charted, DrawdownIsWorst
  <1>9. \E i \in 1 .. n + 1 : top = curve'[i]
    <2>1. k \in 1 .. n + 1 /\ n + 1 \in 1 .. n + 1 /\ curve'[k] = peak
      BY <1>1, <1>3, <1>6
    <2> HIDE DEF top, n
    <2> QED BY <1>2, <1>3, <2>1, Zenon
  <1> HIDE DEF n, top, w, v
  <1>10. CASE e * w < v * top
    <2>1. worst' = <<top, e>> /\ worst'[1] = top /\ worst'[2] = e /\ worst' \in Nat \X Nat
      BY <1>2, <1>3, <1>10
    <2>2. ASSUME NEW i \in 1 .. n + 1, NEW j \in 1 .. n + 1, i <= j
          PROVE  curve'[j] * top >= e * curve'[i]
      <3>1. CASE j = n + 1
        <4>1. e * curve'[i] <= e * top /\ e * top \in Nat /\ e * curve'[i] \in Nat
          BY <1>2, <1>5, Multiplies
        <4> QED BY <1>3, <3>1, <4>1
      <3>2. CASE j \in 1 .. n
        <4>1. i \in 1 .. n
          BY <1>1, <2>2, <3>2
        <4>2. curve[j] * w >= v * curve[i] /\ curve[i] \in Nat /\ curve[j] \in Nat
          BY <1>1, <1>7, <2>2, <3>2, <4>1
        <4>3. curve[j] * top >= e * curve[i]
          BY <1>1, <1>2, <1>10, <4>2, DeeperHolds
        <4> QED BY <1>3, <3>2, <4>1, <4>3
      <3> QED BY <1>4, <3>1, <3>2
    <2>3. \E i, j \in 1 .. n + 1 : i <= j /\ worst' = <<curve'[i], curve'[j]>>
      <3>1. PICK i \in 1 .. n + 1 : top = curve'[i]
        BY <1>9
      <3>2. n + 1 \in 1 .. n + 1 /\ i <= n + 1
        BY <1>1
      <3> QED BY <1>3, <2>1, <3>1, <3>2
    <2>4. DrawdownIsWorst'
      BY <1>3, <2>1, <2>2, <2>3 DEF DrawdownIsWorst
    <2> QED BY <1>2, <1>3, <1>5, <1>9, <2>1, <2>4 DEF Charted
  <1>11. CASE ~(e * w < v * top)
    <2>1. worst' = worst /\ worst'[1] = w /\ worst'[2] = v
      BY <1>3, <1>11 DEF w, v
    <2>2. ASSUME NEW i \in 1 .. n + 1, NEW j \in 1 .. n + 1, i <= j
          PROVE  curve'[j] * w >= v * curve'[i]
      <3>1. CASE j = n + 1
        <4>1. v * curve'[i] <= v * top /\ v * top \in Nat /\ v * curve'[i] \in Nat /\ e * w \in Nat
          BY <1>1, <1>2, <1>5, Multiplies
        <4>2. e * w >= v * curve'[i]
          BY <1>11, <4>1
        <4> QED BY <1>3, <3>1, <4>2
      <3>2. CASE j \in 1 .. n
        <4>1. i \in 1 .. n
          BY <1>1, <2>2, <3>2
        <4>2. curve[j] * w >= v * curve[i]
          BY <1>7, <2>2, <3>2, <4>1
        <4> QED BY <1>3, <3>2, <4>1, <4>2
      <3> QED BY <1>4, <3>1, <3>2
    <2>3. \E i, j \in 1 .. n + 1 : i <= j /\ worst' = <<curve'[i], curve'[j]>>
      <3>1. PICK i \in 1 .. n, j \in 1 .. n : i <= j /\ worst = <<curve[i], curve[j]>>
        BY <1>8
      <3>2. i \in 1 .. n + 1 /\ j \in 1 .. n + 1
        BY <1>1
      <3>3. worst' = <<curve'[i], curve'[j]>>
        BY <1>3, <2>1, <3>1
      <3> QED BY <3>1, <3>2, <3>3
    <2>4. DrawdownIsWorst'
      BY <1>3, <2>1, <2>2, <2>3 DEF DrawdownIsWorst
    <2> QED BY <1>1, <1>2, <1>3, <1>5, <1>9, <2>1, <2>4 DEF Charted
  <1> QED BY <1>10, <1>11

(* What the hour's sales bring.                                            *)
Price == [m \in Symbols |-> bar[m].close]
Got == [i \in Due |-> NetValue(trade[i].quantity, Price[input[i].symbol])]

LEMMA SalesAreNatural ==
  ASSUME Typed, Usable, Kept
  PROVE  /\ IsFiniteSet(Due) /\ Due \subseteq OpenTrades /\ DOMAIN Got = Due
         /\ \A i \in Due : Got[i] \in Nat
         /\ SumFunction(Got) = SumFunctionOnSet(Got, Due)
         /\ SumFunction(Got) \in Nat
  <1>1. Due \subseteq OpenTrades /\ Due \subseteq Ids /\ IsFiniteSet(Due) /\ DOMAIN Got = Due
    BY Settings, FS_Subset DEF Due, OpenTrades, Entered, Got
  <1>2. ASSUME NEW i \in Due PROVE Got[i] \in Nat
    <2>1. input[i].symbol \in Symbols /\ trade[i].quantity \in Nat
      BY <1>1, EnteredIsTraded DEF Typed
    <2>2. Price[input[i].symbol] \in Nat
      BY <2>1, Prices DEF Price
    <2> QED BY <2>1, <2>2, Amounts DEF Got
  <1>3. SumFunction(Got) = SumFunctionOnSet(Got, Due)
    BY <1>1, Zenon DEF SumFunction
  <1> QED BY <1>1, <1>2, <1>3, SumIsNatural

LEMMA CloseHourIs ==
  ASSUME CloseHour
  PROVE  /\ phase = "close"
         /\ cash' = cash + SumFunction(Got)
         /\ trade' = [i \in Ids |-> IF i \in Due
                        THEN [trade[i] EXCEPT !.exit = now + Hour, !.proceeds = Got[i]]
                        ELSE trade[i]]
         /\ Mark(Equity(cash + SumFunction(Got), OpenTrades \ Due, Price))
         /\ now' = now + Hour
         /\ phase' = IF now' = End THEN "done" ELSE "hour"
         /\ bar' = [m \in Symbols |-> NoBar]
         /\ UNCHANGED <<input, delivered, fate>>
  BY DEF CloseHour, Got, Price, setting

LEMMA ChartGrows ==
  ASSUME Typed, Usable, Kept, Charted, Next PROVE Charted'
  <1>1. CASE UNCHANGED <<curve, peak, worst>>
    BY <1>1 DEF Charted, DrawdownIsWorst
  <1>2. ASSUME NEW m \in Symbols PROVE bar[m].open \in Nat /\ bar[m].close \in Nat
    BY Prices
  <1>3. OpenTrades \subseteq Ids /\ \A i \in OpenTrades : input[i].symbol \in Symbols
    BY EnteredIsTraded DEF OpenTrades, Entered
  <1>4. CASE MarkOpen
    <2>1. CASE Mark(Equity(cash, OpenTrades, [m \in Symbols |-> bar[m].open]))
      <3>1. Equity(cash, OpenTrades, [m \in Symbols |-> bar[m].open]) \in Nat
        <4> DEFINE prices == [m \in Symbols |-> bar[m].open]
        <4>1. cash \in Nat /\ \A i \in OpenTrades : prices[input[i].symbol] \in Nat
          BY <1>2, <1>3 DEF Typed
        <4> HIDE DEF prices
        <4>2. Equity(cash, OpenTrades, prices) \in Nat
          BY <1>3, <4>1, EquityIsNatural
        <4> QED BY <4>2 DEF prices
      <3> QED BY <2>1, <3>1, Marked
    <2> QED BY <1>1, <1>4, <2>1 DEF MarkOpen, Invalid, marks
  <1>5. CASE CloseHour
    <2> DEFINE coins == cash + SumFunction(Got)
    <2>1. coins \in Nat
      BY SalesAreNatural DEF Typed
    <2>2. \A i \in OpenTrades \ Due : Price[input[i].symbol] \in Nat
      BY <1>2, <1>3 DEF Price
    <2>3. Mark(Equity(coins, OpenTrades \ Due, Price))
      BY <1>5, CloseHourIs
    <2> HIDE DEF coins
    <2>4. OpenTrades \ Due \in SUBSET Ids
      BY <1>3
    <2>5. Equity(coins, OpenTrades \ Due, Price) \in Nat
      BY <2>1, <2>2, <2>4, EquityIsNatural
    <2> QED BY <2>3, <2>5, Marked
  <1>6. CASE ReadBars \/ Skip \/ Enter
    BY <1>1, <1>6 DEF ReadBars, Skip, Enter, Invalid, marks
  <1> QED BY <1>4, <1>5, <1>6 DEF Next

-----------------------------------------------------------------------------
(* The steps, by what they do to signals and trades.                       *)

Quiet == UNCHANGED <<input, delivered, fate, now, cash, trade>>

Reading ==
  /\ phase = "hour" /\ phase' = "entry" /\ Quiet
  /\ bar' \in [Symbols -> {NoBar} \cup Quotes]

Stopping == phase' = "invalid" /\ bar' = bar /\ Quiet

Marking == phase = "entry" /\ Waiting = {} /\ phase' = "close" /\ bar' = bar /\ Quiet

Skipping ==
  /\ phase = "entry" /\ Waiting # {} /\ Answer(First) # "entered"
  /\ fate' = [fate EXCEPT ![First] = Answer(First)]
  /\ UNCHANGED <<input, delivered, now, phase, bar, cash, trade>>

Bought == [NoTrade EXCEPT !.entry = now, !.quantity = Quantity(bar[input[First].symbol].open)]

Buying ==
  /\ phase = "entry" /\ Waiting # {} /\ Answer(First) = "entered"
  /\ bar[input[First].symbol] # NoBar
  /\ fate' = [fate EXCEPT ![First] = "entered"]
  /\ trade' = [trade EXCEPT ![First] = Bought]
  /\ cash' = cash - Budget
  /\ UNCHANGED <<input, delivered, now, phase, bar>>

Selling ==
  /\ phase = "close"
  /\ cash' = cash + SumFunction(Got)
  /\ trade' = [i \in Ids |-> IF i \in Due
                 THEN [trade[i] EXCEPT !.exit = now + Hour, !.proceeds = Got[i]]
                 ELSE trade[i]]
  /\ now' = now + Hour
  /\ phase' = IF now' = End THEN "done" ELSE "hour"
  /\ bar' = [m \in Symbols |-> NoBar]
  /\ UNCHANGED <<input, delivered, fate>>

LEMMA Steps ==
  ASSUME Next PROVE Reading \/ Stopping \/ Marking \/ Skipping \/ Buying \/ Selling
  <1>1. CASE ReadBars
    BY <1>1 DEF ReadBars, Reading, Quiet, setting, book
  <1>2. CASE Skip
    BY <1>2 DEF Skip, Skipping, setting, book
  <1>3. CASE Enter
    BY <1>3 DEF Enter, Invalid, Buying, Bought, Stopping, Quiet, setting, book
  <1>4. CASE MarkOpen
    BY <1>4 DEF MarkOpen, Invalid, Marking, Stopping, Quiet, setting, book
  <1>5. CASE CloseHour
    BY <1>5, CloseHourIs DEF Selling
  <1> QED BY <1>1, <1>2, <1>3, <1>4, <1>5 DEF Next

LEMMA SettingStays ==
  ASSUME Next
  PROVE  /\ input' = input /\ delivered' = delivered
         /\ \A i : Known(i)' = Known(i) /\ At(i)' = At(i)
         /\ \A i, j : Before(i, j)' <=> Before(i, j)
  <1>1. input' = input /\ delivered' = delivered
    BY Steps DEF Reading, Stopping, Marking, Skipping, Buying, Selling, Quiet
  <1>2. \A s : Available(s)' = Available(s) /\ Entry(s)' = Entry(s)
    BY <1>1 DEF Available, Entry
  <1>3. \A i : Known(i)' = Known(i) /\ At(i)' = At(i)
    BY <1>1, <1>2 DEF Known, At
  <1> QED BY <1>1, <1>3 DEF Before

LEMMA AnswersAreAnswers ==
  Answer(First) \in Answers
  BY DEF Answer, Answers

(* Skipped or entered, the first of those waiting has now been answered.   *)
LEMMA OneIsAnswered ==
  ASSUME Typed, Skipping \/ Buying
  PROVE  /\ First \in Waiting /\ First \in Ids /\ First \in Pending /\ First \notin Asked
         /\ At(First) = now
         /\ fate' = [fate EXCEPT ![First] = Answer(First)]
         /\ Pending' = Pending \ {First}
         /\ Asked' = Asked \cup {First}
  <1>1. First \in Waiting /\ First \in Ids /\ fate[First] = "event" /\ At(First) = now
    BY FirstIsFirst, FirstComesBefore DEF Skipping, Buying
  <1>2. fate' = [fate EXCEPT ![First] = Answer(First)] /\ DOMAIN fate = Ids
    BY DEF Skipping, Buying, Typed
  <1>3. \A i \in Ids : fate'[i] = IF i = First THEN Answer(First) ELSE fate[i]
    BY <1>2
  <1>4. Answer(First) \in Answers /\ "event" \notin Answers
    BY AnswersAreAnswers DEF Answers
  <1>5. Pending' = Pending \ {First} /\ Asked' = Asked \cup {First}
    BY <1>1, <1>3, <1>4 DEF Pending, Asked
  <1> QED BY <1>1, <1>2, <1>4, <1>5 DEF Pending, Asked

LEMMA OthersKeepFates ==
  ASSUME Next, ~(Skipping \/ Buying)
  PROVE  fate' = fate /\ Pending' = Pending /\ Asked' = Asked
  BY Steps DEF Reading, Stopping, Marking, Selling, Quiet, Pending, Asked

LEMMA SoldTrade ==
  ASSUME NEW t \in [entry : Int, quantity : Nat, exit : Int, proceeds : Nat],
         NEW at \in Nat, NEW got \in Nat
  PROVE  [t EXCEPT !.exit = at, !.proceeds = got]
           \in [entry : Int, quantity : Nat, exit : Int, proceeds : Nat]
  <1>1. at \in Int
    OBVIOUS
  <1> QED BY <1>1, Zenon

LEMMA TypedStep ==
  ASSUME Typed, Usable, Kept, Next PROVE Typed'
  <1> USE DEF Typed
  <1>1. CASE Reading \/ Stopping \/ Marking
    BY <1>1 DEF Reading, Stopping, Marking, Quiet
  <1>2. CASE Skipping
    BY <1>2 DEF Skipping
  <1>3. CASE Buying
    <2>1. First \in Ids /\ input[First].symbol \in Symbols
      BY <1>3, OneIsAnswered DEF Usable
    <2>2. bar[input[First].symbol].open \in Nat \ {0}
      <3>1. bar[input[First].symbol] \in Quotes
        BY <1>3, <2>1 DEF Buying
      <3> QED BY <3>1, PaperAssumption
    <2>3. Bought \in [entry : Int, quantity : Nat, exit : Int, proceeds : Nat]
      <3> DEFINE q == Quantity(bar[input[First].symbol].open)
      <3>1. q \in Nat
        BY <2>2, Amounts
      <3>2. Bought = [entry |-> now, quantity |-> q, exit |-> -1, proceeds |-> 0]
        <4> HIDE DEF q
        <4>1. Bought = [NoTrade EXCEPT !.entry = now, !.quantity = q]
          BY DEF Bought, q
        <4> QED BY <4>1 DEF NoTrade
      <3> HIDE DEF q
      <3> QED BY <3>1, <3>2
    <2>4. cash - Budget \in Nat
      <3>1. ~(cash < Budget)
        BY <1>3 DEF Buying, Answer
      <3>2. Budget \in Nat /\ cash \in Nat
        BY Amounts
      <3> QED BY <3>1, <3>2
    <2> QED BY <1>3, <2>1, <2>3, <2>4 DEF Buying
  <1>4. CASE Selling
    <2>1. now + Hour \in Nat /\ (now + Hour) % Hour = 0
      BY HoursPass, Settings
    <2>2. cash + SumFunction(Got) \in Nat
      BY SalesAreNatural
    <2>3. \A i \in Due : [trade[i] EXCEPT !.exit = now + Hour, !.proceeds = Got[i]]
                           \in [entry : Int, quantity : Nat, exit : Int, proceeds : Nat]
      <3>1. \A i \in Due : i \in Ids /\ Got[i] \in Nat
        BY SalesAreNatural DEF OpenTrades, Entered
      <3>2. ASSUME NEW t \in [entry : Int, quantity : Nat, exit : Int, proceeds : Nat],
                   NEW at \in Nat, NEW got \in Nat
            PROVE  [t EXCEPT !.exit = at, !.proceeds = got]
                     \in [entry : Int, quantity : Nat, exit : Int, proceeds : Nat]
        BY SoldTrade
      <3>3. \A i \in Due : trade[i] \in [entry : Int, quantity : Nat, exit : Int, proceeds : Nat]
        BY <3>1
      <3>4. now + Hour \in Nat
        BY <2>1
      <3> SUFFICES ASSUME NEW i \in Due
                   PROVE  [trade[i] EXCEPT !.exit = now + Hour, !.proceeds = Got[i]]
                            \in [entry : Int, quantity : Nat, exit : Int, proceeds : Nat]
        OBVIOUS
      <3>5. trade[i] \in [entry : Int, quantity : Nat, exit : Int, proceeds : Nat] /\ Got[i] \in Nat
        BY <3>1, <3>3
      <3> QED BY ONLY <3>2, <3>4, <3>5
    <2>4. trade' \in [Ids -> [entry : Int, quantity : Nat, exit : Int, proceeds : Nat]]
      BY <1>4, <2>3 DEF Selling
    <2>5. bar' \in [Symbols -> {NoBar} \cup Quotes]
      BY <1>4 DEF Selling
    <2> QED BY <1>4, <2>1, <2>2, <2>4, <2>5 DEF Selling
  <1> QED BY <1>1, <1>2, <1>3, <1>4, Steps

LEMMA UsableStep ==
  ASSUME Typed, Usable, Next PROVE Usable'
  <1>1. Pending' \cup Asked' \subseteq Pending \cup Asked
    BY OneIsAnswered, OthersKeepFates
  <1> QED BY <1>1, SettingStays DEF Usable

LEMMA PhasedStep ==
  ASSUME Typed, Phased, Next PROVE Phased'
  <1>0. now \in Nat /\ \A i \in Pending \cup Asked : At(i) \in Int /\ At(i) % Hour = 0
    BY KnownTimes DEF Typed, Pending, Asked
  <1>1. CASE Reading \/ Stopping
    BY <1>1, SettingStays DEF Phased, Reading, Stopping, Quiet, Pending, Asked
  <1>2. CASE Marking
    <2>1. \A i \in Pending : now # At(i)
      BY <1>2 DEF Marking, Waiting, Pending, At
    <2>2. /\ phase = "entry" /\ phase' = "close" /\ now' = now
          /\ Pending' = Pending /\ Asked' = Asked
      BY <1>2 DEF Marking, Quiet, Pending, Asked
    <2>3. \A i \in Pending : now < At(i)
      BY <1>0, <2>1 DEF Phased
    <2> QED BY <1>0, <2>2, <2>3, SettingStays DEF Phased
  <1>3. CASE Skipping \/ Buying
    <2>1. phase = "entry" /\ phase' = phase /\ now' = now
      BY <1>3 DEF Skipping, Buying
    <2> QED BY <1>0, <1>3, <2>1, SettingStays, OneIsAnswered DEF Phased
  <1>4. CASE Selling
    <2>1. /\ phase = "close" /\ now' = now + Hour /\ phase' = IF now' = End THEN "done" ELSE "hour"
          /\ fate' = fate /\ Pending' = Pending /\ Asked' = Asked
      BY <1>4 DEF Selling, Pending, Asked
    <2>2. now < End /\ now + Hour <= End
      <3>1. now < End /\ now % Hour = 0
        BY <2>1 DEF Phased, Typed
      <3>2. now \in Int /\ End \in Int /\ End % Hour = 0
        BY <1>0, Settings
      <3> QED BY <3>1, <3>2, HoursApart
    <2>3. \A i \in Pending : now + Hour <= At(i)
      BY <1>0, <2>1, HoursApart DEF Phased, Typed
    <2>4. \A i \in Asked : At(i) < now + Hour
      BY <1>0, Settings DEF Phased
    <2> QED BY <1>0, <2>1, <2>2, <2>3, <2>4, SettingStays, Settings DEF Phased
  <1> QED BY <1>1, <1>2, <1>3, <1>4, Steps

LEMMA OrderedStep ==
  ASSUME Typed, Phased, Ordered, Next PROVE Ordered'
  <1>1. CASE Skipping \/ Buying
    <2>1. ASSUME NEW j \in Pending, j # First PROVE Before(First, j)
      <3>1. j \in Ids /\ First \in Ids /\ At(First) = now /\ now <= At(j) /\ First \in Waiting
        BY <1>1, OneIsAnswered DEF Pending, Phased
      <3>2. CASE At(j) = now
        <4>1. j \in Waiting /\ Waiting # {}
          BY <3>1, <3>2 DEF Waiting, Pending, At
        <4> QED BY <2>1, <4>1, FirstComesBefore
      <3>3. CASE At(j) # now
        <4>1. At(First) < At(j)
          BY <3>1, <3>3, KnownTimes DEF Typed
        <4>2. input[First] \in Candidates /\ input[j] \in Candidates
          BY <3>1, KnownTimes
        <4>3. Known(First) < Known(j)
          BY <4>1, <4>2, LaterHourLater DEF At, Known
        <4> QED BY <4>3 DEF Before
      <3> QED BY <3>2, <3>3
    <2> QED BY <1>1, <2>1, OneIsAnswered, SettingStays DEF Ordered
  <1>2. CASE ~(Skipping \/ Buying)
    BY <1>2, OthersKeepFates, SettingStays DEF Ordered
  <1> QED BY <1>1, <1>2

LEMMA Leaving ==
  ASSUME Typed, NEW i \in Ids
  PROVE  /\ At(i) + HoldingHours * Hour \in Int /\ (At(i) + HoldingHours * Hour) % Hour = 0
         /\ At(i) < At(i) + HoldingHours * Hour
  <1>1. At(i) \in Int /\ At(i) % Hour = 0
    BY KnownTimes
  <1>2. HoldingHours * Hour \in Nat /\ HoldingHours * Hour > 0
    BY Settings
  <1>3. HoldingHours \in Int
    BY Settings
  <1>4. At(i) + HoldingHours * Hour \in Int /\ (At(i) + HoldingHours * Hour) % Hour = 0
    BY <1>1, <1>3, HoursPass, Zenon
  <1>5. At(i) < At(i) + HoldingHours * Hour
    BY <1>1, <1>2
  <1> QED BY <1>4, <1>5

LEMMA KeptStep ==
  ASSUME Typed, Usable, Phased, Kept, Next PROVE Kept'
  <1> DEFINE Fits(i) ==
        LET t == trade[i] leave == At(i) + HoldingHours * Hour IN
        /\ fate[i] # "entered" => t = NoTrade
        /\ fate[i] = "entered" =>
             /\ t.entry = At(i)
             /\ \/ t.exit = -1 /\ now < leave
                \/ t.exit = leave /\ leave <= now
  <1>1. SUFFICES ASSUME NEW i \in Ids PROVE Fits(i)'
    BY DEF Kept
  <1>2. Fits(i) /\ At(i)' = At(i)
    BY SettingStays DEF Kept
  <1>3. CASE Reading \/ Stopping \/ Marking
    <2>1. fate' = fate /\ trade' = trade /\ now' = now
      BY <1>3 DEF Reading, Stopping, Marking, Quiet
    <2> QED BY <1>2, <2>1
  <1>4. CASE Skipping
    <2>1. trade' = trade /\ now' = now
      BY <1>4 DEF Skipping
    <2>2. (fate'[i] = "entered" <=> fate[i] = "entered")
      <3>1. First \in Ids /\ fate[First] = "event" /\ Answer(First) # "entered"
            /\ fate' = [fate EXCEPT ![First] = Answer(First)]
        BY <1>4, OneIsAnswered DEF Skipping, Pending
      <3> QED BY <3>1 DEF Typed
    <2> QED BY <1>2, <2>1, <2>2
  <1>5. CASE Buying
    <2>1. First \in Ids /\ At(First) = now /\ now' = now /\ fate[First] = "event"
      BY <1>5, OneIsAnswered DEF Buying, Pending
    <2>2. /\ fate'[i] = IF i = First THEN "entered" ELSE fate[i]
          /\ trade'[i] = IF i = First THEN Bought ELSE trade[i]
      BY <1>5 DEF Buying, Typed
    <2>3. CASE i = First
      <3>1. Bought.entry = now /\ Bought.exit = -1
        BY DEF Bought, NoTrade
      <3>2. now < At(i) + HoldingHours * Hour
        BY <2>1, <2>3, Leaving
      <3> QED BY <1>2, <2>1, <2>2, <2>3, <3>1, <3>2
    <2>4. CASE i # First
      BY <1>2, <2>1, <2>2, <2>4
    <2> QED BY <2>3, <2>4
  <1>6. CASE Selling
    <2>1. /\ fate' = fate /\ now' = now + Hour
          /\ trade'[i] = IF i \in Due
                THEN [trade[i] EXCEPT !.exit = now + Hour, !.proceeds = Got[i]]
                ELSE trade[i]
      BY <1>6 DEF Selling
    <2>2. now \in Nat /\ now % Hour = 0 /\ trade[i] \in [entry : Int, quantity : Nat, exit : Int, proceeds : Nat]
      BY DEF Typed
    <2>3. i \in Entered <=> fate[i] = "entered"
      BY EnteredIsTraded
    <2> DEFINE leave == At(i) + HoldingHours * Hour
    <2>4. leave \in Int /\ leave % Hour = 0
      BY Leaving
    <2>5. CASE fate[i] # "entered"
      <3>1. i \notin Due
        BY <2>3, <2>5 DEF Due, OpenTrades
      <3> QED BY <1>2, <2>1, <2>5, <3>1
    <2>6. CASE fate[i] = "entered"
      <3>1. /\ trade[i].entry = At(i)
            /\ \/ trade[i].exit = -1 /\ now < leave
               \/ trade[i].exit = leave /\ leave <= now
        BY <1>2, <2>6
      <3>2. CASE i \in Due
        <4>1. leave = now + Hour
          BY <3>1, <3>2 DEF Due
        <4>2. trade'[i].entry = trade[i].entry /\ trade'[i].exit = now + Hour
          BY <2>1, <2>2, <3>2
        <4> QED BY <1>2, <2>1, <2>2, <2>6, <3>1, <4>1, <4>2, Settings
      <3>3. CASE i \notin Due
        <4>1. trade'[i] = trade[i]
          BY <2>1, <3>3
        <4>2. CASE trade[i].exit = -1 /\ now < leave
          <5>1. leave # now + Hour
            BY <2>3, <2>6, <3>1, <3>3, <4>2 DEF Due, OpenTrades
          <5>2. now + Hour <= leave
            BY <2>2, <2>4, <4>2, HoursApart
          <5>3. now + Hour < leave
            BY <2>2, <2>4, <5>1, <5>2, Settings
          <5> QED BY <1>2, <2>1, <2>6, <3>1, <4>1, <4>2, <5>3
        <4>3. CASE trade[i].exit = leave /\ leave <= now
          <5>1. leave <= now + Hour
            BY <2>2, <2>4, <4>3, Settings
          <5> QED BY <1>2, <2>1, <2>6, <3>1, <4>1, <4>3, <5>1
        <4> QED BY <3>1, <4>2, <4>3
      <3> QED BY <3>2, <3>3
    <2> QED BY <2>5, <2>6
  <1> QED BY <1>3, <1>4, <1>5, <1>6, Steps

LEMMA TradesAreTimed ==
  ASSUME Typed, Usable, Phased, Kept PROVE TradesOnTime
  <1>1. ASSUME NEW i \in Entered
        PROVE  LET t == trade[i] leave == t.entry + HoldingHours * Hour IN
               /\ Available(input[i]) \in t.entry - Hour .. t.entry - 1
               /\ t.entry % Hour = 0
               /\ IF t.exit < 0 THEN leave > now ELSE t.exit = leave /\ leave <= now
    <2>1. i \in Ids /\ fate[i] = "entered" /\ i \in Asked
      BY EnteredIsTraded DEF Entered
    <2>2. /\ trade[i].entry = At(i)
          /\ \/ trade[i].exit = -1 /\ now < At(i) + HoldingHours * Hour
             \/ trade[i].exit = At(i) + HoldingHours * Hour /\ At(i) + HoldingHours * Hour <= now
      BY <2>1 DEF Kept
    <2>3. Known(i) \in Int /\ At(i) \in Int /\ At(i) % Hour = 0 /\ Known(i) < At(i) /\ At(i) <= Known(i) + Hour
          /\ 0 <= Known(i)
      BY <2>1, KnownTimes DEF Usable
    <2>4. Available(input[i]) \in At(i) - Hour .. At(i) - 1
      BY <2>3, Settings DEF Known
    <2>5. At(i) + HoldingHours * Hour \in Int /\ ~(At(i) + HoldingHours * Hour < 0)
      BY <2>1, <2>3, Leaving
    <2>6. now \in Nat
      BY DEF Typed
    <2> QED BY <2>2, <2>3, <2>4, <2>5, <2>6
  <1>2. phase = "done" => Pending = {}
    <2>1. SUFFICES ASSUME phase = "done", NEW i \in Pending PROVE FALSE
      OBVIOUS
    <2>2. now = End /\ now <= At(i) /\ At(i) < End /\ At(i) \in Int
      BY <2>1, KnownTimes DEF Phased, Usable, Pending
    <2> QED BY <2>2, Settings
  <1> QED BY <1>1, <1>2 DEF TradesOnTime, Pending

-----------------------------------------------------------------------------
(* What a signal met.                                                      *)

LEMMA MetIs ==
  ASSUME NEW i
  PROVE  /\ Sooner(i) = {j \in Entered : /\ trade[j].entry <= At(i)
                                        /\ (trade[j].entry < At(i) \/ Before(j, i))}
         /\ Met(i) = {j \in Entered : /\ trade[j].entry <= At(i)
                            /\ (trade[j].entry < At(i) \/ Before(j, i))
                            /\ (trade[j].exit < 0 \/ trade[j].exit > At(i))}
  BY DEF Met, Sooner, Turn, At, Entry, Before, Known

LEMMA OneStands ==
  ASSUME Typed, NEW i \in Ids, NEW j \in Ids, Before(i, j) PROVE ~Before(j, i) /\ ~Before(i, i)
  BY KnownTimes DEF Before

LEMMA TradesOf ==
  ASSUME Typed, Usable, Kept, NEW j \in Entered
  PROVE  /\ j \in Ids /\ j \in Asked /\ fate[j] = "entered" /\ trade[j].entry = At(j) /\ At(j) \in Nat
         /\ now \in Nat
         /\ (trade[j].exit < 0 <=> trade[j].exit = -1)
         /\ trade[j].exit \in Int
         /\ ~(trade[j].exit < 0) => trade[j].exit <= now
  <1>1. j \in Ids /\ j \in Asked /\ fate[j] = "entered"
    BY EnteredIsTraded DEF Entered
  <1>2. At(j) \in Int /\ Known(j) \in Int /\ Known(j) < At(j) /\ 0 <= Known(j)
    BY <1>1, KnownTimes DEF Usable
  <1>3. At(j) + HoldingHours * Hour \in Int /\ 0 <= At(j) + HoldingHours * Hour
    BY <1>1, <1>2, Leaving
  <1>4. now \in Nat
    BY DEF Typed
  <1> QED BY <1>1, <1>2, <1>3, <1>4 DEF Kept

LEMMA MeetsOpen ==
  ASSUME Typed, Usable, Phased, Ordered, Kept, Skipping \/ Buying
  PROVE  Met(First) = OpenTrades /\ Sooner(First) = Entered
  <1>1. First \in Ids /\ First \in Pending /\ At(First) = now
    BY OneIsAnswered
  <1>2. ASSUME NEW j \in Entered
        PROVE  (j \in Met(First) <=> j \in OpenTrades) /\ j \in Sooner(First)
    <2>1. trade[j].entry <= At(First)
      BY <1>1, TradesOf DEF Phased
    <2>2. Before(j, First)
      BY <1>1, TradesOf DEF Ordered
    <2>3. (trade[j].exit < 0 \/ trade[j].exit > At(First)) <=> trade[j].exit < 0
      BY <1>1, TradesOf
    <2>4. (j \in Met(First) <=> trade[j].exit < 0) /\ j \in Sooner(First)
      BY <2>1, <2>2, <2>3, MetIs
    <2> QED BY <2>4 DEF OpenTrades
  <1>3. Met(First) \subseteq Entered /\ OpenTrades \subseteq Entered /\ Sooner(First) \subseteq Entered
    BY MetIs DEF OpenTrades
  <1> QED BY <1>2, <1>3

(* The trades before an answered signal stay those, and so do those it met.*)
LEMMA MetStays ==
  ASSUME Typed, Usable, Phased, Ordered, Kept, Next, NEW i \in Asked'
  PROVE  Met(i)' = Met(i) /\ Sooner(i)' = Sooner(i)
  <1>1. i \in Ids /\ At(i)' = At(i) /\ At(i) <= now
    BY SettingStays, OneIsAnswered, OthersKeepFates, KnownTimes DEF Phased, Asked, Typed
  <1>2. /\ Sooner(i)' = {j \in Entered' : /\ trade'[j].entry <= At(i)
                                          /\ (trade'[j].entry < At(i) \/ Before(j, i))}
        /\ Met(i)' = {j \in Entered' : /\ trade'[j].entry <= At(i)
                                       /\ (trade'[j].entry < At(i) \/ Before(j, i))
                                       /\ (trade'[j].exit < 0 \/ trade'[j].exit > At(i))}
    <2>1. /\ Sooner(i)' = {j \in Entered' : /\ trade'[j].entry <= At(i)'
                                            /\ (trade'[j].entry < At(i)' \/ Before(j, i)')}
          /\ Met(i)' = {j \in Entered' : /\ trade'[j].entry <= At(i)'
                                         /\ (trade'[j].entry < At(i)' \/ Before(j, i)')
                                         /\ (trade'[j].exit < 0 \/ trade'[j].exit > At(i)')}
      BY DEF Met, Sooner, Turn, At, Entry, Before, Known
    <2> QED BY <1>1, <2>1, SettingStays
  <1>3. CASE trade' = trade
    <2>1. Entered' = Entered
      BY <1>3 DEF Entered
    <2> QED BY <1>2, <1>3, <2>1, MetIs
  <1>4. CASE Buying
    <2>1. /\ First \in Ids /\ First \in Pending /\ First \notin Entered /\ At(First) = now
          /\ \A j \in Ids : trade'[j] = IF j = First THEN Bought ELSE trade[j]
      BY <1>4, OneIsAnswered, EnteredIsTraded DEF Buying, Typed
    <2>2. Bought.entry = now /\ now \in Nat
      BY DEF Bought, NoTrade, Typed
    <2>3. Entered' = Entered \cup {First}
      BY <2>1, <2>2 DEF Entered
    <2>4. i \in Asked \/ i = First
      BY <1>4, OneIsAnswered
    <2>5. ~Before(First, i)
      BY <1>1, <2>1, <2>4, OneStands, KnownTimes DEF Ordered, Before
    <2>6. First \notin Met(i)' /\ First \notin Sooner(i)'
      BY <1>1, <1>2, <2>1, <2>2, <2>5, KnownTimes
    <2>7. \A j \in Entered : j \in Ids /\ trade'[j] = trade[j]
      BY <2>1 DEF Entered
    <2>8. ASSUME NEW j \in Entered PROVE (j \in Met(i)' <=> j \in Met(i)) /\ (j \in Sooner(i)' <=> j \in Sooner(i))
      BY <1>2, <2>3, <2>7, MetIs
    <2>9. /\ Met(i)' \subseteq Entered' /\ Met(i) \subseteq Entered
          /\ Sooner(i)' \subseteq Entered' /\ Sooner(i) \subseteq Entered
      BY <1>2, MetIs
    <2> QED BY <2>3, <2>6, <2>8, <2>9
  <1>5. CASE Selling
    <2>1. \A j \in Ids : trade'[j] = IF j \in Due
              THEN [trade[j] EXCEPT !.exit = now + Hour, !.proceeds = Got[j]]
              ELSE trade[j]
      BY <1>5 DEF Selling
    <2>2. \A j \in Ids : trade[j] \in [entry : Int, quantity : Nat, exit : Int, proceeds : Nat]
      BY DEF Typed
    <2>3. \A j \in Ids : /\ trade'[j].entry = trade[j].entry
                         /\ trade'[j].exit = IF j \in Due THEN now + Hour ELSE trade[j].exit
      BY <2>1, <2>2
    <2>4. Entered' = Entered
      BY <2>3 DEF Entered
    <2>5. ASSUME NEW j \in Entered
          PROVE  (trade'[j].exit < 0 \/ trade'[j].exit > At(i)) <=> (trade[j].exit < 0 \/ trade[j].exit > At(i))
      <3>1. CASE j \in Due
        <4>1. trade[j].exit < 0
          BY <3>1 DEF Due, OpenTrades
        <4>2. now + Hour > At(i)
          BY <1>1, KnownTimes, Settings DEF Typed
        <4> QED BY <2>3, <3>1, <4>1, <4>2 DEF Entered
      <3>2. CASE j \notin Due
        BY <2>3, <3>2 DEF Entered
      <3> QED BY <3>1, <3>2
    <2>6. \A j \in Entered : trade'[j].entry = trade[j].entry
      BY <2>3 DEF Entered
    <2>7. ASSUME NEW j \in Entered PROVE (j \in Met(i)' <=> j \in Met(i)) /\ (j \in Sooner(i)' <=> j \in Sooner(i))
      BY <1>2, <2>4, <2>5, <2>6, MetIs
    <2> QED BY <1>2, <2>4, <2>7, MetIs
  <1>6. Buying \/ Selling \/ trade' = trade
    BY Steps DEF Reading, Stopping, Marking, Skipping, Quiet
  <1> QED BY <1>3, <1>4, <1>5, <1>6

-----------------------------------------------------------------------------
(* The books.                                                              *)

LEMMA FiniteTrades ==
  /\ IsFiniteSet(Entered) /\ IsFiniteSet(OpenTrades) /\ IsFiniteSet(Closed)
  /\ Cardinality(Entered) \in Nat /\ Cardinality(OpenTrades) \in Nat
  /\ OpenTrades \subseteq Entered /\ Entered \subseteq Ids /\ Closed \subseteq Entered
  /\ Closed = {i \in Entered : ~(trade[i].exit < 0)}
  <1>1. OpenTrades \subseteq Ids /\ Entered \subseteq Ids /\ Closed \subseteq Ids
    BY DEF OpenTrades, Entered, Closed
  <1>2. IsFiniteSet(Entered) /\ IsFiniteSet(OpenTrades) /\ IsFiniteSet(Closed)
    BY <1>1, Settings, FS_Subset
  <1>3. Cardinality(Entered) \in Nat /\ Cardinality(OpenTrades) \in Nat
    BY <1>2, FS_CardinalityType
  <1>4. OpenTrades \subseteq Entered /\ Closed \subseteq Entered
        /\ Closed = {i \in Entered : ~(trade[i].exit < 0)}
    BY DEF OpenTrades, Closed
  <1> QED BY <1>1, <1>2, <1>3, <1>4

(* A purchase adds one open trade, a sale moves those that are due.        *)
LEMMA BuyingAdds ==
  ASSUME Typed, Usable, Kept, Buying
  PROVE  /\ First \in Ids \ Entered
         /\ Entered' = Entered \cup {First} /\ OpenTrades' = OpenTrades \cup {First}
         /\ Closed' = Closed
         /\ \A i \in Entered : trade'[i] = trade[i]
  <1>1. First \in Ids /\ fate[First] = "event"
    BY OneIsAnswered DEF Pending
  <1>2. First \notin Entered
    BY <1>1, EnteredIsTraded
  <1>3. \A i \in Ids : trade'[i] = IF i = First THEN Bought ELSE trade[i]
    BY <1>1 DEF Buying, Typed
  <1>4. Bought.entry >= 0 /\ Bought.exit < 0
    BY DEF Bought, NoTrade, Typed
  <1>5. Entered' = Entered \cup {First}
    BY <1>1, <1>3, <1>4 DEF Entered
  <1>6. OpenTrades' = OpenTrades \cup {First}
    <2>1. OpenTrades' = {i \in Entered' : trade'[i].exit < 0}
      BY DEF OpenTrades
    <2>2. \A i \in Entered : trade'[i] = trade[i]
      BY <1>2, <1>3 DEF Entered
    <2>3. trade'[First].exit < 0
      BY <1>1, <1>3, <1>4
    <2> QED BY <1>2, <1>5, <2>1, <2>2, <2>3 DEF OpenTrades
  <1>7. Closed' = Closed
    <2>1. First \notin Closed /\ Closed' = Entered' \ OpenTrades'
      BY <1>2 DEF Closed
    <2> QED BY <1>2, <1>5, <1>6, <2>1 DEF Closed, OpenTrades
  <1>8. \A i \in Entered : trade'[i] = trade[i]
    BY <1>2, <1>3 DEF Entered
  <1> QED BY <1>1, <1>2, <1>5, <1>6, <1>7, <1>8

LEMMA SellingMoves ==
  ASSUME Typed, Usable, Kept, Selling
  PROVE  /\ Entered' = Entered /\ OpenTrades' = OpenTrades \ Due
         /\ Closed' = Closed \cup Due /\ Closed \cap Due = {} /\ Due \subseteq OpenTrades
         /\ \A i \in Closed : trade'[i].proceeds = trade[i].proceeds
         /\ \A i \in Due : trade'[i].proceeds = Got[i]
  <1>1. Due \subseteq OpenTrades /\ OpenTrades \subseteq Entered /\ Entered \subseteq Ids
    BY FiniteTrades DEF Due
  <1>2. \A i \in Ids : /\ trade'[i].entry = trade[i].entry
                       /\ trade'[i].exit = IF i \in Due THEN now + Hour ELSE trade[i].exit
                       /\ trade'[i].proceeds = IF i \in Due THEN Got[i] ELSE trade[i].proceeds
    <2>1. \A i \in Ids : trade[i] \in [entry : Int, quantity : Nat, exit : Int, proceeds : Nat]
      BY DEF Typed
    <2>2. \A i \in Ids : trade'[i] = IF i \in Due
              THEN [trade[i] EXCEPT !.exit = now + Hour, !.proceeds = Got[i]]
              ELSE trade[i]
      BY DEF Selling
    <2> QED BY <2>1, <2>2
  <1>3. Entered' = Entered
    BY <1>2 DEF Entered
  <1>4. now + Hour >= 0
    BY Settings DEF Typed
  <1>5. OpenTrades' = OpenTrades \ Due
    <2>1. OpenTrades' = {i \in Entered' : trade'[i].exit < 0}
      BY DEF OpenTrades
    <2>2. \A i \in Entered : trade'[i].exit < 0 <=> trade[i].exit < 0 /\ i \notin Due
      <3>1. now + Hour \in Int /\ ~(now + Hour < 0)
        BY Settings DEF Typed
      <3> QED BY <1>1, <1>2, <3>1
    <2> QED BY <1>3, <2>1, <2>2 DEF OpenTrades
  <1>6. Closed' = Closed \cup Due /\ Closed \cap Due = {}
    BY <1>1, <1>3, <1>5 DEF Closed
  <1>7. Closed \subseteq Ids /\ Due \subseteq Ids
    BY <1>1 DEF Closed
  <1> QED BY <1>1, <1>2, <1>3, <1>5, <1>6, <1>7

LEMMA TradesStay ==
  ASSUME Next, ~Buying, ~Selling
  PROVE  /\ trade' = trade /\ cash' = cash
         /\ Entered' = Entered /\ OpenTrades' = OpenTrades /\ Closed' = Closed
  <1>1. trade' = trade /\ cash' = cash
    BY Steps DEF Reading, Stopping, Marking, Skipping, Quiet
  <1> QED BY <1>1 DEF Entered, OpenTrades, Closed

LEMMA OneEachStep ==
  ASSUME Typed, Usable, Kept, OneEach, Next PROVE OneEach'
  <1>1. input' = input
    BY SettingStays
  <1>2. CASE Buying
    <2>1. input[First].symbol \notin Held
      BY <1>2 DEF Buying, Answer
    <2>2. \A i \in OpenTrades : input[i].symbol # input[First].symbol
      BY <2>1 DEF Held
    <2> QED BY <1>1, <1>2, <2>2, BuyingAdds DEF OneEach
  <1>3. CASE Selling
    BY <1>1, <1>3, SellingMoves DEF OneEach
  <1>4. CASE ~Buying /\ ~Selling
    BY <1>1, <1>4, TradesStay DEF OneEach
  <1> QED BY <1>2, <1>3, <1>4

Proceeds == [i \in Closed |-> trade[i].proceeds]

LEMMA ProceedsAreWhole ==
  ASSUME Typed
  PROVE  /\ DOMAIN Proceeds = Closed /\ \A i \in Closed : Proceeds[i] \in Nat
         /\ SumFunction(Proceeds) = SumFunctionOnSet(Proceeds, Closed)
         /\ SumFunction(Proceeds) \in Nat
  <1>1. DOMAIN Proceeds = Closed /\ \A i \in Closed : Proceeds[i] \in Nat
    BY FiniteTrades DEF Proceeds, Typed
  <1>2. SumFunction(Proceeds) = SumFunctionOnSet(Proceeds, Closed)
    BY <1>1, Zenon DEF SumFunction
  <1> QED BY <1>1, <1>2, FiniteTrades, SumIsNatural

LEMMA SalesAddUp ==
  ASSUME Typed, Usable, Kept, Selling
  PROVE  SumFunction(Proceeds') = SumFunction(Proceeds) + SumFunction(Got)
  <1> DEFINE all == Proceeds'
  <1>1. /\ DOMAIN all = Closed \cup Due
        /\ \A i \in Closed : all[i] = Proceeds[i]
        /\ \A i \in Due : all[i] = Got[i]
    <2>1. all = [i \in Closed' |-> trade'[i].proceeds]
      BY DEF Proceeds
    <2> QED BY <2>1, SellingMoves DEF Proceeds
  <1>2. /\ IsFiniteSet(Closed) /\ IsFiniteSet(Due) /\ Closed \cap Due = {}
        /\ \A i \in Closed : Proceeds[i] \in Nat
        /\ \A i \in Due : Got[i] \in Nat
    BY FiniteTrades, SellingMoves, SalesAreNatural, ProceedsAreWhole
  <1> HIDE DEF all
  <1>3. \A i \in Closed \cup Due : all[i] \in Int
    BY <1>1, <1>2
  <1>4. SumFunction(all) = SumFunctionOnSet(all, Closed \cup Due)
    BY <1>1, Zenon DEF SumFunction
  <1>5. SumFunctionOnSet(all, Closed \cup Due)
          = SumFunctionOnSet(all, Closed) + SumFunctionOnSet(all, Due)
    BY <1>2, <1>3, SumAddsUp
  <1>6. SumFunctionOnSet(all, Closed) = SumFunctionOnSet(Proceeds, Closed)
    BY <1>1, <1>2, SumSeesIndices
  <1>7. SumFunctionOnSet(all, Due) = SumFunctionOnSet(Got, Due)
    BY <1>1, <1>2, SumSeesIndices
  <1>8. SumFunction(all) = SumFunction(Proceeds) + SumFunction(Got)
    BY <1>4, <1>5, <1>6, <1>7, SalesAreNatural, ProceedsAreWhole, Zenon
  <1> QED BY <1>8 DEF all

LEMMA BalancedIs ==
  Balanced <=> /\ cash = InitialCapital - Budget * Cardinality(Entered) + SumFunction(Proceeds)
               /\ Cardinality(OpenTrades) <= MaxPositions
  BY DEF Balanced, Proceeds

LEMMA BalancedStep ==
  ASSUME Typed, Usable, Kept, Balanced, Next PROVE Balanced'
  <1>1. /\ cash = InitialCapital - Budget * Cardinality(Entered) + SumFunction(Proceeds)
        /\ Cardinality(OpenTrades) <= MaxPositions
    BY BalancedIs
  <1>2. SUFFICES /\ cash' = InitialCapital - Budget * Cardinality(Entered') + SumFunction(Proceeds')
                 /\ Cardinality(OpenTrades') <= MaxPositions
    BY DEF Balanced, Proceeds
  <1>3. CASE Buying
    <2>1. Proceeds' = Proceeds
      <3>1. Proceeds' = [i \in Closed' |-> trade'[i].proceeds]
        BY DEF Proceeds
      <3>2. Closed' = Closed /\ \A i \in Closed : trade'[i] = trade[i]
        BY <1>3, BuyingAdds, FiniteTrades
      <3> QED BY <3>1, <3>2 DEF Proceeds
    <2>2. Cardinality(Entered') = Cardinality(Entered) + 1
      BY <1>3, BuyingAdds, FiniteTrades, FS_AddElement
    <2>3. Cardinality(OpenTrades') = Cardinality(OpenTrades) + 1
      BY <1>3, BuyingAdds, FiniteTrades, FS_AddElement
    <2>4. cash' = cash - Budget /\ ~(Cardinality(OpenTrades) >= MaxPositions)
      BY <1>3 DEF Buying, Answer
    <2>5. /\ Budget \in Nat /\ SumFunction(Proceeds) \in Nat /\ Cardinality(Entered) \in Nat
          /\ Cardinality(OpenTrades) \in Nat /\ InitialCapital \in Nat /\ MaxPositions \in Nat
      BY Amounts, ProceedsAreWhole, FiniteTrades, Settings
    <2>6. Budget * (Cardinality(Entered) + 1) = Budget * Cardinality(Entered) + Budget
          /\ Budget * Cardinality(Entered) \in Nat
      BY <2>5
    <2> QED BY <1>1, <2>1, <2>2, <2>3, <2>4, <2>5, <2>6
  <1>4. CASE Selling
    <2>1. SumFunction(Proceeds') = SumFunction(Proceeds) + SumFunction(Got)
      BY <1>4, SalesAddUp
    <2>2. Entered' = Entered /\ cash' = cash + SumFunction(Got)
      BY <1>4, SellingMoves DEF Selling
    <2>3. Cardinality(OpenTrades') <= Cardinality(OpenTrades) /\ Cardinality(OpenTrades') \in Nat
      <3>1. OpenTrades' \subseteq OpenTrades
        BY <1>4, SellingMoves
      <3> QED BY <3>1, FiniteTrades, FS_Subset, FS_CardinalityType
    <2>4. /\ Budget \in Nat /\ SumFunction(Proceeds) \in Nat /\ SumFunction(Got) \in Nat
          /\ Cardinality(Entered) \in Nat /\ Cardinality(OpenTrades) \in Nat
          /\ InitialCapital \in Nat /\ MaxPositions \in Nat
      BY Amounts, ProceedsAreWhole, SalesAreNatural, FiniteTrades, Settings
    <2>5. Budget * Cardinality(Entered) \in Nat
      BY <2>4
    <2> QED BY <1>1, <2>1, <2>2, <2>3, <2>4, <2>5
  <1>5. CASE ~Buying /\ ~Selling
    <2>1. Proceeds' = Proceeds
      BY <1>5, TradesStay DEF Proceeds
    <2> QED BY <1>1, <1>5, <2>1, TradesStay
  <1> QED BY <1>3, <1>4, <1>5

LEMMA BooksAreBalanced ==
  ASSUME Typed, OneEach, Balanced PROVE BooksBalance
  <1> DEFINE f == [i \in OpenTrades |-> input[i].symbol]
  <1>1. f \in Surjection(OpenTrades, Held) /\ f \in Injection(OpenTrades, Held)
    BY DEF Held, OneEach, Surjection, Injection, IsInjective
  <1>2. Cardinality(Held) = Cardinality(OpenTrades)
    <2> HIDE DEF f
    <2> QED BY <1>1, FiniteTrades, FS_Surjection
  <1>3. cash >= 0
    BY DEF Typed
  <1> QED BY <1>2, <1>3 DEF BooksBalance, Balanced, Closed

-----------------------------------------------------------------------------
(* What the trades before a signal left of the capital.                    *)

Paid(i) == [j \in Sooner(i) \ Met(i) |-> trade[j].proceeds]

LEMMA CashLeftIs ==
  ASSUME NEW i
  PROVE  CashLeft(i) = InitialCapital - Budget * Cardinality(Sooner(i)) + SumFunction(Paid(i))
  BY DEF CashLeft, Paid

(* When its turn comes that is the cash there is.                          *)
LEMMA CashLeftNow ==
  ASSUME Typed, Usable, Phased, Ordered, Kept, Balanced, Skipping \/ Buying
  PROVE  CashLeft(First) = cash
  <1>1. Sooner(First) = Entered /\ Sooner(First) \ Met(First) = Closed
    BY MeetsOpen DEF Closed
  <1>2. Paid(First) = Proceeds
    BY <1>1 DEF Paid, Proceeds
  <1> QED BY <1>1, <1>2, CashLeftIs, BalancedIs

(* And it stays so: what was sold is not sold again.                       *)
LEMMA CashLeftStays ==
  ASSUME Typed, Usable, Phased, Ordered, Kept, Next, NEW i \in Asked'
  PROVE  CashLeft(i)' = CashLeft(i)
  <1> DEFINE sold == Sooner(i) \ Met(i)
  <1>1. Sooner(i)' = Sooner(i) /\ Met(i)' = Met(i)
    BY MetStays
  <1>2. sold \subseteq Closed
    BY MetIs, FiniteTrades
  <1>3. \A j \in sold : trade'[j].proceeds = trade[j].proceeds
    <2>1. CASE Buying
      BY <1>2, <2>1, BuyingAdds, FiniteTrades
    <2>2. CASE Selling
      BY <1>2, <2>2, SellingMoves
    <2>3. CASE ~Buying /\ ~Selling
      BY <2>3, TradesStay
    <2> QED BY <2>1, <2>2, <2>3
  <1>4. Paid(i)' = Paid(i)
    <2>1. Paid(i)' = [j \in sold |-> trade'[j].proceeds]
      BY <1>1 DEF Paid
    <2> HIDE DEF sold
    <2>2. [j \in sold |-> trade'[j].proceeds] = [j \in sold |-> trade[j].proceeds]
      BY <1>3
    <2> QED BY <2>1, <2>2 DEF Paid, sold
  <1>5. CashLeft(i)' = InitialCapital - Budget * Cardinality(Sooner(i)') + SumFunction(Paid(i)')
    BY DEF CashLeft, Paid
  <1> QED BY <1>1, <1>4, <1>5, CashLeftIs

Explained(i) ==
  LET twin == \E j \in Met(i) : input[j].symbol = input[i].symbol
      full == Cardinality(Met(i)) >= MaxPositions
      poor == CashLeft(i) < Budget IN
  /\ fate[i] = "position_open" => twin
  /\ fate[i] = "position_limit" => full /\ ~twin
  /\ fate[i] = "insufficient_cash" => poor /\ ~full /\ ~twin
  /\ fate[i] = "entered" => ~poor /\ ~full /\ ~twin

LEMMA SkipsStep ==
  ASSUME Typed, Usable, Phased, Ordered, Kept, Balanced, SkipsExplained, Next
  PROVE  SkipsExplained'
  <1>1. SUFFICES ASSUME NEW i \in Ids PROVE Explained(i)'
    BY DEF SkipsExplained, Explained
  <1>2. Explained(i) /\ input' = input
    BY SettingStays DEF SkipsExplained, Explained
  <1>3. CASE i \in Asked
    <2>1. i \in Asked' /\ fate'[i] = fate[i]
      BY <1>3, OneIsAnswered, OthersKeepFates DEF Typed
    <2>2. Met(i)' = Met(i) /\ CashLeft(i)' = CashLeft(i)
      BY <2>1, MetStays, CashLeftStays
    <2> QED BY <1>2, <2>1, <2>2 DEF Explained
  <1>4. CASE i \notin Asked /\ i \notin Asked'
    BY <1>4 DEF Asked, Answers, Explained
  <1>5. CASE i \notin Asked /\ i \in Asked'
    <2>1. (Skipping \/ Buying) /\ i = First
      BY <1>5, OneIsAnswered, OthersKeepFates
    <2>2. Met(i)' = OpenTrades /\ CashLeft(i)' = cash
      BY <1>5, <2>1, MetStays, MeetsOpen, CashLeftStays, CashLeftNow
    <2>3. fate'[i] = Answer(i)
      BY <2>1, OneIsAnswered DEF Typed
    <2>4. input[i].symbol \in Held <=> \E j \in OpenTrades : input[j].symbol = input[i].symbol
      BY DEF Held
    <2>5. Cardinality(OpenTrades) \in Nat /\ MaxPositions \in Nat
      <3>1. IsFiniteSet(OpenTrades)
        BY Settings, FS_Subset DEF OpenTrades, Entered
      <3> QED BY <3>1, FS_CardinalityType, Settings
    <2> QED BY <1>2, <2>2, <2>3, <2>4, <2>5 DEF Explained, Answer
  <1> QED BY <1>3, <1>4, <1>5

-----------------------------------------------------------------------------
LEMMA Starts ==
  ASSUME Init PROVE Inv
  <1>1. Typed /\ Usable /\ Phased /\ Ordered /\ Kept
    BY Begins
  <1>2. Entered = {} /\ OpenTrades = {} /\ Closed = {}
    BY DEF Entered, OpenTrades, Closed, Init, NoTrade
  <1>3. OneEach
    BY <1>2 DEF OneEach
  <1>4. SkipsExplained
    <2>1. Asked = {}
      <3>1. \A i \in Ids : fate[i] = IF Loaded(input[i]) THEN Screened(input[i]) ELSE "not_loaded"
        BY DEF Init
      <3>2. \A i \in Ids : fate[i] \notin Answers
        BY <3>1, Zenon DEF Screened, Answers
      <3> QED BY <3>2 DEF Asked
    <2>2. \A i \in Ids : fate[i] \notin {"position_open", "position_limit", "insufficient_cash", "entered"}
      BY <2>1 DEF Asked, Answers
    <2> QED BY <2>2 DEF SkipsExplained
  <1>5. Balanced
    <2>1. Cardinality(Entered) = 0 /\ Cardinality(OpenTrades) = 0
      BY <1>2, FS_EmptySet
    <2>2. SumFunction(Proceeds) = 0
      <3>1. SumFunctionOnSet(Proceeds, Closed) = 0
        BY <1>2, FiniteTrades, SumUnfolds
      <3> QED BY <1>1, <3>1, ProceedsAreWhole
    <2>3. cash = InitialCapital - Budget * 0 + 0
      BY Amounts, Settings DEF Init
    <2> QED BY <2>1, <2>2, <2>3, BalancedIs, Settings
  <1>6. Charted
    <2>1. /\ curve = <<InitialCapital>> /\ peak = InitialCapital
          /\ worst = <<InitialCapital, InitialCapital>>
      BY DEF Init
    <2>2. DOMAIN curve = {1} /\ curve[1] = InitialCapital /\ curve \in Seq(Nat)
      BY <2>1, Settings
    <2>3. InitialCapital * InitialCapital \in Nat /\ worst[1] = InitialCapital /\ worst[2] = InitialCapital
      BY <2>1, Settings
    <2>4. DrawdownIsWorst
      <3>1. \A i, j \in DOMAIN curve : i <= j => curve[j] * worst[1] >= worst[2] * curve[i]
        BY <2>2, <2>3, Settings
      <3>2. \E i, j \in DOMAIN curve : i <= j /\ worst = <<curve[i], curve[j]>>
        BY <2>1, <2>2
      <3> QED BY <3>1, <3>2 DEF DrawdownIsWorst
    <2> QED BY <2>1, <2>2, <2>4, Settings DEF Charted
  <1> QED BY <1>1, <1>3, <1>4, <1>5, <1>6 DEF Inv

LEMMA Continues ==
  ASSUME Inv, [Next]_vars PROVE Inv'
  <1> USE DEF Inv
  <1>1. CASE Next
    BY <1>1, TypedStep, UsableStep, PhasedStep, OrderedStep, KeptStep, OneEachStep, SkipsStep,
       BalancedStep, ChartGrows
  <1>2. CASE UNCHANGED vars
    <2>1. UNCHANGED <<input, delivered, fate, now, phase, bar, cash, trade, curve, peak, worst>>
      BY <1>2 DEF vars, setting, book, marks
    <2>2. \A i : Known(i)' = Known(i) /\ At(i)' = At(i)
      BY <2>1 DEF Known, At, Available, Entry
    <2>3. Entered' = Entered /\ OpenTrades' = OpenTrades /\ Closed' = Closed
          /\ Pending' = Pending /\ Asked' = Asked
      BY <2>1 DEF Entered, OpenTrades, Closed, Pending, Asked
    <2>4. Typed' /\ Usable' /\ Phased'
      BY <2>1, <2>2, <2>3 DEF Typed, Usable, Phased
    <2>5. Ordered' /\ Kept' /\ OneEach'
      BY <2>1, <2>2, <2>3 DEF Ordered, Kept, OneEach, Before
    <2>6. SkipsExplained'
      <3>1. \A i : Met(i)' = Met(i) /\ Sooner(i)' = Sooner(i)
        BY <2>1, <2>3 DEF Met, Sooner, Turn, Available
      <3>2. \A i : CashLeft(i)' = CashLeft(i)
        BY <2>1, <3>1 DEF CashLeft
      <3> QED BY <2>1, <3>1, <3>2 DEF SkipsExplained
    <2>7. Balanced' /\ Charted'
      BY <2>1, <2>3 DEF Balanced, Charted, DrawdownIsWorst
    <2> QED BY <2>4, <2>5, <2>6, <2>7
  <1> QED BY <1>1, <1>2

-----------------------------------------------------------------------------
(* The invariant every theorem below rests on.                             *)
THEOREM Invariance == Spec => []Inv
  <1> QED BY Starts, Continues, PTL DEF Spec

(* The query of load_inputs leaves out nothing the engine would use.       *)
THEOREM SelectionMisses == Spec => []UsableIsLoaded
  <1>1. Inv => UsableIsLoaded
    BY UsableLoads DEF Inv, Typed
  <1> QED BY <1>1, Invariance, PTL

(* Cash, positions and proceeds add up in every state of the replay.       *)
THEOREM BooksAreKept == Spec => []BooksBalance
  <1>1. Inv => BooksBalance
    BY BooksAreBalanced DEF Inv
  <1> QED BY <1>1, Invariance, PTL

(* A signal is skipped only for what was there before it: its own pair     *)
(* held, too many positions, or too little left of the capital.            *)
THEOREM FirstComeFirstServed == Spec => []SkipsExplained
  <1>1. Inv => SkipsExplained
    BY DEF Inv
  <1> QED BY <1>1, Invariance, PTL

(* Trades start and end in their hours, and no signal is left unanswered.  *)
THEOREM NobodyTradesEarly == Spec => []TradesOnTime
  <1>1. Inv => TradesOnTime
    BY TradesAreTimed DEF Inv
  <1> QED BY <1>1, Invariance, PTL

(* The drawdown is the deepest fall of the curve, whatever the prices.     *)
THEOREM DrawdownIsDeepest == Spec => []DrawdownIsWorst
  <1>1. Inv => DrawdownIsWorst
    BY DEF Inv, Charted
  <1> QED BY <1>1, Invariance, PTL

=============================================================================
