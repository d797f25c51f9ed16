------------------------- MODULE DerivedTradesProofs -------------------------
(***************************************************************************)
(* Proofs about DerivedTrades for every list of venues and timeframes,     *)
(* every set of trade ids, division of them into buckets and lookback, and *)
(* every bound: any number of deliveries, days, kills and rebuilds.        *)
(***************************************************************************)
EXTENDS DerivedTrades, TLAPS, WellFoundedInduction, FiniteSetTheorems

-----------------------------------------------------------------------------
(* What a venue's stream of deliveries is like, external to the lake *)

Sent(v, m, n) == heard[v][m].id = heard[v][n].id
First(v, n)   == \A m \in 1..(n - 1) : ~Sent(v, m, n)

HeardInv ==
  /\ today <= events
  /\ \A v \in Venue : \A n \in DOMAIN heard[v] :
       /\ heard[v][n].day <= today
       /\ \A m \in 1..n : heard[v][m].day <= heard[v][n].day
       /\ ~First(v, n) => \E m \in 1..(n - 1) :
                            Sent(v, m, n) /\ heard[v][n].day <= heard[v][m].day + MaxResend

-----------------------------------------------------------------------------
(* What a process still has to do, in an order that makes up for what it has done *)

Has(jobs, what, t) == [do |-> what, on |-> t] \in jobs
Planned(what, t) == Has(Range(todo), what, t)

\* The stages of a list come in this order, whichever of them it has.
Rank(j) ==
  CASE j.do = "drop"   -> IF j.on = Trades THEN 0 ELSE 1
    [] j.do = "create" -> 2
    [] j.do = "type"   -> 3
    [] j.do = "replay" -> 4
    [] j.do = "add"    -> 5
    [] j.do = "merge"  -> 6
    [] j.do = "delete" -> 7
    [] j.do = "append" -> 8
    [] j.do = "fill"   -> 9

InOrder(plan) == \A i, k \in DOMAIN plan : i < k => Rank(plan[i]) <= Rank(plan[k])

\* A job comes with those that make up for it.
Complete(jobs) ==
  \A j \in jobs :
    /\ j.do \in {"type", "add", "replay"} => j.on \in Venue
    /\ j.do \in {"merge", "fill"} => j.on \in Derived
    /\ j.do \in {"delete", "append"} => j.on = Bars
    /\ j.do = "add" => \A d \in Derived :
         Has(jobs, "fill", d) \/ Has(jobs, IF d = Bars THEN "delete" ELSE "merge", d)
    /\ j.do = "drop" /\ j.on \in Derived => Has(jobs, "fill", j.on)
    /\ j.do = "drop" /\ j.on = Trades => \A d \in Derived : Has(jobs, "drop", d)
    /\ j.do = "delete" => Has(jobs, "append", Bars)
    /\ j.do = "append" => \A k \in jobs : k.do # "fill"
    /\ j.do = "replay" => \A k \in jobs : k.do # "type"

IsPlan(plan) == plan \in Seq(Job) /\ InOrder(plan) /\ Complete(Range(plan))

-----------------------------------------------------------------------------
(* Silver: the rows of a venue are its deliveries, each once *)

RowsOf(v, rows) ==
  \A r \in rows : /\ r.n \in 1..silver[v].at
                  /\ r.id = heard[v][r.n].id /\ r.day = heard[v][r.n].day

Typed(v, n) == \E r \in SilverRows(v) : r.n = n
Covered(v)  == \A n \in 1..silver[v].at : Typed(v, n)
\* A rebuild goes by whole days.
ByDay(v) == \A n \in DOMAIN heard[v] : heard[v][n].day \in {r.day : r \in SilverRows(v)} => Typed(v, n)

SilverInv ==
  \A v \in Venue :
    /\ silver[v].gen > 0
    /\ silver[v].at <= Len(heard[v])
    /\ silver[v].commits = <<>> => silver[v].at = 0
    /\ RowsOf(v, SilverRows(v))
    /\ \A i, j \in DOMAIN silver[v].commits :
         \A r \in silver[v].commits[i], q \in silver[v].commits[j] :
           r.n = q.n => i = j /\ r = q

CoverInv ==
  \A v \in Venue :
    /\ v \notin torn /\ ~Due("replay", v) => Covered(v)
    /\ Planned("replay", v) /\ ~Planned("drop", v) => v \notin torn /\ ByDay(v)

FlagInv ==
  \A v \in Venue \ torn : \A r \in SilverRows(v) : r.replay <=> ~First(v, r.n)

\* Silver has whatever was delivered before a row that it has.
NoHoles(v) == \A r \in SilverRows(v) : \A m \in 1..(r.n - 1) : Typed(v, m)

\* The next lower trade than that of a row, among those delivered up to a point.
IsBelow(v, r, m, end) ==
  /\ m \in 1..end /\ heard[v][m].id < r.id
  /\ \A k \in 1..end : heard[v][k].id < r.id => heard[v][k].id <= heard[v][m].id

Gap(v, r, end) ==
  /\ (\A m \in 1..end : ~(heard[v][m].id < r.id)) => r.missing = Unknown
  /\ \A m : IsBelow(v, r, m, end) /\ r.day - heard[v][m].day <= Lookback
              => r.missing = r.id - heard[v][m].id - 1

Gaps(v, rows) == \A r \in rows : ~r.replay => Gap(v, r, End(rows))

GapInv ==
  \A v \in Venue \ torn :
    NoHoles(v) /\ \A i \in DOMAIN silver[v].commits : Gaps(v, silver[v].commits[i])

-----------------------------------------------------------------------------
(* Gold: the originals of the silver commits up to the position, each once *)

Projected(v, rows) == {[venue |-> v, n |-> r.n, id |-> r.id] : r \in rows}

GoldInv ==
  /\ \A i, j \in DOMAIN gold : i # j => gold[i] \cap gold[j] = {}
  /\ \A v \in Venue :
       /\ position[v].gen <= silver[v].gen
       /\ position[v] = NoPosition => GoldOf(v) = {}
       /\ position[v].gen = silver[v].gen =>
            /\ position[v].snapshot <= Len(silver[v].commits)
            /\ GoldOf(v) = Projected(v, FirstDeliveries(v))

-----------------------------------------------------------------------------
(* Candles and bars *)

\* A bucket is right, or the process will see to it, or one that was cut owed it.
FollowInv ==
  \A t \in Derived, k \in Key :
    \/ stored[t][k] = Computed(t, k)
    \/ <<t, k>> \in owed
    \/ Planned("fill", t)
    \/ (Planned("merge", t) \/ Planned("append", t)) /\ k \in Touched(t)

\* What is filled, or appended to, has nothing in it that is not right.
FillInv ==
  \A t \in Derived : Planned("fill", t) /\ ~Planned("drop", t) =>
    \A k \in Key : stored[t][k] \subseteq Computed(t, k)

AppendInv ==
  Planned("append", Bars) /\ ~Planned("delete", Bars) =>
    \A k \in Touched(Bars) : stored[Bars][k] \subseteq Computed(Bars, k)

\* A rebuild that was cut between two days has passed deliveries that it did not type.
TornInv ==
  \A v \in Venue :
    /\ Planned("replay", v) /\ ~Planned("drop", v) /\ silver[v].commits # <<>>
         => silver[v].at = Len(heard[v])
    /\ v \in torn => \E n \in 1..silver[v].at : ~Typed(v, n)

PlanInv == IsPlan(todo)
LakeInv == TypeOK /\ PlanInv /\ HeardInv /\ SilverInv
TablesInv == FollowInv /\ FillInv /\ AppendInv

\* FlagInv is apart: it alone asks how late a venue re-sends.
IInv == LakeInv /\ CoverInv /\ GapInv /\ GoldInv /\ TablesInv

-----------------------------------------------------------------------------
(* Numbers, lists and constants *)

LEMMA NatMin ==
  ASSUME NEW T \in SUBSET Nat, T # {}
  PROVE  Min(T) \in T /\ \A y \in T : Min(T) <= y
<1> DEFINE R == {p \in Nat \X Nat : p[1] < p[2]}
<1>1. IsWellFoundedOn(R, Nat)
  BY NatLessThanWellFounded DEF OpToRel
<1>2. \A x, y \in Nat : <<y, x>> \in R <=> y < x
  OBVIOUS
<1> HIDE DEF R
<1>3. PICK x \in T : \A y \in T : <<y, x>> \notin R
  BY <1>1, WFMin
<1>4. \A y \in T : ~(y < x)
  BY <1>2, <1>3
<1>5. \A y \in T : x <= y
  BY <1>4
<1>6. QED BY <1>5 DEF Min

LEMMA NatMax ==
  ASSUME NEW n \in Nat, NEW T \in SUBSET Nat, T # {}, \A x \in T : x <= n
  PROVE  Max(T) \in T /\ \A y \in T : y <= Max(T)
<1> DEFINE U == {n - x : x \in T}
<1>1. U \in SUBSET Nat
  <2>1. \A x \in T : n - x \in Nat
    OBVIOUS
  <2>2. QED BY <2>1
<1>2. U # {}
  <2>1. PICK x \in T : TRUE
    OBVIOUS
  <2>2. n - x \in U
    OBVIOUS
  <2>3. QED BY <2>2
<1>3. PICK u \in U : \A w \in U : u <= w
  <2> HIDE DEF U
  <2>1. QED BY <1>1, <1>2, NatMin
<1>4. PICK x \in T : u = n - x
  BY <1>3
<1>5. \A y \in T : x >= y
  <2> TAKE y \in T
  <2>1. n - x <= n - y
    BY <1>3, <1>4
  <2>2. x \in Nat /\ y \in Nat
    OBVIOUS
  <2>3. QED BY <2>1, <2>2
<1>6. Max(T) \in T /\ \A y \in T : Max(T) >= y
  BY <1>5 DEF Max
<1>7. QED BY <1>6

LEMMA Constants ==
  /\ Venues \in Seq(Venue) /\ Timeframes \in Seq(Frames)
  /\ Ids \subseteq Nat /\ Lookback \in Nat /\ MaxResend \in Nat /\ MaxEvents \in Nat
  /\ Trades \notin Derived /\ Trades \notin Venue /\ Venue \cap Derived = {}
  /\ Bars \in Derived /\ Bars \notin Frames /\ Derived = Frames \cup {Bars}
BY DerivedConstants DEF DerivedConstants, Derived

\* The bucket of a row is a key.
LEMMA KeyFacts ==
  ASSUME NEW t \in Derived, NEW row \in GoldRow
  PROVE  KeyOf(t, row) \in Key
<1>1. row.venue \in Venue /\ row.id \in Ids
  BY DEF GoldRow
<1>2. BucketOf[t][row.id] \in Range(BucketOf[t])
  BY <1>1, DerivedConstants DEF DerivedConstants, Range
<1>3. QED BY <1>1, <1>2 DEF KeyOf, Key, Bucket

LEMMA KeysFacts ==
  ASSUME NEW t \in Derived, NEW rows \in SUBSET GoldRow
  PROVE  KeysOf(t, rows) \subseteq Key
BY KeyFacts DEF KeysOf

LEMMA RangeUnion ==
  ASSUME NEW A, NEW q \in Seq(SUBSET A)
  PROVE  UNION Range(q) \subseteq A
<1>1. \A i \in DOMAIN q : q[i] \subseteq A
  OBVIOUS
<1>2. QED BY <1>1 DEF Range

\* What a list holds one place longer.
LEMMA AppendFacts ==
  ASSUME NEW A, NEW q \in Seq(A), NEW x \in A
  PROVE  /\ Append(q, x) \in Seq(A) /\ Len(Append(q, x)) = Len(q) + 1
         /\ DOMAIN Append(q, x) = 1..(Len(q) + 1) /\ DOMAIN q = 1..Len(q)
         /\ \A i \in 1..Len(q) : Append(q, x)[i] = q[i]
         /\ Append(q, x)[Len(q) + 1] = x
         /\ Range(Append(q, x)) = Range(q) \cup {x}
<1>1. /\ Append(q, x) \in Seq(A) /\ Len(Append(q, x)) = Len(q) + 1 /\ Len(q) \in Nat
      /\ DOMAIN Append(q, x) = 1..(Len(q) + 1) /\ DOMAIN q = 1..Len(q)
      /\ \A i \in 1..Len(q) : Append(q, x)[i] = q[i]
      /\ Append(q, x)[Len(q) + 1] = x
  OBVIOUS
<1>2. \A i \in 1..(Len(q) + 1) : i \in 1..Len(q) \/ i = Len(q) + 1
  BY <1>1
<1>3. \A i \in 1..Len(q) : i \in 1..(Len(q) + 1)
  BY <1>1
<1>4. Len(q) + 1 \in 1..(Len(q) + 1)
  BY <1>1
<1>5. Range(Append(q, x)) = Range(q) \cup {x}
  BY <1>1, <1>2, <1>3, <1>4 DEF Range
<1>6. QED BY <1>1, <1>5

LEMMA TailFacts ==
  ASSUME NEW A, NEW q \in Seq(A), q # <<>>
  PROVE  /\ Tail(q) \in Seq(A) /\ Head(q) = q[1] /\ Len(Tail(q)) = Len(q) - 1
         /\ 1 \in DOMAIN q /\ DOMAIN q = 1..Len(q) /\ DOMAIN Tail(q) = 1..(Len(q) - 1)
         /\ Len(q) \in Nat /\ Len(q) >= 1
         /\ \A i \in 1..(Len(q) - 1) : Tail(q)[i] = q[i + 1] /\ i + 1 \in DOMAIN q
         /\ Range(q) = {Head(q)} \cup Range(Tail(q))
<1>1. /\ Tail(q) \in Seq(A) /\ Head(q) = q[1] /\ Len(Tail(q)) = Len(q) - 1
      /\ 1 \in DOMAIN q /\ DOMAIN q = 1..Len(q) /\ DOMAIN Tail(q) = 1..(Len(q) - 1)
      /\ Len(q) \in Nat /\ Len(q) >= 1
      /\ \A i \in 1..(Len(q) - 1) : Tail(q)[i] = q[i + 1] /\ i + 1 \in DOMAIN q
  OBVIOUS
<1>2. \A i \in 1..Len(q) : i = 1 \/ (i - 1 \in 1..(Len(q) - 1) /\ (i - 1) + 1 = i)
  BY <1>1
<1>3. \A i \in DOMAIN q : q[i] = Head(q) \/ \E k \in DOMAIN Tail(q) : q[i] = Tail(q)[k]
  BY <1>1, <1>2
<1>4. \A k \in DOMAIN Tail(q) : \E i \in DOMAIN q : Tail(q)[k] = q[i]
  BY <1>1
<1>5. Range(q) = {Head(q)} \cup Range(Tail(q))
  <2>1. Range(q) \subseteq {Head(q)} \cup Range(Tail(q))
    BY <1>3 DEF Range
  <2>2. Range(Tail(q)) \subseteq Range(q)
    BY <1>4, Zenon DEF Range
  <2>3. Head(q) \in Range(q)
    BY <1>1 DEF Range
  <2>4. QED BY <2>1, <2>2, <2>3
<1>6. QED BY <1>1, <1>5

-----------------------------------------------------------------------------
(* Scoring a batch *)

Row == [n : Nat, id : Ids, day : 0..MaxEvents]

\* The rows of some deliveries are those deliveries.
RowsAt(v, ns, rows) ==
  /\ rows \subseteq Row
  /\ \A r \in rows : r.n \in ns /\ r.id = heard[v][r.n].id /\ r.day = heard[v][r.n].day
  /\ \A n \in ns : \E r \in rows : r.n = n
  /\ \A r, q \in rows : r.n = q.n => r = q

LEMMA RowsFacts ==
  ASSUME TypeOK, NEW v \in Venue, NEW ns \in SUBSET DOMAIN heard[v]
  PROVE  RowsAt(v, ns, Rows(v, ns))
<1>1. heard[v] \in Seq(Delivery)
  BY DEF TypeOK
<1>2. \A n \in ns : n \in Nat /\ heard[v][n] \in Delivery
  BY <1>1
<1>3. \A n \in ns : [n |-> n, id |-> heard[v][n].id, day |-> heard[v][n].day] \in Row
  BY <1>2 DEF Row, Delivery
<1>4. Rows(v, ns) \subseteq Row
  BY <1>3 DEF Rows
<1>5. \A r \in Rows(v, ns) : r.n \in ns /\ r.id = heard[v][r.n].id /\ r.day = heard[v][r.n].day
  BY DEF Rows
<1>6. ASSUME NEW n \in ns PROVE \E r \in Rows(v, ns) : r.n = n
  <2>1. [n |-> n, id |-> heard[v][n].id, day |-> heard[v][n].day] \in Rows(v, ns)
    BY DEF Rows
  <2>2. QED BY <2>1
<1>7. \A r, q \in Rows(v, ns) : r.n = q.n => r = q
  BY DEF Rows
<1>8. QED BY <1>4, <1>5, <1>6, <1>7 DEF RowsAt

Lower(r, both) == {q.id : q \in {p \in both : ~IsReplay(p, both) /\ p.id < r.id}}

LEMMA LowerFacts ==
  ASSUME NEW both \in SUBSET Row, NEW r \in Row, Lower(r, both) # {}
  PROVE  /\ Max(Lower(r, both)) \in Lower(r, both) /\ Lower(r, both) \subseteq Nat
         /\ \A i \in Lower(r, both) : i <= Max(Lower(r, both)) /\ i < r.id
<1>1. \A q \in both : q.id \in Nat
  BY Constants DEF Row
<1>2. \A i \in Lower(r, both) : i \in Nat /\ i < r.id
  BY <1>1 DEF Lower
<1>3. r.id \in Nat
  BY Constants DEF Row
<1>4. Lower(r, both) \in SUBSET Nat /\ \A i \in Lower(r, both) : i <= r.id
  BY <1>2, <1>3
<1>5. QED BY <1>2, <1>3, <1>4, NatMax

LEMMA MissingType ==
  ASSUME NEW both \in SUBSET Row, NEW r \in Row
  PROVE  Missing(r, both) \in {Unknown} \cup Nat
<1>1. CASE IsReplay(r, both) \/ Lower(r, both) = {}
  BY <1>1 DEF Missing, Lower
<1>2. CASE ~IsReplay(r, both) /\ Lower(r, both) # {}
  <2>1. Max(Lower(r, both)) \in Nat /\ Max(Lower(r, both)) < r.id
    BY <1>2, LowerFacts
  <2>2. r.id \in Nat
    BY Constants DEF Row
  <2>3. r.id - Max(Lower(r, both)) - 1 \in Nat
    BY <2>1, <2>2
  <2>4. Missing(r, both) = r.id - Max(Lower(r, both)) - 1
    BY <1>2 DEF Missing, Lower
  <2>5. QED BY <2>3, <2>4
<1>3. QED BY <1>1, <1>2

\* What a batch is compared with: itself, and the rows of silver looked up.
Both(batch, lookback) == batch \cup {[n |-> r.n, id |-> r.id, day |-> r.day] : r \in lookback}

LEMMA BothFacts ==
  ASSUME NEW batch \in SUBSET Row, NEW lookback \in SUBSET SilverRow
  PROVE  Both(batch, lookback) \in SUBSET Row
<1>1. \A r \in lookback : [n |-> r.n, id |-> r.id, day |-> r.day] \in Row
  BY DEF SilverRow, Row
<1>2. QED BY <1>1 DEF Both

\* A scored row is a row of the batch with its flag and its gap.
IsScore(batch, both, rows) ==
  /\ \A r \in rows : \E b \in batch :
       /\ r.n = b.n /\ r.id = b.id /\ r.day = b.day
       /\ r.replay = IsReplay(b, both) /\ r.missing = Missing(b, both)
  /\ \A b \in batch : \E r \in rows : r.n = b.n /\ r.day = b.day
  /\ rows \subseteq SilverRow

LEMMA ScoreFacts ==
  ASSUME NEW batch \in SUBSET Row, NEW lookback \in SUBSET SilverRow
  PROVE  IsScore(batch, Both(batch, lookback), Score(batch, lookback))
<1> DEFINE both == Both(batch, lookback)
           scored(r) == [n |-> r.n, id |-> r.id, day |-> r.day,
                         replay |-> IsReplay(r, both), missing |-> Missing(r, both)]
<1>1. Score(batch, lookback) = {scored(r) : r \in batch}
  BY DEF Score, Both
<1>2. both \in SUBSET Row
  BY BothFacts
<1>3. ASSUME NEW b \in batch PROVE scored(b) \in SilverRow
  <2>1. b \in Row /\ IsReplay(b, both) \in BOOLEAN
    BY DEF IsReplay
  <2>2. Missing(b, both) \in {Unknown} \cup Nat
    BY <1>2, MissingType
  <2>3. b.n \in Nat /\ b.id \in Ids /\ b.day \in 0..MaxEvents
    BY <2>1 DEF Row
  <2>4. QED BY <2>1, <2>2, <2>3 DEF SilverRow
<1>4. Score(batch, lookback) \subseteq SilverRow
  BY <1>1, <1>3
<1>5. \A b \in batch : /\ scored(b).n = b.n /\ scored(b).id = b.id /\ scored(b).day = b.day
                       /\ scored(b).replay = IsReplay(b, both) /\ scored(b).missing = Missing(b, both)
  OBVIOUS
<1> HIDE DEF scored
<1>6. QED BY <1>1, <1>4, <1>5 DEF IsScore

-----------------------------------------------------------------------------
(* Types *)

LEMMA SilverFacts ==
  ASSUME TypeOK, NEW v \in Venue
  PROVE  /\ silver[v] \in [gen : Nat, at : Nat, commits : Seq(SUBSET SilverRow)]
         /\ silver[v].commits \in Seq(SUBSET SilverRow)
         /\ silver[v].at \in Nat /\ silver[v].gen \in Nat
         /\ SilverRows(v) \subseteq SilverRow
         /\ heard[v] \in Seq(Delivery) /\ Len(heard[v]) \in Nat
         /\ DOMAIN heard[v] = 1..Len(heard[v])
<1>1. /\ silver[v] \in [gen : Nat, at : Nat, commits : Seq(SUBSET SilverRow)]
      /\ silver[v].commits \in Seq(SUBSET SilverRow)
      /\ silver[v].at \in Nat /\ silver[v].gen \in Nat
      /\ heard[v] \in Seq(Delivery)
  BY DEF TypeOK
<1>2. SilverRows(v) \subseteq SilverRow
  BY <1>1, RangeUnion DEF SilverRows
<1>3. Len(heard[v]) \in Nat /\ DOMAIN heard[v] = 1..Len(heard[v])
  BY <1>1
<1>4. QED BY <1>1, <1>2, <1>3

LEMMA UnreadFacts ==
  ASSUME TypeOK, NEW v \in Venue
  PROVE  Unread(v) \subseteq SilverRows(v)
<1>1. silver[v].commits \in Seq(SUBSET SilverRow) /\ position[v].snapshot \in Nat
  BY DEF TypeOK
<1>2. \A i \in position[v].snapshot + 1 .. Len(silver[v].commits) : i \in DOMAIN silver[v].commits
  BY <1>1
<1>3. Unread(v) \subseteq SilverRows(v)
  BY <1>2 DEF Unread, SilverRows, Range
<1>4. QED BY <1>3

\* A row of gold is an original of silver.
LEMMA ProjectedType ==
  ASSUME NEW v \in Venue, NEW rows \in SUBSET SilverRow
  PROVE  Projected(v, Originals(rows)) \subseteq GoldRow
<1>1. \A r \in Originals(rows) : r.n \in Nat /\ r.id \in Ids
  BY DEF Originals, SilverRow
<1>2. \A r \in Originals(rows) : [venue |-> v, n |-> r.n, id |-> r.id] \in GoldRow
  BY <1>1 DEF GoldRow
<1>3. QED BY <1>2 DEF Projected

LEMMA GoldFacts ==
  ASSUME TypeOK
  PROVE  /\ GoldRows \subseteq GoldRow /\ UNION Range(touched) \subseteq GoldRow
         /\ \A t \in Derived : Touched(t) \subseteq Key
         /\ \A t, k : Computed(t, k) \subseteq GoldRow
<1>1. GoldRows \subseteq GoldRow /\ UNION Range(touched) \subseteq GoldRow
  BY RangeUnion DEF TypeOK, GoldRows
<1>2. \A t \in Derived : Touched(t) \subseteq Key
  BY <1>1, KeysFacts DEF Touched
<1>3. QED BY <1>1, <1>2 DEF Computed

\* What is written to silver.
Batch(v) == Rows(v, silver[v].at + 1 .. Len(heard[v]))
DayRows(v) == {r \in Rows(v, DOMAIN heard[v]) : r.day = Min(DaysLeft(v))}
Scored(v, batch) == Score(batch, LookbackRows(v, batch))

LEMMA WriteType ==
  ASSUME TypeOK, NEW v \in Venue, NEW batch \in SUBSET Row, NEW end \in Nat, Write(v, batch, end)
  PROVE  /\ silver' \in [Venue -> [gen : Nat, at : Nat, commits : Seq(SUBSET SilverRow)]]
         /\ silver'[v].gen = silver[v].gen /\ silver'[v].at = end
         /\ silver'[v].commits = Append(silver[v].commits, Scored(v, batch))
         /\ \A u \in Venue : u # v => silver'[u] = silver[u]
         /\ Scored(v, batch) \subseteq SilverRow
<1>1. LookbackRows(v, batch) \subseteq SilverRow
  BY SilverFacts DEF LookbackRows
<1>2. Scored(v, batch) \subseteq SilverRow
  BY <1>1, ScoreFacts DEF Scored, IsScore
<1>3. silver' = [silver EXCEPT ![v].at = end, ![v].commits = Append(@, Scored(v, batch))]
  BY DEF Write, Scored
<1>4. Append(silver[v].commits, Scored(v, batch)) \in Seq(SUBSET SilverRow)
  BY <1>2, SilverFacts, AppendFacts
<1>5. silver \in [Venue -> [gen : Nat, at : Nat, commits : Seq(SUBSET SilverRow)]]
  BY DEF TypeOK
<1>6. /\ silver'[v].gen = silver[v].gen /\ silver'[v].at = end
      /\ silver'[v].commits = Append(silver[v].commits, Scored(v, batch))
      /\ \A u \in Venue : u # v => silver'[u] = silver[u]
  BY <1>3, <1>5
<1>7. silver' \in [Venue -> [gen : Nat, at : Nat, commits : Seq(SUBSET SilverRow)]]
  BY <1>3, <1>4, <1>5
<1>8. QED BY <1>2, <1>6, <1>7

-----------------------------------------------------------------------------
(* Plans *)

LEMMA ConcatFacts ==
  ASSUME NEW A, NEW p \in Seq(A), NEW q \in Seq(A)
  PROVE  /\ p \o q \in Seq(A) /\ Len(p) \in Nat /\ Len(q) \in Nat
         /\ DOMAIN p = 1..Len(p) /\ DOMAIN q = 1..Len(q)
         /\ DOMAIN (p \o q) = 1..(Len(p) + Len(q))
         /\ \A i \in DOMAIN (p \o q) :
              \/ i \in DOMAIN p /\ (p \o q)[i] = p[i]
              \/ i > Len(p) /\ i - Len(p) \in DOMAIN q /\ (p \o q)[i] = q[i - Len(p)]
         /\ Range(p \o q) = Range(p) \cup Range(q)
<1>1. /\ p \o q \in Seq(A) /\ Len(p) \in Nat /\ Len(q) \in Nat
      /\ DOMAIN p = 1..Len(p) /\ DOMAIN q = 1..Len(q)
      /\ Len(p \o q) = Len(p) + Len(q) /\ DOMAIN (p \o q) = 1..Len(p \o q)
  OBVIOUS
<1>2. ASSUME NEW i \in DOMAIN (p \o q)
      PROVE  \/ i \in DOMAIN p /\ (p \o q)[i] = p[i]
             \/ i > Len(p) /\ i - Len(p) \in DOMAIN q /\ (p \o q)[i] = q[i - Len(p)]
  <2>1. i \in Nat /\ 1 <= i /\ i <= Len(p) + Len(q)
    BY <1>1
  <2>2. (p \o q)[i] = IF i <= Len(p) THEN p[i] ELSE q[i - Len(p)]
    BY <1>1, <2>1
  <2>3. CASE i <= Len(p)
    BY <1>1, <2>1, <2>2, <2>3
  <2>4. CASE i > Len(p)
    <3>1. i - Len(p) \in 1..Len(q)
      BY <1>1, <2>1, <2>4
    <3>2. QED BY <1>1, <2>1, <2>2, <2>4, <3>1
  <2>5. QED BY <1>1, <2>1, <2>3, <2>4
<1>3. Range(p \o q) \subseteq Range(p) \cup Range(q)
  BY <1>2 DEF Range
<1>4. Range(p) \subseteq Range(p \o q)
  <2>1. ASSUME NEW i \in DOMAIN p PROVE i \in DOMAIN (p \o q) /\ (p \o q)[i] = p[i]
    <3>1. i \in 1..(Len(p) + Len(q)) /\ i <= Len(p)
      BY <1>1
    <3>2. QED BY <1>1, <3>1
  <2>2. QED BY <2>1, Zenon DEF Range
<1>5. Range(q) \subseteq Range(p \o q)
  <2>1. ASSUME NEW i \in DOMAIN q PROVE \E k \in DOMAIN (p \o q) : (p \o q)[k] = q[i]
    <3>1. Len(p) + i \in 1..(Len(p) + Len(q)) /\ ~(Len(p) + i <= Len(p)) /\ (Len(p) + i) - Len(p) = i
      BY <1>1
    <3>2. (p \o q)[Len(p) + i] = q[i]
      BY <1>1, <3>1
    <3>3. QED BY <1>1, <3>1, <3>2
  <2>2. QED BY <2>1, Zenon DEF Range
<1>6. QED BY <1>1, <1>2, <1>3, <1>4, <1>5

\* A list of jobs, in order, and which they are.
Lists(plan, jobs) == plan \in Seq(Job) /\ InOrder(plan) /\ Range(plan) = jobs

LEMMA RankType ==
  ASSUME NEW j \in Job
  PROVE  Rank(j) \in Nat
BY DEF Rank, Job

LEMMA ConcatOrder ==
  ASSUME NEW p, NEW q, NEW S, NEW T, Lists(p, S), Lists(q, T),
         \A j \in S, k \in T : Rank(j) <= Rank(k)
  PROVE  Lists(p \o q, S \cup T)
<1>1. p \in Seq(Job) /\ q \in Seq(Job)
  BY DEF Lists
<1>2. ASSUME NEW i \in DOMAIN (p \o q), NEW k \in DOMAIN (p \o q), i < k
      PROVE  Rank((p \o q)[i]) <= Rank((p \o q)[k])
  <2>0. i \in Nat /\ k \in Nat /\ Len(p) \in Nat
    BY <1>1, ConcatFacts
  <2>1. CASE k \in DOMAIN p /\ (p \o q)[k] = p[k]
    <3>1. k <= Len(p) /\ ~(i > Len(p))
      BY <1>1, <1>2, <2>0, <2>1, ConcatFacts
    <3>2. i \in DOMAIN p /\ (p \o q)[i] = p[i]
      BY <1>1, <3>1, ConcatFacts
    <3>3. QED BY <1>2, <2>1, <3>2 DEF Lists, InOrder
  <2>2. CASE k > Len(p) /\ k - Len(p) \in DOMAIN q /\ (p \o q)[k] = q[k - Len(p)]
    <3>1. q[k - Len(p)] \in T
      BY <2>2 DEF Lists, Range
    <3>2. CASE i \in DOMAIN p /\ (p \o q)[i] = p[i]
      <4>1. p[i] \in S
        BY <3>2 DEF Lists, Range
      <4>2. QED BY <2>2, <3>1, <3>2, <4>1
    <3>3. CASE i > Len(p) /\ i - Len(p) \in DOMAIN q /\ (p \o q)[i] = q[i - Len(p)]
      <4>1. i - Len(p) < k - Len(p)
        BY <1>2, <2>0
      <4>2. QED BY <2>2, <3>3, <4>1 DEF Lists, InOrder
    <3>4. QED BY <1>1, <3>2, <3>3, ConcatFacts
  <2>3. QED BY <1>1, <2>1, <2>2, ConcatFacts
<1>3. p \o q \in Seq(Job) /\ Range(p \o q) = S \cup T
  BY <1>1, ConcatFacts DEF Lists
<1>4. QED BY <1>2, <1>3 DEF Lists, InOrder

Duties(what, S) == {[do |-> what, on |-> t] : t \in S}

LEMMA JobsFacts ==
  ASSUME NEW what \in {"type", "add", "merge", "delete", "append", "drop", "create", "replay", "fill"},
         NEW S \in SUBSET (Venue \cup Derived \cup {Trades}), NEW tables \in Seq(S)
  PROVE  /\ Jobs(what, tables) \in Seq(Job)
         /\ Range(Jobs(what, tables)) = Duties(what, Range(tables))
         /\ DOMAIN Jobs(what, tables) = DOMAIN tables
         /\ \A i \in DOMAIN tables : Jobs(what, tables)[i] = [do |-> what, on |-> tables[i]]
         /\ what # "drop" => Lists(Jobs(what, tables), Duties(what, Range(tables)))
<1> DEFINE q == Jobs(what, tables)
<1>1. DOMAIN q = DOMAIN tables /\ \A i \in DOMAIN tables : q[i] = [do |-> what, on |-> tables[i]]
  BY DEF Jobs
<1>2. \A i \in DOMAIN tables : q[i] \in Job
  BY <1>1 DEF Job
<1>3. Len(tables) \in Nat /\ DOMAIN tables = 1..Len(tables) /\ q = [i \in 1..Len(tables) |-> q[i]]
  BY <1>1 DEF Jobs
<1>4. q \in [1..Len(tables) -> Job]
  BY <1>2, <1>3
<1>5. q \in Seq(Job)
  BY <1>3, <1>4
<1>6. Range(q) = Duties(what, Range(tables))
  BY <1>1 DEF Range, Duties
<1>7. what # "drop" => InOrder(q)
  <2> SUFFICES ASSUME what # "drop", NEW i \in DOMAIN q, NEW k \in DOMAIN q
               PROVE  Rank(q[i]) <= Rank(q[k])
    BY DEF InOrder
  <2>1. q[i].do = what /\ q[k].do = what
    BY <1>1
  <2>2. Rank(q[i]) = Rank(q[k])
    BY <2>1 DEF Rank
  <2>3. Rank(q[i]) \in Nat
    BY <1>1, <1>2, RankType
  <2>4. QED BY <2>2, <2>3
<1>8. QED BY <1>1, <1>5, <1>6, <1>7 DEF Lists

LEMMA Prepended ==
  ASSUME NEW A, NEW x \in A, NEW r \in Seq(A), NEW i \in DOMAIN (<<x>> \o r)
  PROVE  (<<x>> \o r)[i] = (IF i = 1 THEN x ELSE r[i - 1]) /\ (i # 1 => i - 1 \in DOMAIN r)
<1>1. i \in 1..(1 + Len(r)) /\ DOMAIN r = 1..Len(r) /\ Len(r) \in Nat
  OBVIOUS
<1>2. (<<x>> \o r)[i] = IF i = 1 THEN x ELSE r[i - 1]
  BY <1>1
<1>3. i # 1 => i - 1 \in 1..Len(r)
  BY <1>1
<1>4. QED BY <1>1, <1>2, <1>3

\* The tables of gold: gold.trades comes first.
LEMMA GoldTablesFacts ==
  /\ Timeframes \o <<Bars>> \in Seq(Derived) /\ Range(Timeframes \o <<Bars>>) = Derived
  /\ GoldTables \in Seq(Derived \cup {Trades}) /\ Range(GoldTables) = Derived \cup {Trades}
  /\ \A i \in DOMAIN GoldTables : GoldTables[i] = Trades <=> i = 1
<1>1. Timeframes \in Seq(Derived) /\ <<Bars>> \in Seq(Derived) /\ Range(<<Bars>>) = {Bars}
  BY Constants DEF Range
<1>2. Timeframes \o <<Bars>> \in Seq(Derived) /\ Range(Timeframes \o <<Bars>>) = Derived
  <2>1. Range(Timeframes \o <<Bars>>) = Range(Timeframes) \cup Range(<<Bars>>)
    BY <1>1, ConcatFacts
  <2>2. Timeframes \o <<Bars>> \in Seq(Derived)
    BY <1>1
  <2>3. Range(Timeframes) = Frames
    BY DEF Frames
  <2>4. QED BY <1>1, <2>1, <2>2, <2>3, Constants
<1> DEFINE r == Timeframes \o <<Bars>>
           h == <<Trades>>
<1>3. GoldTables = h \o r
  BY <1>1 DEF GoldTables
<1> HIDE DEF r
<1>4. /\ h \in Seq(Derived \cup {Trades}) /\ r \in Seq(Derived \cup {Trades})
      /\ Range(h) = {Trades} /\ Len(h) = 1 /\ DOMAIN h = 1..1 /\ h[1] = Trades
  BY <1>2 DEF Range, r
<1> HIDE DEF h
<1>5. GoldTables \in Seq(Derived \cup {Trades}) /\ Range(GoldTables) = Derived \cup {Trades}
  <2>1. Range(GoldTables) = Range(h) \cup Range(r)
    BY <1>3, <1>4, ConcatFacts
  <2>2. GoldTables \in Seq(Derived \cup {Trades})
    BY <1>3, <1>4
  <2>3. Range(r) = Derived
    BY <1>2 DEF r
  <2>4. QED BY <1>4, <2>1, <2>2, <2>3
<1>6. ASSUME NEW i \in DOMAIN GoldTables PROVE GoldTables[i] = Trades <=> i = 1
  <2>1. GoldTables[i] = (IF i = 1 THEN Trades ELSE r[i - 1]) /\ (i # 1 => i - 1 \in DOMAIN r)
    BY <1>3, <1>4, Prepended DEF h
  <2>2. \A k \in DOMAIN r : r[k] # Trades
    BY <1>2, Constants DEF Range, r
  <2>3. QED BY <1>4, <2>1, <2>2
<1>7. QED BY <1>2, <1>5, <1>6

LEMMA EmptiedFacts ==
  ASSUME NEW S \in SUBSET (Venue \cup Derived \cup {Trades}), NEW tables \in Seq(S),
         \A i \in DOMAIN tables : tables[i] = Trades => i = 1
  PROVE  Lists(Emptied(tables), Duties("drop", Range(tables)) \cup Duties("create", Range(tables)))
<1>1. Lists(Jobs("drop", tables), Duties("drop", Range(tables)))
  <2> DEFINE q == Jobs("drop", tables)
  <2>1. /\ q \in Seq(Job) /\ Range(q) = Duties("drop", Range(tables)) /\ DOMAIN q = DOMAIN tables
        /\ \A i \in DOMAIN tables : q[i] = [do |-> "drop", on |-> tables[i]]
    BY JobsFacts
  <2> HIDE DEF q
  <2>2. ASSUME NEW i \in DOMAIN q, NEW k \in DOMAIN q, i < k
        PROVE  Rank(q[i]) <= Rank(q[k])
    <3>1. i \in Nat /\ k \in Nat /\ 1 <= i
      BY <2>1
    <3>2. k # 1
      BY <2>2, <3>1
    <3>3. Rank(q[i]) \in {0, 1}
      BY <2>1 DEF Rank
    <3>4. Rank(q[k]) = 1
      BY <2>1, <3>2 DEF Rank
    <3>5. QED BY <3>3, <3>4
  <2>3. QED BY <2>1, <2>2 DEF Lists, InOrder, q
<1>2. Lists(Jobs("create", tables), Duties("create", Range(tables)))
  BY JobsFacts
<1>3. \A j \in Duties("drop", Range(tables)), k \in Duties("create", Range(tables)) : Rank(j) <= Rank(k)
  <2>1. \A j \in Duties("drop", Range(tables)) : Rank(j) \in {0, 1}
    BY DEF Duties, Rank
  <2>2. \A j \in Duties("create", Range(tables)) : Rank(j) = 2
    BY DEF Duties, Rank
  <2>3. QED BY <2>1, <2>2
<1>4. QED BY <1>1, <1>2, <1>3, ConcatOrder DEF Emptied

\* A rebuild drops what it fills, and bars are deleted before they are appended.
Prepared(jobs) ==
  \A j \in jobs : /\ j.do \in {"fill", "replay"} => Has(jobs, "drop", j.on)
                  /\ j.do = "append" => Has(jobs, "delete", Bars)

LEMMA IngestPlan == IsPlan(IngestJobs) /\ Prepared(Range(IngestJobs))
<1> DEFINE bars == <<[do |-> "delete", on |-> Bars], [do |-> "append", on |-> Bars]>>
           S1 == Duties("type", Venue)
           S2 == Duties("add", Venue)
           S3 == Duties("merge", Frames)
           S4 == Duties("delete", {Bars}) \cup Duties("append", {Bars})
<1>1. /\ Venue \subseteq Venue \cup Derived \cup {Trades} /\ Range(Venues) = Venue
      /\ Frames \subseteq Venue \cup Derived \cup {Trades} /\ Range(Timeframes) = Frames
  BY Constants DEF Venue, Frames
<1>2. Lists(Jobs("type", Venues), S1) /\ Lists(Jobs("add", Venues), S2)
  BY <1>1, JobsFacts, Constants
<1>3. Lists(Jobs("merge", Timeframes), S3)
  BY <1>1, JobsFacts, Constants
<1>4. Lists(bars, S4)
  <2>1. bars \in Seq(Job)
    BY Constants DEF Job
  <2>2. InOrder(bars)
    BY DEF InOrder, Rank
  <2>3. Range(bars) = S4
    <3>1. DOMAIN bars = {1, 2} /\ bars[1] = [do |-> "delete", on |-> Bars]
                               /\ bars[2] = [do |-> "append", on |-> Bars]
      OBVIOUS
    <3> HIDE DEF bars
    <3>2. QED BY <3>1 DEF Range, Duties
  <2>4. QED BY <2>1, <2>2, <2>3 DEF Lists
<1>5. /\ \A j \in S1 : Rank(j) = 3 /\ j.do = "type" /\ j.on \in Venue
      /\ \A j \in S2 : Rank(j) = 5 /\ j.do = "add" /\ j.on \in Venue
      /\ \A j \in S3 : Rank(j) = 6 /\ j.do = "merge" /\ j.on \in Frames
      /\ \A j \in S4 : Rank(j) \in {7, 8} /\ j.do \in {"delete", "append"} /\ j.on = Bars
  BY DEF Duties, Rank
<1>6. /\ \A d \in Frames : Has(S3, "merge", d)
      /\ Has(S4, "delete", Bars) /\ Has(S4, "append", Bars)
  BY DEF Has, Duties
<1> HIDE DEF bars, S1, S2, S3, S4
<1>7. Lists(Jobs("type", Venues) \o Jobs("add", Venues), S1 \cup S2)
  BY <1>2, <1>5, ConcatOrder
<1>8. Lists(Jobs("type", Venues) \o Jobs("add", Venues) \o Jobs("merge", Timeframes), (S1 \cup S2) \cup S3)
  <2>1. \A j \in S1 \cup S2, k \in S3 : Rank(j) <= Rank(k)
    BY <1>5
  <2>2. QED BY <1>3, <1>7, <2>1, ConcatOrder
<1>9. Lists(IngestJobs, ((S1 \cup S2) \cup S3) \cup S4)
  <2>1. \A j \in (S1 \cup S2) \cup S3, k \in S4 : Rank(j) <= Rank(k)
    BY <1>5
  <2>2. QED BY <1>4, <1>8, <2>1, ConcatOrder DEF IngestJobs, bars
<1> DEFINE S == ((S1 \cup S2) \cup S3) \cup S4
<1>10. \A d \in Derived : Has(S, IF d = Bars THEN "delete" ELSE "merge", d)
  BY <1>6, Constants DEF Has
<1>11. Has(S, "append", Bars) /\ Has(S, "delete", Bars)
  BY <1>6 DEF Has
<1>12. \A j \in S : \/ j.do \in {"type", "add"} /\ j.on \in Venue
                    \/ j.do = "merge" /\ j.on \in Derived
                    \/ j.do \in {"delete", "append"} /\ j.on = Bars
  BY <1>5, Constants
<1> HIDE DEF S
<1>13. Complete(S)
  BY <1>10, <1>11, <1>12 DEF Complete
<1>14. Prepared(S)
  BY <1>11, <1>12 DEF Prepared
<1>15. Range(IngestJobs) = S /\ IngestJobs \in Seq(Job) /\ InOrder(IngestJobs)
  BY <1>9 DEF Lists, S
<1>16. QED BY <1>13, <1>14, <1>15 DEF IsPlan

LEMMA SilverPlan ==
  ASSUME NEW vs \in Seq(Venue)
  PROVE  IsPlan(Emptied(vs) \o Jobs("replay", vs)) /\ Prepared(Range(Emptied(vs) \o Jobs("replay", vs)))
<1> DEFINE R == Range(vs)
           S1 == Duties("drop", R) \cup Duties("create", R)
           S2 == Duties("replay", R)
           S == S1 \cup S2
           q == Emptied(vs) \o Jobs("replay", vs)
<1>1. R \subseteq Venue /\ (\A i \in DOMAIN vs : vs[i] \in Venue) /\ Trades \notin Venue
  BY Constants DEF Range
<1>2. Lists(Emptied(vs), S1)
  BY <1>1, EmptiedFacts, Venue \subseteq Venue \cup Derived \cup {Trades}
<1>3. Lists(Jobs("replay", vs), S2)
  BY JobsFacts, Venue \subseteq Venue \cup Derived \cup {Trades}
<1>4. /\ \A j \in S1 : Rank(j) \in {0, 1, 2} /\ j.do \in {"drop", "create"} /\ j.on \in R
      /\ \A j \in S2 : Rank(j) = 4 /\ j.do = "replay" /\ j.on \in R /\ Has(S1, "drop", j.on)
  BY DEF Duties, Rank, Has
<1> HIDE DEF S1, S2, R
<1>5. Lists(q, S)
  <2>1. \A j \in S1, k \in S2 : Rank(j) <= Rank(k)
    BY <1>4
  <2>2. QED BY <1>2, <1>3, <2>1, ConcatOrder
<1>6. \A j \in S : /\ j.do \in {"drop", "create", "replay"} /\ j.on \in Venue
                   /\ j.do = "replay" => Has(S, "drop", j.on)
  BY <1>1, <1>4 DEF Has
<1> HIDE DEF S, q
<1>7. Complete(S)
  BY <1>6, Constants DEF Complete
<1>8. Prepared(S)
  BY <1>6 DEF Prepared
<1>9. Range(q) = S /\ q \in Seq(Job) /\ InOrder(q)
  BY <1>5 DEF Lists
<1>10. IsPlan(q) /\ Prepared(Range(q))
  BY <1>7, <1>8, <1>9 DEF IsPlan
<1>11. QED BY <1>10 DEF q

LEMMA GoldPlan ==
  LET q == Emptied(GoldTables) \o Jobs("add", Venues) \o Jobs("fill", Timeframes \o <<Bars>>)
  IN  IsPlan(q) /\ Prepared(Range(q))
<1> DEFINE A == Derived \cup {Trades}
           S1 == Duties("drop", A) \cup Duties("create", A)
           S2 == Duties("add", Venue)
           S3 == Duties("fill", Derived)
           S == (S1 \cup S2) \cup S3
           q == Emptied(GoldTables) \o Jobs("add", Venues) \o Jobs("fill", Timeframes \o <<Bars>>)
<1>1. /\ A \subseteq Venue \cup Derived \cup {Trades} /\ Venue \subseteq Venue \cup Derived \cup {Trades}
      /\ Derived \subseteq Venue \cup Derived \cup {Trades} /\ Range(Venues) = Venue
  BY DEF Venue
<1>2. Lists(Emptied(GoldTables), S1)
  BY <1>1, EmptiedFacts, GoldTablesFacts
<1>3. Lists(Jobs("add", Venues), S2)
  BY <1>1, JobsFacts, Constants
<1>4. Lists(Jobs("fill", Timeframes \o <<Bars>>), S3)
  BY <1>1, JobsFacts, GoldTablesFacts
<1>5. /\ \A j \in S1 : Rank(j) \in {0, 1, 2} /\ j.do \in {"drop", "create"}
      /\ \A j \in S2 : Rank(j) = 5 /\ j.do = "add" /\ j.on \in Venue
      /\ \A j \in S3 : Rank(j) = 9 /\ j.do = "fill" /\ j.on \in Derived
  BY DEF Duties, Rank
<1>6. \A d \in Derived : Has(S1, "drop", d) /\ Has(S3, "fill", d)
  BY DEF Duties, Has
<1> HIDE DEF S1, S2, S3
<1>7. Lists(Emptied(GoldTables) \o Jobs("add", Venues), S1 \cup S2)
  <2>1. \A j \in S1, k \in S2 : Rank(j) <= Rank(k)
    BY <1>5
  <2>2. QED BY <1>2, <1>3, <2>1, ConcatOrder
<1>8. Lists(q, S)
  <2>1. \A j \in S1 \cup S2, k \in S3 : Rank(j) <= Rank(k)
    BY <1>5
  <2>2. QED BY <1>4, <1>7, <2>1, ConcatOrder
<1>9. \A d \in Derived : Has(S, "drop", d) /\ Has(S, "fill", d)
  BY <1>6 DEF Has
<1>10. \A j \in S : \/ j.do \in {"drop", "create"}
                    \/ j.do = "add" /\ j.on \in Venue
                    \/ j.do = "fill" /\ j.on \in Derived
  BY <1>5
<1> HIDE DEF S, q
<1>11. Complete(S)
  BY <1>9, <1>10 DEF Complete
<1>12. Prepared(S)
  BY <1>9, <1>10 DEF Prepared
<1>13. Range(q) = S /\ q \in Seq(Job) /\ InOrder(q)
  BY <1>8 DEF Lists
<1>14. IsPlan(q) /\ Prepared(Range(q))
  BY <1>11, <1>12, <1>13 DEF IsPlan
<1>15. QED BY <1>14 DEF q

LEMMA BarsPlan ==
  LET q == Emptied(<<Bars>>) \o Jobs("fill", <<Bars>>)
  IN  IsPlan(q) /\ Prepared(Range(q))
<1> DEFINE b == <<Bars>>
           S1 == Duties("drop", {Bars}) \cup Duties("create", {Bars})
           S2 == Duties("fill", {Bars})
           S == S1 \cup S2
           q == Emptied(b) \o Jobs("fill", b)
<1>1. b \in Seq(Derived) /\ Range(b) = {Bars} /\ \A i \in DOMAIN b : b[i] # Trades
  BY Constants DEF Range
<1> HIDE DEF b
<1>2. Derived \subseteq Venue \cup Derived \cup {Trades}
  OBVIOUS
<1>3. Lists(Emptied(b), S1)
  BY <1>1, <1>2, EmptiedFacts
<1>4. Lists(Jobs("fill", b), S2)
  <2>1. Lists(Jobs("fill", b), Duties("fill", Range(b)))
    BY <1>1, <1>2, JobsFacts
  <2>2. QED BY <1>1, <2>1
<1>5. /\ \A j \in S1 : Rank(j) \in {0, 1, 2} /\ j.do \in {"drop", "create"} /\ j.on = Bars
      /\ \A j \in S2 : Rank(j) = 9 /\ j.do = "fill" /\ j.on = Bars
      /\ Has(S1, "drop", Bars) /\ Has(S2, "fill", Bars)
  BY DEF Duties, Rank, Has
<1> HIDE DEF S1, S2
<1>6. Lists(q, S)
  <2>1. \A j \in S1, k \in S2 : Rank(j) <= Rank(k)
    BY <1>5
  <2>2. QED BY <1>3, <1>4, <2>1, ConcatOrder
<1>7. /\ Has(S, "drop", Bars) /\ Has(S, "fill", Bars)
      /\ \A j \in S : j.do \in {"drop", "create", "fill"} /\ j.on = Bars
  BY <1>5 DEF Has
<1> HIDE DEF S, q
<1>8. Complete(S)
  BY <1>7, Constants DEF Complete
<1>9. Prepared(S)
  BY <1>7 DEF Prepared
<1>10. Range(q) = S /\ q \in Seq(Job) /\ InOrder(q)
  BY <1>6 DEF Lists
<1>11. IsPlan(q) /\ Prepared(Range(q))
  BY <1>8, <1>9, <1>10 DEF IsPlan
<1>12. QED BY <1>11 DEF q, b

LEMMA StartPlans ==
  ASSUME StartIngest \/ StartRebuild
  PROVE  /\ IsPlan(todo') /\ Prepared(Range(todo')) /\ todo = <<>> /\ touched' = <<>>
         /\ UNCHANGED <<heard, today, absent, silver, gold, position, stored, owed, torn>>
<1>1. CASE StartIngest
  BY <1>1, IngestPlan DEF StartIngest, Begin
<1>2. CASE StartRebuild
  <2>1. ASSUME NEW vs \in {Venues} \cup {<<v>> : v \in Venue}, Begin(Emptied(vs) \o Jobs("replay", vs))
        PROVE  /\ IsPlan(todo') /\ Prepared(Range(todo')) /\ todo = <<>> /\ touched' = <<>>
               /\ UNCHANGED <<heard, today, absent, silver, gold, position, stored, owed, torn>>
    <3>1. vs \in Seq(Venue)
      <4>1. vs = Venues \/ \E v \in Venue : vs = <<v>>
        BY <2>1
      <4>2. \A v \in Venue : <<v>> \in Seq(Venue)
        OBVIOUS
      <4>3. QED BY <4>1, <4>2, Constants
    <3>2. QED BY <2>1, <3>1, SilverPlan DEF Begin
  <2>2. CASE Begin(Emptied(GoldTables) \o Jobs("add", Venues) \o Jobs("fill", Timeframes \o <<Bars>>))
    BY <2>2, GoldPlan DEF Begin
  <2>3. CASE Begin(Emptied(<<Bars>>) \o Jobs("fill", <<Bars>>))
    BY <2>3, BarsPlan DEF Begin
  <2>4. QED BY <1>2, <2>1, <2>2, <2>3 DEF StartRebuild
<1>3. QED BY <1>1, <1>2

\* Of a plan its head comes before what the head relies on.
LEMMA HeadIsLeast ==
  ASSUME NEW q, IsPlan(q), q # <<>>
  PROVE  /\ Head(q) \in Job /\ Head(q) \in Range(q)
         /\ \A j \in Range(q) : j \in Job /\ Rank(Head(q)) <= Rank(j)
         /\ Range(q) = {Head(q)} \cup Range(Tail(q))
<1>1. q \in Seq(Job) /\ Head(q) = q[1] /\ 1 \in DOMAIN q /\ DOMAIN q = 1..Len(q) /\ Len(q) \in Nat
      /\ Range(q) = {Head(q)} \cup Range(Tail(q))
  BY TailFacts DEF IsPlan
<1>2. \A i \in DOMAIN q : q[i] \in Job /\ Rank(q[1]) <= Rank(q[i])
  <2> TAKE i \in DOMAIN q
  <2>1. q[i] \in Job /\ q[1] \in Job
    BY <1>1
  <2>2. CASE i = 1
    BY <2>1, <2>2, RankType
  <2>3. CASE i # 1
    <3>1. 1 < i
      BY <1>1, <2>3
    <3>2. QED BY <1>1, <2>1, <3>1 DEF IsPlan, InOrder
  <2>4. QED BY <2>2, <2>3
<1>3. \A j \in Range(q) : \E i \in DOMAIN q : j = q[i]
  BY DEF Range
<1>4. QED BY <1>1, <1>2, <1>3 DEF Range

LEMMA RestOfPlan ==
  ASSUME NEW q, IsPlan(q), q # <<>>, NEW j \in Range(q), Rank(Head(q)) < Rank(j)
  PROVE  j \in Range(Tail(q))
<1>1. Rank(Head(q)) \in Nat /\ j # Head(q)
  BY HeadIsLeast, RankType
<1>2. QED BY <1>1, HeadIsLeast

LEMMA TailIsPlan ==
  ASSUME NEW q, IsPlan(q), q # <<>>
  PROVE  IsPlan(Tail(q))
<1> DEFINE S == Range(q)
           T == Range(Tail(q))
<1>1. T \subseteq S /\ \A j \in S : j \in Job /\ Rank(j) \in Nat
  BY HeadIsLeast, RankType
<1>2. \A j \in T, k \in S : Rank(j) < Rank(k) => k \in T
  <2> SUFFICES ASSUME NEW j \in T, NEW k \in S, Rank(j) < Rank(k)
               PROVE  k \in T
    OBVIOUS
  <2>1. Rank(Head(q)) <= Rank(j) /\ Rank(Head(q)) \in Nat
    BY <1>1, HeadIsLeast
  <2>2. Rank(Head(q)) < Rank(k)
    BY <1>1, <2>1
  <2>3. QED BY <2>2, RestOfPlan
<1>3. Complete(S)
  BY DEF IsPlan
<1> HIDE DEF S, T
<1>4. Complete(T)
  <2> SUFFICES ASSUME NEW j \in T
               PROVE  /\ j.do \in {"type", "add", "replay"} => j.on \in Venue
                      /\ j.do \in {"merge", "fill"} => j.on \in Derived
                      /\ j.do \in {"delete", "append"} => j.on = Bars
                      /\ j.do = "add" => \A d \in Derived :
                           Has(T, "fill", d) \/ Has(T, IF d = Bars THEN "delete" ELSE "merge", d)
                      /\ j.do = "drop" /\ j.on \in Derived => Has(T, "fill", j.on)
                      /\ j.do = "drop" /\ j.on = Trades => \A d \in Derived : Has(T, "drop", d)
                      /\ j.do = "delete" => Has(T, "append", Bars)
                      /\ j.do = "append" => \A k \in T : k.do # "fill"
                      /\ j.do = "replay" => \A k \in T : k.do # "type"
    BY DEF Complete
  <2>0. j \in S
    BY <1>1
  <2>1. /\ j.do \in {"type", "add", "replay"} => j.on \in Venue
        /\ j.do \in {"merge", "fill"} => j.on \in Derived
        /\ j.do \in {"delete", "append"} => j.on = Bars
        /\ j.do = "append" => \A k \in T : k.do # "fill"
        /\ j.do = "replay" => \A k \in T : k.do # "type"
    BY <1>1, <1>3, <2>0 DEF Complete
  <2>2. ASSUME j.do = "add", NEW d \in Derived
        PROVE  Has(T, "fill", d) \/ Has(T, IF d = Bars THEN "delete" ELSE "merge", d)
    <3>1. Has(S, "fill", d) \/ Has(S, IF d = Bars THEN "delete" ELSE "merge", d)
      BY <1>3, <2>0, <2>2 DEF Complete
    <3>2. /\ Rank(j) < Rank([do |-> "fill", on |-> d])
          /\ Rank(j) < Rank([do |-> IF d = Bars THEN "delete" ELSE "merge", on |-> d])
      BY <2>2 DEF Rank
    <3>3. QED BY <1>2, <3>1, <3>2 DEF Has
  <2>3. ASSUME j.do = "drop", j.on \in Derived PROVE Has(T, "fill", j.on)
    <3>1. Has(S, "fill", j.on)
      BY <1>3, <2>0, <2>3 DEF Complete
    <3>2. Rank(j) < Rank([do |-> "fill", on |-> j.on])
      BY <2>3 DEF Rank
    <3>3. QED BY <1>2, <3>1, <3>2 DEF Has
  <2>4. ASSUME j.do = "drop", j.on = Trades, NEW d \in Derived PROVE Has(T, "drop", d)
    <3>1. Has(S, "drop", d)
      BY <1>3, <2>0, <2>4 DEF Complete
    <3>2. Rank(j) < Rank([do |-> "drop", on |-> d])
      BY <2>4, Constants DEF Rank
    <3>3. QED BY <1>2, <3>1, <3>2 DEF Has
  <2>5. ASSUME j.do = "delete" PROVE Has(T, "append", Bars)
    <3>1. Has(S, "append", Bars)
      BY <1>3, <2>0, <2>5 DEF Complete
    <3>2. Rank(j) < Rank([do |-> "append", on |-> Bars])
      BY <2>5 DEF Rank
    <3>3. QED BY <1>2, <3>1, <3>2 DEF Has
  <2>6. QED BY <2>1, <2>2, <2>3, <2>4, <2>5
<1>5. Tail(q) \in Seq(Job) /\ InOrder(Tail(q))
  <2>1. /\ Tail(q) \in Seq(Job) /\ DOMAIN Tail(q) = 1..(Len(q) - 1) /\ Len(q) \in Nat
        /\ \A i \in 1..(Len(q) - 1) : Tail(q)[i] = q[i + 1] /\ i + 1 \in DOMAIN q
    BY TailFacts DEF IsPlan
  <2>2. ASSUME NEW i \in DOMAIN Tail(q), NEW k \in DOMAIN Tail(q), i < k
        PROVE  Rank(Tail(q)[i]) <= Rank(Tail(q)[k])
    <3>1. i + 1 < k + 1
      BY <2>1, <2>2
    <3>2. QED BY <2>1, <2>2, <3>1 DEF IsPlan, InOrder
  <2>3. QED BY <2>1, <2>2 DEF InOrder
<1>6. QED BY <1>4, <1>5 DEF IsPlan, T

-----------------------------------------------------------------------------
(* Types and plans are kept *)

LEMMA TodoStep ==
  ASSUME Next, ~StartIngest, ~StartRebuild
  PROVE  todo' = todo \/ (todo # <<>> /\ todo' = Tail(todo)) \/ todo' = <<>>
BY DEF Next, Step, Hear, NextDay, Killed, Cut, Dies, TypeTrades, ReplayDay, ReplayEnds, AddTrades,
       SkipDerived, MergeCandles, DeleteBars, AppendBars, FillDerived, Drop, Create, Done, Due

LEMMA PlanStep ==
  ASSUME PlanInv, [Next]_vars
  PROVE  PlanInv'
<1>1. CASE UNCHANGED vars
  BY <1>1 DEF vars, PlanInv
<1>2. CASE StartIngest \/ StartRebuild
  BY <1>2, StartPlans DEF PlanInv
<1>3. CASE Next /\ ~StartIngest /\ ~StartRebuild
  <2>1. IsPlan(<<>>)
    BY DEF IsPlan, InOrder, Complete, Range
  <2>2. QED BY <1>3, <2>1, TodoStep, TailIsPlan DEF PlanInv
<1>4. QED BY <1>1, <1>2, <1>3

LEMMA UnpaidType ==
  ASSUME TypeOK, PlanInv
  PROVE  Unpaid \subseteq Derived \X Key
<1>1. \A j \in Range(todo) : j.do \in {"merge", "append", "fill"} => j.on \in Derived
  BY Constants DEF PlanInv, IsPlan, Complete
<1>2. \A t \in Derived : Touched(t) \subseteq Key
  BY GoldFacts
<1>3. \A j \in Range(todo) : j.do \in {"merge", "append", "fill"} =>
        ({j.on} \X (IF j.do = "fill" THEN Key ELSE Touched(j.on))) \subseteq Derived \X Key
  BY <1>1, <1>2
<1>4. QED BY <1>3 DEF Unpaid

LEMMA CutType ==
  ASSUME TypeOK, PlanInv, Cut, events' \in 0..MaxEvents
  PROVE  TypeOK'
<1>1. owed' \subseteq Derived \X Key
  BY UnpaidType DEF TypeOK, Cut
<1>2. torn' \subseteq Venue
  BY DEF TypeOK, Cut, Halfway
<1>3. todo' \in Seq(Job) /\ touched' \in Seq(SUBSET GoldRow)
  BY DEF Cut
<1>4. QED BY <1>1, <1>2, <1>3 DEF TypeOK, Cut

\* The variables of the venues, the lists and the tables.
TypeA == /\ heard \in [Venue -> Seq(Delivery)] /\ today \in 0..MaxEvents
         /\ events \in 0..MaxEvents /\ torn \subseteq Venue
TypeB == /\ todo \in Seq(Job) /\ touched \in Seq(SUBSET GoldRow)
         /\ absent \subseteq Venue \cup Derived \cup {Trades}
TypeC == /\ silver \in [Venue -> [gen : Nat, at : Nat, commits : Seq(SUBSET SilverRow)]]
         /\ gold \in Seq(SUBSET GoldRow) /\ position \in [Venue -> [gen : Nat, snapshot : Nat]]
TypeD == stored \in [Derived -> [Key -> SUBSET GoldRow]] /\ owed \subseteq Derived \X Key

LEMMA TypeParts == TypeOK <=> TypeA /\ TypeB /\ TypeC /\ TypeD
BY DEF TypeOK, TypeA, TypeB, TypeC, TypeD

LEMMA TypeAStep ==
  ASSUME TypeOK, today <= events, Next
  PROVE  TypeA'
<1>1. CASE \E v \in Venue, id \in Ids : Hear(v, id)
  <2>1. PICK v \in Venue, id \in Ids : Hear(v, id)
    BY <1>1
  <2>2. [id |-> id, day |-> today] \in Delivery /\ heard[v] \in Seq(Delivery)
    BY DEF TypeOK, Delivery
  <2>3. Append(heard[v], [id |-> id, day |-> today]) \in Seq(Delivery)
    BY <2>2, AppendFacts
  <2>4. heard' \in [Venue -> Seq(Delivery)]
    BY <2>1, <2>3 DEF Hear, TypeOK
  <2>5. events' \in 0..MaxEvents
    BY <2>1, Constants DEF Hear, Event, TypeOK
  <2>6. QED BY <2>1, <2>4, <2>5 DEF Hear, TypeOK, TypeA
<1>2. CASE NextDay
  <2>1. events' \in 0..MaxEvents /\ today' \in 0..MaxEvents
    BY <1>2, Constants DEF NextDay, Event, TypeOK
  <2>2. QED BY <1>2, <2>1 DEF NextDay, TypeOK, TypeA, history
<1>3. CASE StartIngest \/ StartRebuild
  <2>1. events' \in 0..MaxEvents
    BY <1>3, Constants DEF StartIngest, StartRebuild, Event, TypeOK
  <2>2. QED BY <1>3, <2>1, StartPlans DEF TypeOK, TypeA
<1>4. CASE Killed \/ Dies
  <2>1. events' \in 0..MaxEvents
    BY <1>4, Constants DEF Killed, Dies, Event, TypeOK
  <2>2. QED BY <1>4, <2>1 DEF Killed, Dies, Cut, Halfway, TypeOK, TypeA
<1>5. CASE Step /\ ~Dies
  <2>1. UNCHANGED <<heard, today, events>> /\ torn' \subseteq torn
    BY <1>5 DEF Step, TypeTrades, ReplayDay, ReplayEnds, AddTrades, SkipDerived, MergeCandles,
                DeleteBars, AppendBars, FillDerived, Drop, Create, Done, history
  <2>2. QED BY <2>1 DEF TypeOK, TypeA
<1>6. QED BY <1>1, <1>2, <1>3, <1>4, <1>5 DEF Next

\* The rows an addition brings to gold.
Added(v) == Projected(v, Originals(Unread(v)))

\* An addition that is not skipped.
Adds(v) ==
  /\ AddTrades(v) /\ silver[v].commits # <<>> /\ position[v] # Snapshot(v) /\ Readable(v)
  /\ gold' = Append(gold, Added(v)) /\ touched' = Append(touched, Added(v))
  /\ position' = [position EXCEPT ![v] = Snapshot(v)]

LEMMA AddCases ==
  ASSUME NEW v \in Venue, AddTrades(v)
  PROVE  Adds(v) \/ UNCHANGED <<gold, position, touched>>
BY DEF AddTrades, Adds, Added, Projected, Carried

LEMMA AddedType ==
  ASSUME TypeOK, NEW v \in Venue
  PROVE  Added(v) \subseteq GoldRow
<1>1. Unread(v) \in SUBSET SilverRow
  BY UnreadFacts, SilverFacts
<1>2. QED BY <1>1, ProjectedType DEF Added

LEMMA TypeBStep ==
  ASSUME TypeOK, PlanInv, Next
  PROVE  TypeB'
<1>1. todo' \in Seq(Job)
  BY PlanStep DEF PlanInv, IsPlan
<1>2. touched' \in Seq(SUBSET GoldRow)
  <2>0. <<>> \in Seq(SUBSET GoldRow) /\ touched \in Seq(SUBSET GoldRow)
    BY DEF TypeOK
  <2>1. CASE \E v \in Venue : Adds(v)
    <3>1. PICK v \in Venue : touched' = Append(touched, Added(v))
      BY <2>1 DEF Adds
    <3>2. Added(v) \in SUBSET GoldRow
      BY AddedType
    <3>3. QED BY <2>0, <3>1, <3>2
  <2>2. CASE ~\E v \in Venue : Adds(v)
    <3>1. \A v \in Venue : AddTrades(v) => touched' = touched
      BY <2>2, AddCases
    <3>2. CASE StartIngest \/ StartRebuild
      BY <2>0, <3>2, StartPlans
    <3>3. CASE ~StartIngest /\ ~StartRebuild
      <4>1. touched' = touched \/ touched' = <<>>
        BY <3>1, <3>3 DEF Next, Step, Hear, NextDay, Killed, Cut, Dies, TypeTrades, ReplayDay, ReplayEnds,
           SkipDerived, MergeCandles, DeleteBars, AppendBars, FillDerived, Drop, Create
      <4>2. QED BY <2>0, <4>1
    <3>4. QED BY <3>2, <3>3
  <2>3. QED BY <2>1, <2>2
<1>3. absent' \subseteq Venue \cup Derived \cup {Trades}
  <2>1. CASE StartIngest \/ StartRebuild
    BY <2>1, StartPlans DEF TypeOK
  <2>2. CASE ~StartIngest /\ ~StartRebuild
    <3>1. \/ absent' \subseteq absent
          \/ \E t \in Venue \cup Derived \cup {Trades} : absent' = absent \cup {t}
      BY <2>2 DEF Next, Step, Hear, NextDay, Killed, Cut, Dies, TypeTrades, ReplayDay, ReplayEnds, AddTrades,
         SkipDerived, MergeCandles, DeleteBars, AppendBars, FillDerived, Drop, Create
    <3>2. QED BY <3>1 DEF TypeOK
  <2>3. QED BY <2>1, <2>2
<1>4. QED BY <1>1, <1>2, <1>3 DEF TypeB

\* Typing a batch, whether of what is new or of a day.
LEMMA WriteCases ==
  ASSUME TypeOK, NEW v \in Venue, TypeTrades(v) \/ ReplayDay(v)
  PROVE  \/ silver' = silver
         \/ \E batch \in SUBSET Row : Write(v, batch, Len(heard[v]))
<1>1. RowsAt(v, silver[v].at + 1 .. Len(heard[v]), Batch(v)) /\ RowsAt(v, DOMAIN heard[v], Rows(v, DOMAIN heard[v]))
  <2>1. silver[v].at + 1 .. Len(heard[v]) \subseteq DOMAIN heard[v]
    BY SilverFacts
  <2>2. QED BY <2>1, RowsFacts DEF Batch
<1>2. CASE TypeTrades(v)
  BY <1>1, <1>2 DEF TypeTrades, Batch, RowsAt
<1>3. CASE ReplayDay(v)
  <2>1. DayRows(v) \in SUBSET Row
    BY <1>1 DEF DayRows, RowsAt
  <2>2. Write(v, DayRows(v), Len(heard[v]))
    BY <1>3 DEF ReplayDay, DayRows
  <2>3. QED BY <2>1, <2>2
<1>4. QED BY <1>2, <1>3

LEMMA TypeCStep ==
  ASSUME TypeOK, Next
  PROVE  TypeC'
<1>1. CASE \E v \in Venue : TypeTrades(v) \/ ReplayDay(v)
  <2>1. PICK v \in Venue : TypeTrades(v) \/ ReplayDay(v)
    BY <1>1
  <2>2. silver' \in [Venue -> [gen : Nat, at : Nat, commits : Seq(SUBSET SilverRow)]]
    <3>1. CASE silver' = silver
      BY <3>1 DEF TypeOK
    <3>2. CASE \E batch \in SUBSET Row : Write(v, batch, Len(heard[v]))
      BY <3>2, SilverFacts, WriteType
    <3>3. QED BY <2>1, <3>1, <3>2, WriteCases
  <2>3. QED BY <2>1, <2>2 DEF TypeTrades, ReplayDay, TypeOK, TypeC
<1>2. CASE \E v \in Venue : AddTrades(v)
  <2>1. PICK v \in Venue : AddTrades(v)
    BY <1>2
  <2>2. silver' = silver
    BY <2>1 DEF AddTrades
  <2>3. CASE Adds(v)
    <3>1. gold' \in Seq(SUBSET GoldRow)
      BY <2>3, AddedType, AppendFacts DEF Adds, TypeOK
    <3>2. Snapshot(v) \in [gen : Nat, snapshot : Nat]
      BY SilverFacts DEF Snapshot
    <3>3. position' \in [Venue -> [gen : Nat, snapshot : Nat]]
      BY <2>3, <3>2 DEF Adds, TypeOK
    <3>4. QED BY <2>2, <3>1, <3>3 DEF TypeOK, TypeC
  <2>4. QED BY <2>1, <2>2, <2>3, AddCases DEF TypeOK, TypeC
<1>3. CASE \E t \in Venue \cup Derived \cup {Trades} : Drop(t)
  <2>1. PICK t \in Venue \cup Derived \cup {Trades} : Drop(t)
    BY <1>3
  <2>2. CASE t \in Venue
    <3>1. silver' = [silver EXCEPT ![t] = [gen |-> @.gen + 1, at |-> 0, commits |-> <<>>]]
          /\ UNCHANGED <<gold, position>>
      BY <2>1, <2>2 DEF Drop
    <3>2. [gen |-> silver[t].gen + 1, at |-> 0, commits |-> <<>>]
            \in [gen : Nat, at : Nat, commits : Seq(SUBSET SilverRow)]
      BY <2>2, SilverFacts
    <3>3. QED BY <2>2, <3>1, <3>2 DEF TypeOK, TypeC
  <2>3. CASE t \notin Venue
    <3>1. silver' = silver /\ \/ UNCHANGED <<gold, position>>
                              \/ gold' = <<>> /\ position' = [v \in Venue |-> NoPosition]
      BY <2>1, <2>3 DEF Drop
    <3>2. <<>> \in Seq(SUBSET GoldRow) /\ NoPosition \in [gen : Nat, snapshot : Nat]
      BY DEF NoPosition
    <3>3. [v \in Venue |-> NoPosition] \in [Venue -> [gen : Nat, snapshot : Nat]]
      BY <3>2
    <3>4. QED BY <3>1, <3>2, <3>3 DEF TypeOK, TypeC
  <2>4. QED BY <2>2, <2>3
<1>4. CASE StartIngest \/ StartRebuild
  BY <1>4, StartPlans DEF TypeOK, TypeC
<1>5. CASE UNCHANGED <<silver, gold, position>>
  BY <1>5 DEF TypeOK, TypeC
<1>6. QED
  BY <1>1, <1>2, <1>3, <1>4, <1>5 DEF Next, Step, Hear, NextDay, Killed, Cut, Dies, ReplayEnds,
         SkipDerived, MergeCandles, DeleteBars, AppendBars, FillDerived, Create

LEMMA TypeDStep ==
  ASSUME TypeOK, PlanInv, Next
  PROVE  TypeD'
<1> USE DEF TypeD
<1>0. /\ stored \in [Derived -> [Key -> SUBSET GoldRow]] /\ owed \subseteq Derived \X Key
      /\ \A t, k : Computed(t, k) \in SUBSET GoldRow
  BY GoldFacts DEF TypeOK
<1>1. CASE \E t \in Frames : MergeCandles(t)
  <2>1. PICK t \in Frames : MergeCandles(t)
    BY <1>1
  <2>2. stored' = [stored EXCEPT ![t] = [k \in Key |-> IF k \in Touched(t) THEN Computed(t, k) ELSE @[k]]]
    BY <2>1 DEF MergeCandles, Recomputed
  <2>3. t \in Derived
    BY DEF Derived
  <2>4. stored' \in [Derived -> [Key -> SUBSET GoldRow]]
    BY <1>0, <2>2, <2>3
  <2>5. owed' \subseteq owed
    BY <2>1 DEF MergeCandles, Paid
  <2>6. QED BY <1>0, <2>4, <2>5
<1>2. CASE DeleteBars
  <2>1. stored' \in [Derived -> [Key -> SUBSET GoldRow]] /\ owed' = owed
    BY <1>0, <1>2, Constants DEF DeleteBars
  <2>2. QED BY <1>0, <2>1
<1>3. CASE AppendBars
  <2>1. stored' = [stored EXCEPT ![Bars] =
                     [k \in Key |-> @[k] \cup IF k \in Touched(Bars) THEN Computed(Bars, k) ELSE {}]]
    BY <1>3 DEF AppendBars
  <2>2. stored' \in [Derived -> [Key -> SUBSET GoldRow]]
    BY <1>0, <2>1, Constants
  <2>3. owed' \subseteq owed
    BY <1>3 DEF AppendBars, Paid
  <2>4. QED BY <1>0, <2>2, <2>3
<1>4. CASE \E t \in Derived : FillDerived(t)
  <2>1. PICK t \in Derived : FillDerived(t)
    BY <1>4
  <2>2. stored' = [stored EXCEPT ![t] = [k \in Key |-> @[k] \cup Computed(t, k)]]
    BY <2>1 DEF FillDerived
  <2>3. stored' \in [Derived -> [Key -> SUBSET GoldRow]]
    BY <1>0, <2>2
  <2>4. owed' \subseteq owed
    BY <2>1 DEF FillDerived, Paid
  <2>5. QED BY <1>0, <2>3, <2>4
<1>5. CASE \E t \in Venue \cup Derived \cup {Trades} : Drop(t)
  <2>1. PICK t \in Venue \cup Derived \cup {Trades} : Drop(t)
    BY <1>5
  <2>2. owed' = owed /\ (stored' = stored \/ (t \in Derived /\ stored' = [stored EXCEPT ![t] = NoRows]))
    BY <2>1, Constants DEF Drop
  <2>3. stored' \in [Derived -> [Key -> SUBSET GoldRow]]
    BY <1>0, <2>2 DEF NoRows
  <2>4. QED BY <1>0, <2>2, <2>3
<1>6. CASE Cut
  BY <1>0, <1>6, UnpaidType DEF Cut
<1>7. CASE StartIngest \/ StartRebuild
  BY <1>0, <1>7, StartPlans
<1>8. CASE UNCHANGED <<stored, owed>>
  BY <1>0, <1>8
<1>9. QED
  BY <1>1, <1>2, <1>3, <1>4, <1>5, <1>6, <1>7, <1>8 DEF Next, Step, Hear, NextDay, Killed, Dies, TypeTrades,
     ReplayDay, ReplayEnds, AddTrades, SkipDerived, Create, history

LEMMA TypeStep ==
  ASSUME TypeOK, PlanInv, HeardInv, [Next]_vars
  PROVE  TypeOK'
<1>1. CASE UNCHANGED vars
  BY <1>1 DEF vars, TypeOK
<1>2. CASE Next
  BY <1>2, TypeParts, TypeAStep, TypeBStep, TypeCStep, TypeDStep
       DEF TypeOK, TypeA, TypeB, TypeC, TypeD, HeardInv
<1>3. QED BY <1>1, <1>2

-----------------------------------------------------------------------------
(* What the venues send *)

LEMMA HearFacts ==
  ASSUME TypeOK, NEW v \in Venue, NEW id \in Ids, Hear(v, id)
  PROVE  /\ Len(heard[v]) \in Nat /\ DOMAIN heard[v] = 1..Len(heard[v])
         /\ Len(heard'[v]) = Len(heard[v]) + 1
         /\ DOMAIN heard'[v] = 1..(Len(heard[v]) + 1)
         /\ \A n \in 1..Len(heard[v]) : heard'[v][n] = heard[v][n]
         /\ heard'[v][Len(heard[v]) + 1] = [id |-> id, day |-> today]
         /\ \A u \in Venue : u # v => heard'[u] = heard[u]
<1>1. [id |-> id, day |-> today] \in Delivery /\ heard[v] \in Seq(Delivery)
  BY DEF TypeOK, Delivery
<1>2. /\ heard'[v] = Append(heard[v], [id |-> id, day |-> today])
      /\ \A u \in Venue : u # v => heard'[u] = heard[u]
  BY DEF TypeOK, Hear
<1>3. Len(heard[v]) \in Nat
  BY <1>1
<1>4. QED BY <1>1, <1>2, <1>3, AppendFacts

\* Deliveries are appended and stay.
HeardStays ==
  \A v \in Venue :
    /\ Len(heard[v]) \in Nat /\ Len(heard'[v]) \in Nat /\ Len(heard[v]) <= Len(heard'[v])
    /\ DOMAIN heard[v] = 1..Len(heard[v]) /\ DOMAIN heard'[v] = 1..Len(heard'[v])
    /\ \A n \in 1..Len(heard[v]) : heard'[v][n] = heard[v][n]

LEMMA HeardKept ==
  ASSUME TypeOK, [Next]_vars
  PROVE  HeardStays /\ (~(\E v \in Venue, id \in Ids : Hear(v, id)) => heard' = heard)
<1>1. ASSUME NEW v \in Venue, NEW id \in Ids, Hear(v, id) PROVE HeardStays
  <2> SUFFICES ASSUME NEW u \in Venue
               PROVE  /\ Len(heard[u]) \in Nat /\ Len(heard'[u]) \in Nat /\ Len(heard[u]) <= Len(heard'[u])
                      /\ DOMAIN heard[u] = 1..Len(heard[u]) /\ DOMAIN heard'[u] = 1..Len(heard'[u])
                      /\ \A n \in 1..Len(heard[u]) : heard'[u][n] = heard[u][n]
    BY DEF HeardStays
  <2>1. CASE u = v
    <3>1. /\ Len(heard[v]) \in Nat /\ DOMAIN heard[v] = 1..Len(heard[v])
          /\ Len(heard'[v]) = Len(heard[v]) + 1
          /\ DOMAIN heard'[v] = 1..(Len(heard[v]) + 1)
          /\ \A n \in 1..Len(heard[v]) : heard'[v][n] = heard[v][n]
      BY <1>1, HearFacts
    <3>2. Len(heard[v]) <= Len(heard[v]) + 1 /\ Len(heard[v]) + 1 \in Nat
      BY <3>1
    <3>3. QED BY <2>1, <3>1, <3>2
  <2>2. CASE u # v
    <3>1. heard'[u] = heard[u]
      BY <1>1, <2>2, HearFacts
    <3>2. QED BY <3>1, SilverFacts
  <2>3. QED BY <2>1, <2>2
<1>2. ASSUME heard' = heard PROVE HeardStays
  BY <1>2, SilverFacts DEF HeardStays
<1>3. ~(\E v \in Venue, id \in Ids : Hear(v, id)) => heard' = heard
  <2>1. CASE StartIngest \/ StartRebuild
    BY <2>1, StartPlans
  <2>2. CASE UNCHANGED vars
    BY <2>2 DEF vars
  <2>3. CASE Next /\ ~StartIngest /\ ~StartRebuild
    BY <2>3 DEF Next, Step, NextDay, Killed, Cut, Dies, TypeTrades, ReplayDay, ReplayEnds, AddTrades,
       SkipDerived, MergeCandles, DeleteBars, AppendBars, FillDerived, Drop, Create, Done
  <2>4. QED BY <2>1, <2>2, <2>3
<1>4. QED BY <1>1, <1>2, <1>3

\* One venue's part of HeardInv, for one delivery.
Heard(v, n) ==
  /\ heard[v][n].day <= today
  /\ \A m \in 1..n : heard[v][m].day <= heard[v][n].day
  /\ ~First(v, n) => \E m \in 1..(n - 1) :
                       Sent(v, m, n) /\ heard[v][n].day <= heard[v][m].day + MaxResend

LEMMA HeardParts == HeardInv <=> today <= events /\ \A v \in Venue : \A n \in DOMAIN heard[v] : Heard(v, n)
BY DEF HeardInv, Heard

\* What a delivery has behind it does not change.
LEMMA HeardSame ==
  ASSUME TypeOK, HeardStays, NEW v \in Venue, NEW n \in 1..Len(heard[v])
  PROVE  /\ \A m \in 1..n : heard'[v][m] = heard[v][m]
         /\ First(v, n)' <=> First(v, n)
         /\ today <= today' /\ today' \in Nat /\ Heard(v, n) => Heard(v, n)'
<1>1. \A m \in 1..n : heard'[v][m] = heard[v][m]
  BY DEF HeardStays
<1>2. n \in 1..n /\ \A m \in 1..(n - 1) : m \in 1..n
  BY DEF HeardStays
<1>3. \A m \in 1..(n - 1) : heard'[v][m] = heard[v][m]
  BY <1>1, <1>2
<1>4. heard'[v][n] = heard[v][n]
  BY <1>1, <1>2
<1>5. First(v, n)' <=> First(v, n)
  BY <1>3, <1>4 DEF First, Sent
<1>6. \A m \in 1..n : heard[v][m].day \in Nat
  <2>1. \A m \in 1..n : m \in DOMAIN heard[v]
    BY DEF HeardStays
  <2>2. heard[v] \in Seq(Delivery)
    BY DEF TypeOK
  <2>3. \A m \in 1..n : heard[v][m] \in Delivery
    BY <2>1, <2>2
  <2>4. QED BY <2>3, Constants DEF Delivery
<1>7. today <= today' /\ today' \in Nat /\ Heard(v, n) => Heard(v, n)'
  <2> SUFFICES ASSUME today <= today', today' \in Nat, Heard(v, n) PROVE Heard(v, n)'
    OBVIOUS
  <2>1. heard[v][n].day <= today'
    <3>1. heard[v][n].day <= today /\ today \in Nat /\ heard[v][n].day \in Nat
      BY <1>2, <1>6 DEF Heard, TypeOK
    <3>2. QED BY <3>1
  <2>2. QED BY <1>1, <1>3, <1>4, <1>5, <2>1 DEF Heard, Sent
<1>8. QED BY <1>1, <1>5, <1>7

LEMMA HearNext ==
  ASSUME TypeOK, HeardInv, NEW v \in Venue, NEW id \in Ids, Hear(v, id),
         NEW CONSTANT N \in Nat, NEW CONSTANT n \in Nat, N = Len(heard[v]), n = N + 1
  PROVE  Heard(v, n)'
<1>1. /\ DOMAIN heard[v] = 1..N /\ today' = today
      /\ \A m \in 1..N : heard'[v][m] = heard[v][m]
      /\ heard'[v][n] = [id |-> id, day |-> today]
      /\ \A m \in 1..n : m \in 1..N \/ m = n
      /\ n - 1 = N
  <2>1. DOMAIN heard[v] = 1..N /\ (\A m \in 1..N : heard'[v][m] = heard[v][m])
        /\ heard'[v][n] = [id |-> id, day |-> today]
    BY HearFacts
  <2>2. today' = today
    BY DEF Hear
  <2>3. (\A m \in 1..n : m \in 1..N \/ m = n) /\ n - 1 = N
    OBVIOUS
  <2>4. QED BY <2>1, <2>2, <2>3
<1>2. heard[v] \in Seq(Delivery) /\ today \in Nat /\ id \in Nat
  BY Constants DEF TypeOK
<1>3. \A m \in 1..N : heard[v][m].day \in Nat /\ heard[v][m].id \in Nat
  <2>1. \A m \in 1..N : heard[v][m] \in Delivery
    BY <1>1, <1>2
  <2>2. \A m \in 1..N : heard[v][m].day \in 0..MaxEvents /\ heard[v][m].id \in Ids
    BY <2>1 DEF Delivery
  <2>3. Ids \subseteq Nat /\ 0..MaxEvents \subseteq Nat
    BY Constants
  <2>4. QED BY <2>2, <2>3
<1>4. \A m \in 1..N : heard[v][m].day <= today
  BY <1>1 DEF HeardInv
<1>5. heard'[v][n].day <= today' /\ \A m \in 1..n : heard'[v][m].day <= heard'[v][n].day
  BY <1>1, <1>2, <1>4
<1>6. HeardIds(v) = {heard[v][m].id : m \in 1..N}
  BY <1>1 DEF HeardIds, Range
<1>7. First(v, n)' <=> id \notin HeardIds(v)
  <2>1. First(v, n)' <=> \A m \in 1..N : heard'[v][m].id # heard'[v][n].id
    BY <1>1 DEF First, Sent
  <2>2. First(v, n)' <=> \A m \in 1..N : heard[v][m].id # id
    BY <1>1, <2>1
  <2>3. QED BY <1>6, <2>2
<1>9. ~First(v, n)' => \E m \in 1..N : heard'[v][m].id = id /\ today <= heard'[v][m].day + MaxResend
  <2> SUFFICES ASSUME id \in HeardIds(v)
               PROVE  \E m \in 1..N : heard[v][m].id = id /\ today <= heard[v][m].day + MaxResend
    BY <1>1, <1>7
  <2>1. today - LastDay(v, id) <= MaxResend
    <3>1. ~Fresh(v, id)
      BY DEF Fresh
    <3>2. QED BY <3>1 DEF Hear, Resent
  <2> DEFINE D == {heard[v][m].day : m \in {k \in DOMAIN heard[v] : heard[v][k].id = id}}
  <2>2. D # {} /\ D \in SUBSET Nat /\ \A d \in D : d <= today
    BY <1>1, <1>3, <1>4, <1>6
  <2>3. LastDay(v, id) = Max(D)
    BY DEF LastDay
  <2> HIDE DEF D
  <2>4. Max(D) \in D
    BY <1>2, <2>2, NatMax
  <2>5. PICK m \in 1..N : heard[v][m].id = id /\ Max(D) = heard[v][m].day
    BY <1>1, <2>4 DEF D
  <2>6. today <= heard[v][m].day + MaxResend
    <3>1. today - heard[v][m].day <= MaxResend
      BY <2>1, <2>3, <2>5
    <3>2. QED BY <1>2, <1>3, <3>1, Constants
  <2>7. QED BY <2>5, <2>6
<1>10. QED BY <1>1, <1>5, <1>9 DEF Heard, Sent

LEMMA HeardStep ==
  ASSUME TypeOK, HeardInv, [Next]_vars
  PROVE  HeardInv'
<1>0. today \in Nat /\ events \in Nat /\ today <= events
      /\ today' \in Nat /\ today <= today' /\ today' <= events'
  <2>1. today \in Nat /\ events \in Nat /\ today <= events
    BY DEF TypeOK, HeardInv
  <2>2. \/ today' = today /\ events' = events
        \/ today' = today /\ events' = events + 1
        \/ today' = today + 1 /\ events' = events + 1
    BY DEF Next, StartIngest, StartRebuild, Begin, Event, vars, Step, Hear, NextDay, Killed, Cut, Dies,
       TypeTrades, ReplayDay, ReplayEnds, AddTrades, SkipDerived, MergeCandles, DeleteBars, AppendBars,
       FillDerived, Drop, Create, Done, history
  <2>3. QED BY <2>1, <2>2
<1>1. HeardStays
  BY HeardKept
<1>2. \A v \in Venue : \A n \in 1..Len(heard[v]) : Heard(v, n)'
  <2> SUFFICES ASSUME NEW v \in Venue, NEW n \in 1..Len(heard[v]) PROVE Heard(v, n)'
    OBVIOUS
  <2>1. Heard(v, n)
    BY <1>1, HeardParts DEF HeardStays
  <2>2. QED BY <1>0, <1>1, <2>1, HeardSame
<1>3. \A v \in Venue : \A n \in DOMAIN heard'[v] : Heard(v, n)'
  <2> SUFFICES ASSUME NEW v \in Venue, NEW n \in DOMAIN heard'[v] PROVE Heard(v, n)'
    OBVIOUS
  <2>1. CASE n \in 1..Len(heard[v])
    BY <1>2, <2>1
  <2>2. CASE n \notin 1..Len(heard[v])
    <3>1. heard' # heard
      BY <1>1, <2>2 DEF HeardStays
    <3>2. PICK u \in Venue, id \in Ids : Hear(u, id)
      BY <3>1, HeardKept
    <3>3. u = v
      <4>1. u # v => heard'[v] = heard[v]
        BY <3>2, HearFacts
      <4>2. QED BY <1>1, <2>2, <4>1 DEF HeardStays
    <3>4. n \in 1..(Len(heard[v]) + 1) /\ Len(heard[v]) \in Nat
      BY <3>2, <3>3, HearFacts
    <3>5. n = Len(heard[v]) + 1 /\ n \in Nat
      BY <2>2, <3>4
    <3>6. PICK N \in Nat : N = Len(heard[v])
      BY <3>4
    <3>7. QED BY <3>2, <3>3, <3>5, <3>6, HearNext
  <2>3. QED BY <2>1, <2>2
<1>4. QED BY <1>0, <1>3, HeardParts DEF Heard, HeardInv, First, Sent

-----------------------------------------------------------------------------
(* The rows of silver *)

SilverPart(v) ==
  /\ silver[v].gen > 0
  /\ silver[v].at <= Len(heard[v])
  /\ silver[v].commits = <<>> => silver[v].at = 0
  /\ RowsOf(v, SilverRows(v))
  /\ \A i, j \in DOMAIN silver[v].commits :
       \A r \in silver[v].commits[i], q \in silver[v].commits[j] :
         r.n = q.n => i = j /\ r = q

LEMMA SilverParts == SilverInv <=> \A v \in Venue : SilverPart(v)
BY DEF SilverInv, SilverPart

\* What is written is new to silver.
NewBatch(v, batch) ==
  /\ batch \subseteq Row /\ batch # {}
  /\ \A b \in batch : /\ b.n \in 1..Len(heard[v]) /\ ~Typed(v, b.n)
                      /\ b.id = heard[v][b.n].id /\ b.day = heard[v][b.n].day
  /\ \A b, c \in batch : b.n = c.n => b = c

LEMMA TypeBatch ==
  ASSUME TypeOK, SilverInv, NEW v \in Venue, TypeTrades(v)
  PROVE  \/ silver' = silver
         \/ Write(v, Batch(v), Len(heard[v])) /\ NewBatch(v, Batch(v)) /\ Len(heard[v]) > 0
<1>1. CASE Len(heard[v]) = silver[v].at
  BY <1>1 DEF TypeTrades
<1>2. CASE Len(heard[v]) # silver[v].at
  <2> DEFINE ns == silver[v].at + 1 .. Len(heard[v])
  <2>1. silver[v].at < Len(heard[v]) /\ Len(heard[v]) \in Nat /\ silver[v].at \in Nat
    BY <1>2, SilverFacts DEF SilverInv
  <2>2. ns \subseteq 1..Len(heard[v]) /\ Len(heard[v]) \in ns
    BY <2>1
  <2>3. RowsAt(v, ns, Batch(v))
    BY <2>2, SilverFacts, RowsFacts DEF Batch
  <2>4. \A n \in ns : ~Typed(v, n)
    BY <2>1 DEF SilverInv, RowsOf, Typed
  <2> HIDE DEF ns
  <2>5. NewBatch(v, Batch(v))
    BY <2>2, <2>3, <2>4 DEF RowsAt, NewBatch
  <2>6. Write(v, Batch(v), Len(heard[v]))
    BY <1>2 DEF TypeTrades, Batch
  <2>7. QED BY <2>1, <2>5, <2>6
<1>3. QED BY <1>1, <1>2

\* The first of the days that are left.
LEMMA DayFacts ==
  ASSUME TypeOK, NEW v \in Venue, DaysLeft(v) # {}
  PROVE  /\ Min(DaysLeft(v)) \in Nat /\ Min(DaysLeft(v)) \in DaysLeft(v)
         /\ \A d \in DaysLeft(v) : d \in Nat /\ Min(DaysLeft(v)) <= d
<1>1. \A n \in DOMAIN heard[v] : heard[v][n].day \in 0..MaxEvents
  <2>1. \A n \in DOMAIN heard[v] : heard[v][n] \in Delivery
    BY DEF TypeOK
  <2>2. QED BY <2>1 DEF Delivery
<1>2. \A d \in DaysLeft(v) : \E n \in DOMAIN heard[v] : d = heard[v][n].day
  BY DEF DaysLeft, Range
<1>3. 0..MaxEvents \subseteq Nat
  BY Constants
<1>4. DaysLeft(v) \in SUBSET Nat
  BY <1>1, <1>2, <1>3
<1>5. QED BY <1>4, NatMin

LEMMA DayBatch ==
  ASSUME TypeOK, SilverInv, NEW v \in Venue, ReplayDay(v)
  PROVE  Write(v, DayRows(v), Len(heard[v])) /\ NewBatch(v, DayRows(v)) /\ Len(heard[v]) > 0
<1> DEFINE D == Min(DaysLeft(v))
<1>1. DaysLeft(v) # {} /\ Write(v, DayRows(v), Len(heard[v]))
  BY DEF ReplayDay, DayRows
<1>2. D \in DaysLeft(v)
  BY <1>1, DayFacts
<1>3. PICK n \in DOMAIN heard[v] : D = heard[v][n].day
  BY <1>2 DEF DaysLeft, Range
<1>4. \A r \in SilverRows(v) : r.day # D
  BY <1>2 DEF DaysLeft
<1>5. DOMAIN heard[v] = 1..Len(heard[v]) /\ Len(heard[v]) > 0
  BY <1>3, SilverFacts
<1>6. RowsAt(v, DOMAIN heard[v], Rows(v, DOMAIN heard[v]))
  BY RowsFacts
<1>7. DayRows(v) = {r \in Rows(v, DOMAIN heard[v]) : r.day = D}
  BY DEF DayRows
<1> HIDE DEF D
<1>8. DayRows(v) # {}
  BY <1>3, <1>6, <1>7 DEF RowsAt
<1>9. ASSUME NEW b \in DayRows(v) PROVE ~Typed(v, b.n)
  <2>1. b.day = D /\ b.day = heard[v][b.n].day
    BY <1>6, <1>7 DEF RowsAt
  <2>2. ASSUME NEW r \in SilverRows(v), r.n = b.n PROVE FALSE
    <3>1. r.day = heard[v][r.n].day
      BY DEF SilverInv, RowsOf
    <3>2. QED BY <1>4, <2>1, <2>2, <3>1
  <2>3. QED BY <2>2 DEF Typed
<1>10. NewBatch(v, DayRows(v))
  BY <1>5, <1>6, <1>7, <1>8, <1>9 DEF RowsAt, NewBatch
<1>11. QED BY <1>1, <1>5, <1>10

\* A write, and what silver has after it.
Writes(v, batch) ==
  /\ TypeOK /\ Write(v, batch, Len(heard[v])) /\ NewBatch(v, batch) /\ Len(heard[v]) > 0
  /\ heard' = heard

LEMMA WriteFacts ==
  ASSUME NEW v \in Venue, NEW batch, Writes(v, batch)
  PROVE  /\ silver'[v].gen = silver[v].gen /\ silver'[v].at = Len(heard[v])
         /\ \A u \in Venue : u # v => silver'[u] = silver[u]
         /\ silver[v].commits \in Seq(SUBSET SilverRow)
         /\ silver'[v].commits = Append(silver[v].commits, Scored(v, batch))
         /\ Len(silver'[v].commits) = Len(silver[v].commits) + 1
         /\ Len(silver[v].commits) \in Nat /\ DOMAIN silver[v].commits = 1..Len(silver[v].commits)
         /\ DOMAIN silver'[v].commits = 1..(Len(silver[v].commits) + 1)
         /\ \A i \in 1..Len(silver[v].commits) : silver'[v].commits[i] = silver[v].commits[i]
         /\ silver'[v].commits[Len(silver[v].commits) + 1] = Scored(v, batch)
         /\ SilverRows(v)' = SilverRows(v) \cup Scored(v, batch)
         /\ LookbackRows(v, batch) \in SUBSET SilverRow
         /\ IsScore(batch, Both(batch, LookbackRows(v, batch)), Scored(v, batch))
<1>1. TypeOK /\ batch \in SUBSET Row /\ Len(heard[v]) \in Nat /\ Write(v, batch, Len(heard[v]))
  BY SilverFacts DEF Writes, NewBatch
<1>2. /\ silver'[v].gen = silver[v].gen /\ silver'[v].at = Len(heard[v])
      /\ silver'[v].commits = Append(silver[v].commits, Scored(v, batch))
      /\ \A u \in Venue : u # v => silver'[u] = silver[u]
      /\ Scored(v, batch) \in SUBSET SilverRow
  BY <1>1, WriteType
<1>3. silver[v].commits \in Seq(SUBSET SilverRow) /\ SilverRows(v) \subseteq SilverRow
  BY <1>1, SilverFacts
<1>4. /\ Len(silver'[v].commits) = Len(silver[v].commits) + 1
      /\ Len(silver[v].commits) \in Nat /\ DOMAIN silver[v].commits = 1..Len(silver[v].commits)
      /\ DOMAIN silver'[v].commits = 1..(Len(silver[v].commits) + 1)
      /\ \A i \in 1..Len(silver[v].commits) : silver'[v].commits[i] = silver[v].commits[i]
      /\ silver'[v].commits[Len(silver[v].commits) + 1] = Scored(v, batch)
      /\ Range(silver'[v].commits) = Range(silver[v].commits) \cup {Scored(v, batch)}
  <2>1. Len(silver[v].commits) \in Nat
    BY <1>3
  <2>2. QED BY <1>2, <1>3, <2>1, AppendFacts
<1>5. SilverRows(v)' = SilverRows(v) \cup Scored(v, batch)
  BY <1>4 DEF SilverRows
<1>6. LookbackRows(v, batch) \in SUBSET SilverRow
  BY <1>3 DEF LookbackRows
<1>7. IsScore(batch, Both(batch, LookbackRows(v, batch)), Scored(v, batch))
  BY <1>1, <1>6, ScoreFacts DEF Scored
<1>8. QED BY <1>2, <1>3, <1>4, <1>5, <1>6, <1>7

LEMMA SilverSame ==
  ASSUME TypeOK, HeardStays, NEW v \in Venue, SilverPart(v), silver'[v] = silver[v]
  PROVE  SilverPart(v)'
<1>1. SilverRows(v)' = SilverRows(v)
  BY DEF SilverRows
<1>2. silver[v].at \in Nat /\ Len(heard[v]) \in Nat /\ Len(heard'[v]) \in Nat
      /\ silver[v].at <= Len(heard[v]) /\ Len(heard[v]) <= Len(heard'[v])
  BY SilverFacts DEF SilverPart, HeardStays
<1>3. \A n \in 1..silver[v].at : heard'[v][n] = heard[v][n]
  <2>1. \A n \in 1..silver[v].at : n \in 1..Len(heard[v])
    BY <1>2
  <2>2. QED BY <2>1 DEF HeardStays
<1>4. RowsOf(v, SilverRows(v)) => RowsOf(v, SilverRows(v))'
  BY <1>1, <1>3 DEF RowsOf
<1>5. silver'[v].at <= Len(heard'[v])
  BY <1>2
<1>6. QED BY <1>4, <1>5 DEF SilverPart

LEMMA SilverWritten ==
  ASSUME NEW v \in Venue, NEW batch, Writes(v, batch), SilverPart(v)
  PROVE  SilverPart(v)'
<1> DEFINE n == Len(silver[v].commits)
           new == Scored(v, batch)
<1>1. /\ silver'[v].gen = silver[v].gen /\ silver'[v].at = Len(heard[v]) /\ heard' = heard
      /\ n \in Nat /\ DOMAIN silver[v].commits = 1..n /\ DOMAIN silver'[v].commits = 1..(n + 1)
      /\ \A i \in 1..n : silver'[v].commits[i] = silver[v].commits[i]
      /\ silver'[v].commits[n + 1] = new
      /\ SilverRows(v)' = SilverRows(v) \cup new
      /\ IsScore(batch, Both(batch, LookbackRows(v, batch)), new)
  BY WriteFacts DEF Writes
<1>2. Len(heard[v]) \in Nat /\ silver[v].at \in Nat /\ silver[v].at <= Len(heard[v])
  BY SilverFacts DEF Writes, SilverPart
<1>3. /\ \A r \in new : \E b \in batch :
           /\ r.n = b.n /\ r.id = b.id /\ r.day = b.day
           /\ r.replay = IsReplay(b, Both(batch, LookbackRows(v, batch)))
           /\ r.missing = Missing(b, Both(batch, LookbackRows(v, batch)))
      /\ new \subseteq SilverRow
  BY <1>1 DEF IsScore
<1>4. NewBatch(v, batch)
  BY DEF Writes
<1>5. \A i \in 1..n : \A r \in silver[v].commits[i] : r \in SilverRows(v)
  BY <1>1 DEF SilverRows, Range
<1> HIDE DEF n, new
<1>6. \A r \in new : /\ r.n \in 1..Len(heard[v]) /\ ~Typed(v, r.n)
                     /\ r.id = heard[v][r.n].id /\ r.day = heard[v][r.n].day
  BY <1>3, <1>4 DEF NewBatch
<1>7. \A r, q \in new : r.n = q.n => r = q
  <2> SUFFICES ASSUME NEW r \in new, NEW q \in new, r.n = q.n PROVE r = q
    OBVIOUS
  <2>1. PICK b \in batch :
           /\ r.n = b.n /\ r.id = b.id /\ r.day = b.day
           /\ r.replay = IsReplay(b, Both(batch, LookbackRows(v, batch)))
           /\ r.missing = Missing(b, Both(batch, LookbackRows(v, batch)))
    BY <1>3
  <2>2. PICK c \in batch :
           /\ q.n = c.n /\ q.id = c.id /\ q.day = c.day
           /\ q.replay = IsReplay(c, Both(batch, LookbackRows(v, batch)))
           /\ q.missing = Missing(c, Both(batch, LookbackRows(v, batch)))
    BY <1>3
  <2>3. b = c
    BY <1>4, <2>1, <2>2 DEF NewBatch
  <2>4. r.n = q.n /\ r.id = q.id /\ r.day = q.day /\ r.replay = q.replay /\ r.missing = q.missing
    BY <2>1, <2>2, <2>3
  <2>5. r \in SilverRow /\ q \in SilverRow
    BY <1>3
  <2>6. QED BY <2>4, <2>5 DEF SilverRow
<1>8. \A i \in 1..n : \A r \in silver[v].commits[i], q \in new : r.n # q.n
  BY <1>5, <1>6 DEF Typed
<1>9. ASSUME NEW i \in 1..(n + 1), NEW j \in 1..(n + 1),
             NEW r \in silver'[v].commits[i], NEW q \in silver'[v].commits[j], r.n = q.n
      PROVE  i = j /\ r = q
  <2>0. (i \in 1..n \/ i = n + 1) /\ (j \in 1..n \/ j = n + 1)
    BY <1>1
  <2>1. CASE i \in 1..n /\ j \in 1..n
    <3>1. r \in silver[v].commits[i] /\ q \in silver[v].commits[j]
      BY <1>1, <2>1
    <3>2. i \in DOMAIN silver[v].commits /\ j \in DOMAIN silver[v].commits
      BY <1>1, <2>1
    <3>3. QED BY <1>9, <3>1, <3>2 DEF SilverPart
  <2>2. CASE i \in 1..n /\ j = n + 1
    BY <1>1, <1>8, <1>9, <2>2
  <2>3. CASE i = n + 1 /\ j \in 1..n
    BY <1>1, <1>8, <1>9, <2>3
  <2>4. CASE i = n + 1 /\ j = n + 1
    BY <1>1, <1>7, <1>9, <2>4
  <2>5. QED BY <2>0, <2>1, <2>2, <2>3, <2>4
<1>10. RowsOf(v, SilverRows(v))'
  <2>1. \A k \in 1..silver[v].at : k \in 1..Len(heard[v])
    BY <1>2
  <2>2. RowsOf(v, SilverRows(v))
    BY DEF SilverPart
  <2>3. QED BY <1>1, <1>6, <2>1, <2>2 DEF RowsOf
<1>11. silver'[v].commits # <<>>
  <2>1. n + 1 \in DOMAIN silver'[v].commits
    BY <1>1
  <2>2. QED BY <2>1
<1>12. silver'[v].gen > 0 /\ silver'[v].at <= Len(heard'[v])
  BY <1>1, <1>2 DEF SilverPart
<1>13. QED BY <1>1, <1>9, <1>10, <1>11, <1>12 DEF SilverPart

\* A table is dropped and begins anew.
Dropped(v) == silver'[v] = [gen |-> silver[v].gen + 1, at |-> 0, commits |-> <<>>]

\* What a step can do to a venue's silver.
LEMMA SilverCases ==
  ASSUME TypeOK, SilverInv, [Next]_vars, NEW v \in Venue
  PROVE  \/ silver'[v] = silver[v]
         \/ TypeTrades(v) /\ Writes(v, Batch(v))
         \/ ReplayDay(v) /\ Writes(v, DayRows(v))
         \/ Drop(v) /\ Dropped(v)
<1>1. CASE StartIngest \/ StartRebuild
  BY <1>1, StartPlans
<1>2. ASSUME NEW u \in Venue, TypeTrades(u) PROVE silver'[v] = silver[v] \/ (u = v /\ Writes(v, Batch(v)))
  <2>1. heard' = heard
    BY <1>2 DEF TypeTrades, Done
  <2>2. silver' = silver \/ Writes(u, Batch(u))
    BY <1>2, <2>1, TypeBatch DEF Writes
  <2>3. QED BY <2>2, WriteFacts
<1>3. ASSUME NEW u \in Venue, ReplayDay(u) PROVE silver'[v] = silver[v] \/ (u = v /\ Writes(v, DayRows(v)))
  <2>1. heard' = heard
    BY <1>3 DEF ReplayDay
  <2>2. Writes(u, DayRows(u))
    BY <1>3, <2>1, DayBatch DEF Writes
  <2>3. QED BY <2>2, WriteFacts
<1>4. ASSUME NEW t \in Venue \cup Derived \cup {Trades}, Drop(t) PROVE silver'[v] = silver[v] \/ (t = v /\ Dropped(v))
  <2>1. t \in Venue => silver' = [silver EXCEPT ![t] = [gen |-> @.gen + 1, at |-> 0, commits |-> <<>>]]
    BY <1>4 DEF Drop
  <2>2. t \notin Venue => silver' = silver
    BY <1>4 DEF Drop
  <2>3. QED BY <2>1, <2>2 DEF TypeOK, Dropped
<1>5. CASE UNCHANGED silver
  BY <1>5
<1>6. QED
  BY <1>1, <1>2, <1>3, <1>4, <1>5 DEF Next, Step, vars, Hear, NextDay, Killed, Cut, Dies, ReplayEnds, AddTrades,
         SkipDerived, MergeCandles, DeleteBars, AppendBars, FillDerived, Create

LEMMA DroppedFacts ==
  ASSUME TypeOK, NEW v \in Venue, Dropped(v)
  PROVE  /\ silver'[v].gen = silver[v].gen + 1 /\ silver'[v].at = 0 /\ silver'[v].commits = <<>>
         /\ SilverRows(v)' = {} /\ DOMAIN silver'[v].commits = {}
<1>1. silver'[v].gen = silver[v].gen + 1 /\ silver'[v].at = 0 /\ silver'[v].commits = <<>>
  BY DEF Dropped
<1>2. Range(silver'[v].commits) = {} /\ DOMAIN silver'[v].commits = {}
  BY <1>1 DEF Range
<1>3. QED BY <1>1, <1>2 DEF SilverRows

LEMMA SilverStep ==
  ASSUME TypeOK, SilverInv, [Next]_vars
  PROVE  SilverInv'
<1> SUFFICES ASSUME NEW v \in Venue PROVE SilverPart(v)'
  BY SilverParts DEF SilverInv, SilverPart, RowsOf
<1>0. SilverPart(v) /\ HeardStays
  BY SilverParts, HeardKept
<1>1. CASE silver'[v] = silver[v]
  BY <1>0, <1>1, SilverSame
<1>2. CASE Writes(v, Batch(v)) \/ Writes(v, DayRows(v))
  BY <1>0, <1>2, SilverWritten
<1>3. CASE Dropped(v)
  <2>1. silver[v].gen \in Nat /\ Len(heard'[v]) \in Nat
    BY <1>0, SilverFacts DEF HeardStays
  <2>2. silver'[v].gen > 0 /\ silver'[v].at <= Len(heard'[v])
    BY <1>3, <2>1, DroppedFacts
  <2>3. QED BY <1>3, <2>2, DroppedFacts DEF SilverPart, RowsOf
<1>4. QED BY <1>1, <1>2, <1>3, SilverCases

-----------------------------------------------------------------------------
(* Which deliveries silver has *)

\* A step of another job, as a venue sees it.
Elsewhere(v) ==
  /\ todo # <<>> /\ heard' = heard /\ silver'[v] = silver[v] /\ (v \in torn' <=> v \in torn)
  /\ todo' = todo \/ todo' = Tail(todo)
  /\ ~Due("drop", v)
  /\ Due("replay", v) => todo' = todo \/ DaysLeft(v) = {}

LEMMA VenueCases ==
  ASSUME TypeOK, SilverInv, Next, NEW v \in Venue
  PROVE  \/ StartIngest \/ StartRebuild
         \/ todo = <<>> /\ todo' = <<>> /\ silver' = silver /\ torn' = torn
         \/ Cut
         \/ TypeTrades(v) /\ Writes(v, Batch(v))
         \/ ReplayDay(v) /\ Writes(v, DayRows(v))
         \/ Drop(v) /\ Dropped(v)
         \/ Elsewhere(v)
<1>0. \A a, b : \A s, t : Due(a, s) /\ Due(b, t) => a = b /\ s = t
  BY DEF Due
<1>1. \/ silver'[v] = silver[v]
      \/ TypeTrades(v) /\ Writes(v, Batch(v))
      \/ ReplayDay(v) /\ Writes(v, DayRows(v))
      \/ Drop(v) /\ Dropped(v)
  BY SilverCases
<1>2. CASE silver'[v] = silver[v] /\ ~Drop(v)
  <2>1. ASSUME NEW what, NEW t, Due(what, t), what # "replay", what # "drop", Done
        PROVE  Elsewhere(v)
    <3>1. ~Due("drop", v) /\ ~Due("replay", v)
      BY <1>0, <2>1
    <3>2. QED BY <1>2, <2>1, <3>1 DEF Elsewhere, Done, Due
  <2>2. ASSUME NEW u \in Venue, TypeTrades(u) \/ AddTrades(u) PROVE Elsewhere(v)
    BY <2>1, <2>2 DEF TypeTrades, AddTrades
  <2>3. ASSUME NEW t, \/ \E what \in {"merge", "delete", "append"} : SkipDerived(what, t)
                      \/ MergeCandles(t) \/ FillDerived(t) \/ Create(t)
        PROVE  Elsewhere(v)
    BY <2>1, <2>3 DEF SkipDerived, MergeCandles, FillDerived, Create
  <2>4. ASSUME DeleteBars \/ AppendBars PROVE Elsewhere(v)
    BY <2>1, <2>4 DEF DeleteBars, AppendBars
  <2>5. ASSUME NEW u \in Venue, ReplayDay(u) PROVE Elsewhere(v)
    <3>1. ~Due("drop", v)
      BY <1>0, <2>5 DEF ReplayDay
    <3>2. QED BY <1>2, <2>5, <3>1 DEF Elsewhere, ReplayDay, Due, history
  <2>6. ASSUME NEW u \in Venue, ReplayEnds(u) PROVE Elsewhere(v)
    <3>1. ~Due("drop", v) /\ (Due("replay", v) => u = v)
      BY <1>0, <2>6 DEF ReplayEnds
    <3>2. QED BY <1>2, <2>6, <3>1 DEF Elsewhere, ReplayEnds, Done, Due
  <2>7. ASSUME NEW t \in Venue \cup Derived \cup {Trades}, Drop(t) PROVE Elsewhere(v)
    <3>1. t # v
      BY <1>2, <2>7
    <3>2. ~Due("drop", v) /\ ~Due("replay", v)
      BY <1>0, <2>7, <3>1 DEF Drop
    <3>3. v \in torn' <=> v \in torn
      BY <2>7, <3>1 DEF Drop
    <3>4. QED BY <1>2, <2>7, <3>2, <3>3 DEF Elsewhere, Drop, Due
  <2>8. ASSUME \E u \in Venue, id \in Ids : Hear(u, id)
        PROVE  todo = <<>> /\ todo' = <<>> /\ silver' = silver /\ torn' = torn
    BY <2>8 DEF Hear
  <2>9. ASSUME NextDay
        PROVE  todo = <<>> /\ todo' = <<>> /\ silver' = silver /\ torn' = torn
    BY <2>9 DEF NextDay, history
  <2>10. QED
    BY <2>2, <2>3, <2>4, <2>5, <2>6, <2>7, <2>8, <2>9 DEF Next, Step, Killed, Dies
<1>3. CASE silver'[v] = silver[v] /\ Drop(v)
  <2>1. silver' = [silver EXCEPT ![v] = [gen |-> @.gen + 1, at |-> 0, commits |-> <<>>]]
    BY <1>3 DEF Drop
  <2>2. Dropped(v)
    BY <2>1 DEF TypeOK, Dropped
  <2>3. QED BY <1>3, <2>2
<1>4. QED BY <1>1, <1>2, <1>3

\* The rebuild of a venue begins when nothing is left to be dropped.
LEMMA ReplayDue ==
  ASSUME PlanInv, NEW v \in Venue, Due("replay", v)
  PROVE  Planned("replay", v) /\ ~Planned("drop", v)
<1>1. todo # <<>> /\ Head(todo) = [do |-> "replay", on |-> v] /\ IsPlan(todo)
  BY DEF Due, PlanInv
<1>2. Planned("replay", v)
  BY <1>1, HeadIsLeast DEF Planned, Has
<1>3. ASSUME Planned("drop", v) PROVE FALSE
  <2>1. Rank(Head(todo)) <= Rank([do |-> "drop", on |-> v])
    BY <1>1, <1>3, HeadIsLeast DEF Planned, Has
  <2>2. Rank(Head(todo)) = 4 /\ Rank([do |-> "drop", on |-> v]) \in {0, 1}
    BY <1>1 DEF Rank
  <2>3. QED BY <2>1, <2>2
<1>4. QED BY <1>2, <1>3

LEMMA DaysDone ==
  ASSUME TypeOK, SilverInv, NEW v \in Venue, ByDay(v), DaysLeft(v) = {}
  PROVE  Covered(v)
<1>1. \A n \in DOMAIN heard[v] : Typed(v, n)
  <2> TAKE n \in DOMAIN heard[v]
  <2>1. heard[v][n].day \in {d.day : d \in Range(heard[v])}
    BY DEF Range
  <2>2. heard[v][n].day \in {r.day : r \in SilverRows(v)}
    BY <2>1 DEF DaysLeft
  <2>3. QED BY <2>2 DEF ByDay
<1>2. \A n \in 1..silver[v].at : n \in DOMAIN heard[v]
  BY SilverFacts DEF SilverInv
<1>3. QED BY <1>1, <1>2 DEF Covered

LEMMA NewlyTyped ==
  ASSUME NEW v \in Venue, NEW batch, Writes(v, batch)
  PROVE  /\ \A n : Typed(v, n)' <=> Typed(v, n) \/ \E b \in batch : b.n = n
         /\ \A r \in SilverRows(v)' : r \in SilverRows(v) \/ \E b \in batch : b.n = r.n /\ b.day = r.day
         /\ \A r \in SilverRows(v) : r \in SilverRows(v)'
<1>1. /\ SilverRows(v)' = SilverRows(v) \cup Scored(v, batch)
      /\ IsScore(batch, Both(batch, LookbackRows(v, batch)), Scored(v, batch))
  BY WriteFacts
<1>2. /\ \A r \in Scored(v, batch) : \E b \in batch : r.n = b.n /\ r.day = b.day
      /\ \A b \in batch : \E r \in Scored(v, batch) : r.n = b.n /\ r.day = b.day
  BY <1>1 DEF IsScore
<1>3. QED BY <1>1, <1>2 DEF Typed

CoverPart(v) ==
  /\ v \notin torn /\ ~Due("replay", v) => Covered(v)
  /\ Planned("replay", v) /\ ~Planned("drop", v) => v \notin torn /\ ByDay(v)

LEMMA CoverStep ==
  ASSUME TypeOK, PlanInv, SilverInv, CoverInv, [Next]_vars
  PROVE  CoverInv'
<1> SUFFICES ASSUME NEW v \in Venue PROVE CoverPart(v)'
  BY DEF CoverInv, CoverPart
<1>0. CoverPart(v)
  BY DEF CoverInv, CoverPart
<1>a. silver'[v] = silver[v] => (Covered(v) => Covered(v)')
  BY DEF Covered, Typed, SilverRows
<1>b. silver'[v] = silver[v] /\ heard' = heard => (ByDay(v) => ByDay(v)')
  BY DEF ByDay, Typed, SilverRows
<1>c. todo = <<>> => ~Due("replay", v)
  BY DEF Due
<1>d. todo' = <<>> => ~Planned("replay", v)'
  BY DEF Planned, Has, Range
<1>1. CASE UNCHANGED vars
  BY <1>0, <1>1, <1>a, <1>b DEF vars, CoverPart, Due, Planned
<1>2. CASE StartIngest \/ StartRebuild
  <2>1. Prepared(Range(todo')) /\ todo = <<>> /\ silver' = silver /\ torn' = torn
    BY <1>2, StartPlans
  <2>2. Planned("replay", v)' => Planned("drop", v)'
    BY <2>1 DEF Prepared, Planned, Has
  <2>3. QED BY <1>0, <1>a, <1>c, <2>1, <2>2 DEF CoverPart
<1>3. CASE todo = <<>> /\ todo' = <<>> /\ silver' = silver /\ torn' = torn
  BY <1>0, <1>3, <1>a, <1>c, <1>d DEF CoverPart
<1>4. CASE Cut
  <2>1. todo' = <<>> /\ silver' = silver /\ torn' = torn \cup Halfway
    BY <1>4 DEF Cut
  <2>2. ASSUME v \notin torn' PROVE Covered(v)
    <3>1. v \notin torn /\ v \notin Halfway
      BY <2>1, <2>2
    <3>2. CASE ~Due("replay", v)
      BY <1>0, <3>1, <3>2 DEF CoverPart
    <3>3. CASE Due("replay", v)
      <4>1. ByDay(v)
        BY <1>0, <3>3, ReplayDue DEF CoverPart
      <4>2. silver[v].commits = <<>> \/ DaysLeft(v) = {}
        BY <3>1, <3>3 DEF Halfway
      <4>3. CASE silver[v].commits = <<>>
        <5>1. silver[v].at = 0
          BY <4>3 DEF SilverInv
        <5>2. QED BY <5>1 DEF Covered
      <4>4. QED BY <4>1, <4>2, <4>3, DaysDone
    <3>4. QED BY <3>2, <3>3
  <2>3. QED BY <1>a, <1>d, <2>1, <2>2 DEF CoverPart
<1>5. CASE TypeTrades(v) /\ Writes(v, Batch(v))
  <2>1. Due("type", v) /\ todo # <<>> /\ torn' = torn /\ todo' = Tail(todo)
    BY <1>5 DEF TypeTrades, Done, Due
  <2>2. IsPlan(todo) /\ Head(todo) = [do |-> "type", on |-> v]
    BY <2>1 DEF Due, PlanInv
  <2>3. ~Due("replay", v)
    BY <2>2 DEF Due
  <2>4. ~Planned("replay", v)
    <3> SUFFICES ASSUME [do |-> "replay", on |-> v] \in Range(todo) PROVE FALSE
      BY DEF Planned, Has
    <3>1. Head(todo) \in Range(todo) /\ Complete(Range(todo))
      BY <2>1, <2>2, HeadIsLeast DEF IsPlan
    <3>2. \A j \in Range(todo) : j.do = "replay" => \A k \in Range(todo) : k.do # "type"
      BY <3>1 DEF Complete
    <3>3. Head(todo).do # "type"
      BY <3>1, <3>2
    <3>4. QED BY <2>2, <3>3
  <2>5. ~Planned("replay", v)'
    BY <2>1, <2>2, <2>4, HeadIsLeast DEF Planned, Has
  <2>6. ASSUME v \notin torn PROVE Covered(v)'
    <3>1. Covered(v)
      BY <1>0, <2>3, <2>6 DEF CoverPart
    <3>2. silver'[v].at = Len(heard[v]) /\ silver[v].at \in Nat /\ Len(heard[v]) \in Nat
      BY <1>5, WriteFacts, SilverFacts
    <3>3. silver[v].at + 1 .. Len(heard[v]) \subseteq DOMAIN heard[v]
      BY <3>2, SilverFacts
    <3>4. \A n \in silver[v].at + 1 .. Len(heard[v]) : \E b \in Batch(v) : b.n = n
      BY <3>3, RowsFacts DEF Batch, RowsAt
    <3>5. \A n \in 1..Len(heard[v]) : n \in 1..silver[v].at \/ n \in silver[v].at + 1 .. Len(heard[v])
      BY <3>2
    <3>6. \A n \in 1..Len(heard[v]) : Typed(v, n)'
      BY <1>5, <3>1, <3>4, <3>5, NewlyTyped DEF Covered
    <3>7. QED BY <3>2, <3>6 DEF Covered
  <2>7. QED BY <2>1, <2>5, <2>6 DEF CoverPart
<1>6. CASE ReplayDay(v) /\ Writes(v, DayRows(v))
  <2>1. Due("replay", v) /\ todo' = todo /\ torn' = torn /\ heard' = heard
    BY <1>6 DEF ReplayDay, history
  <2>2. v \notin torn /\ ByDay(v)
    BY <1>0, <2>1, ReplayDue DEF CoverPart
  <2>3. Due("replay", v)'
    BY <2>1 DEF Due
  <2>4. ByDay(v)'
    <3> SUFFICES ASSUME NEW n \in DOMAIN heard[v], heard[v][n].day \in {r.day : r \in SilverRows(v)}'
                 PROVE  Typed(v, n)'
      BY <2>1 DEF ByDay
    <3>1. CASE heard[v][n].day \in {r.day : r \in SilverRows(v)}
      BY <1>6, <2>2, <3>1, NewlyTyped DEF ByDay
    <3>2. CASE \E b \in DayRows(v) : b.day = heard[v][n].day
      <4>1. heard[v][n].day = Min(DaysLeft(v))
        BY <3>2 DEF DayRows
      <4>2. PICK b \in Rows(v, DOMAIN heard[v]) : b.n = n
        BY RowsFacts DEF RowsAt
      <4>3. b.day = heard[v][n].day
        BY <4>2, RowsFacts DEF RowsAt
      <4>4. b \in DayRows(v)
        BY <4>1, <4>3 DEF DayRows
      <4>5. QED BY <1>6, <4>2, <4>4, NewlyTyped
    <3>3. PICK r \in SilverRows(v)' : heard[v][n].day = r.day
      OBVIOUS
    <3>4. r \in SilverRows(v) \/ \E b \in DayRows(v) : b.n = r.n /\ b.day = r.day
      BY <1>6, NewlyTyped
    <3>5. QED BY <3>1, <3>2, <3>3, <3>4
  <2>5. QED BY <2>1, <2>2, <2>3, <2>4 DEF CoverPart
<1>7. CASE Drop(v) /\ Dropped(v)
  <2>1. silver'[v].at = 0 /\ SilverRows(v)' = {}
    BY <1>7, DroppedFacts
  <2>2. Covered(v)' /\ ByDay(v)'
    BY <2>1 DEF Covered, ByDay
  <2>3. v \notin torn'
    BY <1>7 DEF Drop
  <2>4. QED BY <2>2, <2>3 DEF CoverPart
<1>8. CASE Elsewhere(v)
  <2>1. /\ todo # <<>> /\ heard' = heard /\ silver'[v] = silver[v] /\ (v \in torn' <=> v \in torn)
        /\ ~Due("drop", v) /\ IsPlan(todo) /\ (todo' = todo \/ todo' = Tail(todo))
    BY <1>8 DEF Elsewhere, PlanInv
  <2>2. (Planned("replay", v)' => Planned("replay", v)) /\ (Planned("drop", v) => Planned("drop", v)')
    <3>1. CASE todo' = todo
      BY <3>1 DEF Planned
    <3>2. CASE todo' = Tail(todo)
      <4>1. Range(todo) = {Head(todo)} \cup Range(todo')
        BY <2>1, <3>2, HeadIsLeast
      <4>2. QED BY <2>1, <4>1 DEF Planned, Has, Due
    <3>3. QED BY <2>1, <3>1, <3>2
  <2>3. ASSUME v \notin torn', ~Due("replay", v)' PROVE Covered(v)
    <3>1. CASE ~Due("replay", v)
      BY <1>0, <2>1, <2>3, <3>1 DEF CoverPart
    <3>2. CASE Due("replay", v)
      <4>1. todo' # todo
        BY <2>3, <3>2 DEF Due
      <4>2. DaysLeft(v) = {}
        BY <1>8, <3>2, <4>1 DEF Elsewhere
      <4>3. ByDay(v)
        BY <1>0, <3>2, ReplayDue DEF CoverPart
      <4>4. QED BY <4>2, <4>3, DaysDone
    <3>3. QED BY <3>1, <3>2
  <2>4. QED BY <1>0, <1>a, <1>b, <2>1, <2>2, <2>3 DEF CoverPart
<1>9. QED BY <1>1, <1>2, <1>3, <1>4, <1>5, <1>6, <1>7, <1>8, VenueCases

-----------------------------------------------------------------------------
(* Flags *)

\* Whatever was sent before a row of a batch is typed, or in the batch.
Reaches(v, batch) ==
  \A b \in batch : \A m \in 1..(b.n - 1) : Typed(v, m) \/ \E c \in batch : c.n = m

LEMMA TypeReaches ==
  ASSUME TypeOK, SilverInv, CoverInv, NEW v \in Venue, v \notin torn, TypeTrades(v)
  PROVE  Reaches(v, Batch(v))
<1>1. Covered(v)
  BY DEF CoverInv, TypeTrades, Due
<1>2. silver[v].at \in Nat /\ Len(heard[v]) \in Nat /\ silver[v].at <= Len(heard[v])
  BY SilverFacts DEF SilverInv
<1>3. silver[v].at + 1 .. Len(heard[v]) \subseteq DOMAIN heard[v]
  BY <1>2, SilverFacts
<1>4. RowsAt(v, silver[v].at + 1 .. Len(heard[v]), Batch(v))
  BY <1>3, RowsFacts DEF Batch
<1>5. ASSUME NEW b \in Batch(v), NEW m \in 1..(b.n - 1), m \notin 1..silver[v].at
      PROVE  m \in silver[v].at + 1 .. Len(heard[v])
  <2>1. b.n \in silver[v].at + 1 .. Len(heard[v])
    BY <1>4 DEF RowsAt
  <2>2. QED BY <1>2, <1>5, <2>1
<1>6. QED BY <1>1, <1>4, <1>5 DEF Reaches, Covered, RowsAt

LEMMA DayReaches ==
  ASSUME TypeOK, PlanInv, HeardInv, CoverInv, NEW v \in Venue, ReplayDay(v)
  PROVE  Reaches(v, DayRows(v)) /\ v \notin torn
<1>1. ByDay(v) /\ v \notin torn /\ DaysLeft(v) # {}
  <2>1. Due("replay", v) /\ DaysLeft(v) # {}
    BY DEF ReplayDay
  <2>2. QED BY <2>1, ReplayDue DEF CoverInv
<1> DEFINE D == Min(DaysLeft(v))
<1>2. D \in Nat /\ \A d \in DaysLeft(v) : d \in Nat /\ D <= d
  BY <1>1, DayFacts
<1>3. RowsAt(v, DOMAIN heard[v], Rows(v, DOMAIN heard[v]))
  BY RowsFacts
<1>4. DayRows(v) = {r \in Rows(v, DOMAIN heard[v]) : r.day = D}
  BY DEF DayRows
<1>5. DOMAIN heard[v] = 1..Len(heard[v]) /\ Len(heard[v]) \in Nat
  BY SilverFacts
<1> HIDE DEF D
<1>6. ASSUME NEW b \in DayRows(v), NEW m \in 1..(b.n - 1)
      PROVE  Typed(v, m) \/ \E c \in DayRows(v) : c.n = m
  <2>1. b.n \in DOMAIN heard[v] /\ heard[v][b.n].day = D
    BY <1>3, <1>4 DEF RowsAt
  <2>2. m \in DOMAIN heard[v] /\ m \in 1..b.n
    BY <1>5, <2>1
  <2>3. heard[v][m].day <= D
    BY <2>1, <2>2 DEF HeardInv
  <2>4. PICK c \in Rows(v, DOMAIN heard[v]) : c.n = m /\ c.day = heard[v][m].day
    BY <1>3, <2>2 DEF RowsAt
  <2>5. CASE heard[v][m].day = D
    BY <1>4, <2>4, <2>5
  <2>6. CASE heard[v][m].day # D
    <3>1. heard[v][m].day \in {d.day : d \in Range(heard[v])}
      BY <2>2 DEF Range
    <3>2. heard[v][m].day \notin DaysLeft(v)
      BY <1>2, <2>3, <2>6
    <3>3. heard[v][m].day \in {r.day : r \in SilverRows(v)}
      BY <3>1, <3>2 DEF DaysLeft
    <3>4. QED BY <1>1, <2>2, <3>3 DEF ByDay
  <2>7. QED BY <2>5, <2>6
<1>7. QED BY <1>1, <1>6 DEF Reaches

\* What becomes of the rows of a venue that no cut rebuild left incomplete.
LEMMA RowsCases ==
  ASSUME TypeOK, PlanInv, HeardInv, SilverInv, CoverInv, [Next]_vars, NEW v \in Venue, v \notin torn'
  PROVE  \/ v \notin torn /\ silver'[v] = silver[v]
         \/ silver'[v].commits = <<>>
         \/ v \notin torn /\ \E batch : Writes(v, batch) /\ Reaches(v, batch)
<1>1. CASE silver'[v] = silver[v] /\ v \notin torn
  BY <1>1
<1>2. CASE TypeTrades(v) /\ Writes(v, Batch(v))
  <2>1. v \notin torn
    BY <1>2 DEF TypeTrades, Done
  <2>2. QED BY <1>2, <2>1, TypeReaches
<1>3. CASE ReplayDay(v) /\ Writes(v, DayRows(v))
  BY <1>3, DayReaches
<1>4. CASE Dropped(v)
  BY <1>4, DroppedFacts
<1>5. CASE UNCHANGED vars
  BY <1>1, <1>5 DEF vars
<1>6. CASE StartIngest \/ StartRebuild
  BY <1>1, <1>6, StartPlans
<1>7. CASE Cut
  BY <1>1, <1>7 DEF Cut
<1>8. CASE Elsewhere(v)
  BY <1>1, <1>8 DEF Elsewhere
<1>9. QED BY <1>1, <1>2, <1>3, <1>4, <1>5, <1>6, <1>7, <1>8, VenueCases

\* A row is its delivery.
IsDelivery(v, r) ==
  /\ r.n \in 1..Len(heard[v]) /\ r.id = heard[v][r.n].id /\ r.day = heard[v][r.n].day
  /\ r.id \in Nat /\ r.day \in Nat

LEMMA Deliveries ==
  ASSUME TypeOK, NEW v \in Venue, NEW n \in 1..Len(heard[v])
  PROVE  heard[v][n].id \in Nat /\ heard[v][n].day \in Nat /\ n \in Nat /\ 1 <= n
<1>1. n \in DOMAIN heard[v] /\ heard[v] \in Seq(Delivery) /\ n \in Nat /\ 1 <= n
  BY SilverFacts
<1>2. heard[v][n] \in Delivery
  BY <1>1
<1>3. heard[v][n].id \in Ids /\ heard[v][n].day \in 0..MaxEvents
  BY <1>2 DEF Delivery
<1>4. Ids \subseteq Nat /\ 0..MaxEvents \subseteq Nat
  BY Constants
<1>5. QED BY <1>1, <1>3, <1>4

LEMMA OldRows ==
  ASSUME TypeOK, NEW v \in Venue, SilverPart(v), NEW r \in SilverRows(v)
  PROVE  IsDelivery(v, r)
<1>1. r.n \in 1..silver[v].at /\ r.id = heard[v][r.n].id /\ r.day = heard[v][r.n].day
  BY DEF SilverPart, RowsOf
<1>2. r.n \in 1..Len(heard[v])
  BY <1>1, SilverFacts DEF SilverPart
<1>3. QED BY <1>1, <1>2, Deliveries DEF IsDelivery

\* The rows a batch is scored against: deliveries, and every delivery before a row
\* of the batch that is not more than LOOKBACK older than one of them.
Looked(v, batch) == Both(batch, LookbackRows(v, batch))

Context(v, batch) ==
  /\ batch \subseteq Looked(v, batch)
  /\ \A q \in Looked(v, batch) : IsDelivery(v, q)
  /\ \A b, c \in batch : \A m \in 1..(c.n - 1) :
       heard[v][b.n].day <= heard[v][m].day + Lookback => \E q \in Looked(v, batch) : q.n = m

LEMMA ContextFacts ==
  ASSUME NEW v \in Venue, NEW batch, Writes(v, batch), SilverPart(v), Reaches(v, batch)
  PROVE  Context(v, batch)
<1> DEFINE rows == LookbackRows(v, batch)
           copy(r) == [n |-> r.n, id |-> r.id, day |-> r.day]
           D == Min({b.day : b \in batch})
<1>0. TypeOK /\ NewBatch(v, batch)
  BY DEF Writes
<1>1. \A b \in batch : IsDelivery(v, b)
  BY <1>0, Deliveries DEF NewBatch, IsDelivery
<1>2. \A r \in SilverRows(v) : IsDelivery(v, r)
  BY <1>0, OldRows
<1>3. Looked(v, batch) = batch \cup {copy(r) : r \in rows}
  BY DEF Looked, Both
<1>4. rows = {r \in SilverRows(v) : r.day >= D - Lookback}
  BY DEF LookbackRows
<1>5. \A r \in rows : copy(r).n = r.n /\ copy(r).id = r.id /\ copy(r).day = r.day
  OBVIOUS
<1>6. D \in Nat /\ \A b \in batch : D <= b.day
  <2>1. {b.day : b \in batch} \in SUBSET Nat
    BY <1>1 DEF IsDelivery
  <2>2. {b.day : b \in batch} # {}
    BY <1>0 DEF NewBatch
  <2>3. D \in {b.day : b \in batch} /\ \A y \in {b.day : b \in batch} : D <= y
    BY <2>1, <2>2, NatMin
  <2>4. QED BY <2>1, <2>3
<1> HIDE DEF rows, copy, D
<1>7. batch \subseteq Looked(v, batch)
  BY <1>3
<1>8. \A q \in Looked(v, batch) : IsDelivery(v, q)
  BY <1>1, <1>2, <1>3, <1>4, <1>5 DEF IsDelivery
<1>9. ASSUME NEW b \in batch, NEW c \in batch, NEW m \in 1..(c.n - 1), heard[v][b.n].day <= heard[v][m].day + Lookback
      PROVE  \E q \in Looked(v, batch) : q.n = m
  <2>1. CASE \E d \in batch : d.n = m
    BY <1>7, <2>1
  <2>2. CASE Typed(v, m)
    <3>1. PICK r \in SilverRows(v) : r.n = m
      BY <2>2 DEF Typed
    <3>2. r.day = heard[v][m].day /\ r.day \in Nat
      BY <1>2, <3>1 DEF IsDelivery
    <3>3. b.day = heard[v][b.n].day /\ b.day \in Nat /\ D <= b.day
      BY <1>1, <1>6 DEF IsDelivery
    <3>4. r.day >= D - Lookback
      BY <1>6, <1>9, <3>2, <3>3, Constants
    <3>5. r \in rows
      BY <1>4, <3>4
    <3>6. copy(r) \in Looked(v, batch) /\ copy(r).n = m
      BY <1>3, <1>5, <3>1, <3>5
    <3>7. QED BY <3>6
  <2>3. QED BY <2>1, <2>2 DEF Reaches
<1>10. QED BY <1>7, <1>8, <1>9 DEF Context

\* A row that is the first delivery of its trade is not flagged, whatever it is
\* compared with.
LEMMA FirstIsOriginal ==
  ASSUME TypeOK, NEW v \in Venue, NEW both, NEW r, \A q \in both : IsDelivery(v, q), IsDelivery(v, r),
         First(v, r.n)
  PROVE  ~IsReplay(r, both)
<1> SUFFICES ASSUME NEW q \in both, q.id = r.id, q.n < r.n PROVE FALSE
  BY DEF IsReplay
<1>1. q.n \in 1..(r.n - 1) /\ heard[v][q.n].id = heard[v][r.n].id
  <2>1. q.n \in 1..Len(heard[v]) /\ r.n \in 1..Len(heard[v])
        /\ q.id = heard[v][q.n].id /\ r.id = heard[v][r.n].id
    BY DEF IsDelivery
  <2>2. Len(heard[v]) \in Nat
    BY SilverFacts
  <2>3. q.n \in 1..(r.n - 1)
    BY <2>1, <2>2
  <2>4. QED BY <2>1, <2>3
<1>2. QED BY <1>1 DEF First, Sent

LEMMA WithinLookback ==
  ASSUME MaxResend <= Lookback, NEW early \in Nat, NEW late \in Nat, late <= early + MaxResend
  PROVE  late <= early + Lookback
BY Constants

LEMMA FlagOfRow ==
  ASSUME MaxResend <= Lookback, TypeOK, HeardInv, NEW v \in Venue, NEW batch, Context(v, batch), NEW b \in batch
  PROVE  IsReplay(b, Looked(v, batch)) <=> ~First(v, b.n)
<1>1. IsDelivery(v, b) /\ \A q \in Looked(v, batch) : IsDelivery(v, q)
  BY DEF Context
<1>2. CASE First(v, b.n)
  BY <1>1, <1>2, FirstIsOriginal
<1>3. CASE ~First(v, b.n)
  <2>1. b.n \in DOMAIN heard[v] /\ b.n \in 1..Len(heard[v]) /\ Len(heard[v]) \in Nat
    BY <1>1, SilverFacts DEF IsDelivery
  <2>2. PICK m \in 1..(b.n - 1) : Sent(v, m, b.n) /\ heard[v][b.n].day <= heard[v][m].day + MaxResend
    BY <1>3, <2>1 DEF HeardInv
  <2>3. m \in 1..Len(heard[v]) /\ m < b.n
    BY <2>1
  <2>4. heard[v][b.n].day <= heard[v][m].day + Lookback
    <3>1. heard[v][b.n].day \in Nat /\ heard[v][m].day \in Nat
      BY <2>1, <2>3, Deliveries
    <3>2. QED BY <2>2, <3>1, WithinLookback
  <2>5. PICK q \in Looked(v, batch) : q.n = m
    BY <2>4 DEF Context
  <2>6. q.id = b.id
    BY <1>1, <2>2, <2>5 DEF IsDelivery, Sent
  <2>7. QED BY <1>3, <2>3, <2>5, <2>6 DEF IsReplay
<1>4. QED BY <1>2, <1>3

Flags(v) == \A r \in SilverRows(v) : r.replay <=> ~First(v, r.n)

LEMMA FlagStep ==
  ASSUME MaxResend <= Lookback, LakeInv, CoverInv, FlagInv, [Next]_vars
  PROVE  FlagInv'
<1> SUFFICES ASSUME NEW v \in Venue, v \notin torn' PROVE Flags(v)'
  BY DEF FlagInv, Flags
<1>0. TypeOK /\ PlanInv /\ HeardInv /\ SilverInv /\ SilverPart(v) /\ HeardStays
  BY SilverParts, HeardKept DEF LakeInv
<1>1. ASSUME v \notin torn, NEW r \in SilverRows(v) PROVE r.replay <=> ~First(v, r.n)'
  <2>1. r.n \in 1..Len(heard[v])
    BY <1>0, OldRows DEF IsDelivery
  <2>2. PICK n \in 1..Len(heard[v]) : n = r.n
    BY <2>1
  <2>3. First(v, n)' <=> First(v, n)
    BY <1>0, HeardSame
  <2>4. r.replay <=> ~First(v, n)
    BY <1>1, <2>2 DEF FlagInv
  <2>5. QED BY <2>2, <2>3, <2>4
<1>2. CASE v \notin torn /\ silver'[v] = silver[v]
  <2>1. SilverRows(v)' = SilverRows(v)
    BY <1>2 DEF SilverRows
  <2>2. QED BY <1>1, <1>2, <2>1 DEF Flags
<1>3. CASE silver'[v].commits = <<>>
  <2>1. SilverRows(v)' = {}
    BY <1>3 DEF SilverRows, Range
  <2>2. QED BY <2>1 DEF Flags
<1>4. ASSUME NEW batch, v \notin torn, Writes(v, batch), Reaches(v, batch) PROVE Flags(v)'
  <2>1. Context(v, batch)
    BY <1>0, <1>4, ContextFacts
  <2>2. SilverRows(v)' = SilverRows(v) \cup Scored(v, batch) /\ heard' = heard
    BY <1>4, WriteFacts DEF Writes
  <2>3. ASSUME NEW r \in Scored(v, batch) PROVE r.replay <=> ~First(v, r.n)'
    <3>1. PICK b \in batch : r.n = b.n /\ r.replay = IsReplay(b, Looked(v, batch))
      BY <1>4, WriteFacts DEF IsScore, Looked
    <3>2. IsReplay(b, Looked(v, batch)) <=> ~First(v, b.n)
      BY <1>0, <2>1, FlagOfRow
    <3>3. First(v, r.n)' <=> First(v, r.n)
      BY <2>2 DEF First, Sent
    <3>4. QED BY <3>1, <3>2, <3>3
  <2>4. QED BY <1>1, <1>4, <2>2, <2>3 DEF Flags
<1>5. QED BY <1>0, <1>2, <1>3, <1>4, RowsCases

-----------------------------------------------------------------------------
(* Gaps *)

\* A set of rows that were compared has a first row of each of its trades.
LEMMA SomeOriginal ==
  ASSUME NEW both \in SUBSET Row, NEW q \in both
  PROVE  \E p \in both : p.id = q.id /\ ~IsReplay(p, both)
<1> DEFINE S == {p.n : p \in {o \in both : o.id = q.id}}
<1>1. S \in SUBSET Nat /\ q.n \in S
  BY DEF Row
<1>2. PICK n \in S : \A k \in S : n <= k
  <2> HIDE DEF S
  <2>1. S # {}
    BY <1>1
  <2>2. QED BY <1>1, <2>1, NatMin
<1>3. PICK p \in both : p.id = q.id /\ p.n = n
  BY <1>2
<1>4. ASSUME NEW o \in both, o.id = p.id, o.n < p.n PROVE FALSE
  <2>1. o.n \in S
    BY <1>3, <1>4
  <2>2. n <= o.n /\ o.n < n /\ n \in Nat /\ o.n \in Nat
    BY <1>1, <1>2, <1>3, <1>4, <2>1
  <2>3. QED BY <2>2
<1>5. QED BY <1>3, <1>4 DEF IsReplay

\* The end of a set of rows is the last of its deliveries.
LEMMA EndFacts ==
  ASSUME TypeOK, NEW v \in Venue, NEW rows, rows # {}, \A r \in rows : r.n \in 1..Len(heard[v])
  PROVE  /\ End(rows) \in 1..Len(heard[v]) /\ End(rows) \in Nat
         /\ \E r \in rows : r.n = End(rows)
         /\ \A r \in rows : r.n <= End(rows)
<1> DEFINE T == {r.n : r \in rows}
<1>1. Len(heard[v]) \in Nat
  BY SilverFacts
<1>2. T \in SUBSET Nat /\ T # {} /\ \A n \in T : n <= Len(heard[v])
  BY <1>1
<1>3. End(rows) = Max(T)
  BY DEF End
<1>4. Max(T) \in T /\ \A n \in T : n <= Max(T)
  <2> HIDE DEF T
  <2>1. QED BY <1>1, <1>2, NatMax
<1>5. PICK r \in rows : r.n = Max(T)
  BY <1>4
<1>6. \A q \in rows : q.n <= Max(T)
  BY <1>4
<1> HIDE DEF T
<1>7. Max(T) \in 1..Len(heard[v]) /\ Max(T) \in Nat
  BY <1>2, <1>4, <1>5
<1>8. QED BY <1>3, <1>5, <1>6, <1>7

\* A batch is scored against nothing that was delivered after its end.
LEMMA NoneLater ==
  ASSUME NEW v \in Venue, NEW batch, Writes(v, batch), SilverPart(v), NoHoles(v), Context(v, batch)
  PROVE  \A q \in Looked(v, batch) : q.n \in 1..End(batch)
<1> DEFINE copy(r) == [n |-> r.n, id |-> r.id, day |-> r.day]
<1>1. TypeOK /\ NewBatch(v, batch) /\ Len(heard[v]) \in Nat
  BY SilverFacts DEF Writes
<1>2. End(batch) \in Nat /\ (\E b \in batch : b.n = End(batch)) /\ \A b \in batch : b.n <= End(batch)
  BY <1>1, EndFacts DEF NewBatch
<1>3. \A q \in Looked(v, batch) : q.n \in Nat /\ 1 <= q.n
  BY <1>1 DEF Context, IsDelivery
<1>4. ASSUME NEW r \in SilverRows(v), End(batch) < r.n PROVE FALSE
  <2>1. PICK b \in batch : b.n = End(batch)
    BY <1>2
  <2>2. r.n \in Nat /\ b.n \in 1..Len(heard[v]) /\ ~Typed(v, b.n)
    BY <1>1, <2>1, OldRows DEF NewBatch, IsDelivery
  <2>3. b.n \in 1..(r.n - 1)
    BY <1>1, <1>4, <2>1, <2>2
  <2>4. QED BY <2>2, <2>3 DEF NoHoles
<1>5. ASSUME NEW q \in Looked(v, batch) PROVE q.n <= End(batch)
  <2>1. CASE q \in batch
    BY <1>2, <2>1
  <2>2. CASE \E r \in LookbackRows(v, batch) : q = copy(r)
    <3>1. PICK r \in LookbackRows(v, batch) : q = copy(r)
      BY <2>2
    <3>2. q.n = r.n /\ r \in SilverRows(v)
      BY <3>1 DEF LookbackRows
    <3>3. QED BY <1>2, <1>3, <1>4, <3>2
  <2>3. QED BY <2>1, <2>2 DEF Looked, Both
<1>6. QED BY <1>2, <1>3, <1>5

LEMMA GapOfRow ==
  ASSUME NEW v \in Venue, NEW batch, Writes(v, batch), SilverPart(v), NoHoles(v), Reaches(v, batch),
         NEW b \in batch, ~IsReplay(b, Looked(v, batch))
  PROVE  /\ (\A m \in 1..End(batch) : ~(heard[v][m].id < b.id)) => Missing(b, Looked(v, batch)) = Unknown
         /\ \A m : IsBelow(v, b, m, End(batch)) /\ b.day - heard[v][m].day <= Lookback
                     => Missing(b, Looked(v, batch)) = b.id - heard[v][m].id - 1
<1> DEFINE both == Looked(v, batch)
           L == Lower(b, both)
<1>0. Context(v, batch)
  BY ContextFacts
<1>1. TypeOK /\ both \in SUBSET Row /\ b \in Row /\ NewBatch(v, batch)
  <2>1. LookbackRows(v, batch) \in SUBSET SilverRow /\ batch \in SUBSET Row
    BY WriteFacts DEF Writes, NewBatch
  <2>2. QED BY <2>1, BothFacts DEF Writes, Looked
<1>2. \A q \in both : IsDelivery(v, q) /\ q.n \in 1..End(batch)
  BY <1>0, NoneLater DEF Context
<1>3. /\ End(batch) \in 1..Len(heard[v]) /\ End(batch) \in Nat
      /\ (\E c \in batch : c.n = End(batch)) /\ Len(heard[v]) \in Nat
  BY <1>1, EndFacts, SilverFacts DEF NewBatch
<1>4. \A i \in L : \E q \in both : i = q.id /\ q.id < b.id
  BY DEF Lower
<1>5. ASSUME \A m \in 1..End(batch) : ~(heard[v][m].id < b.id) PROVE Missing(b, both) = Unknown
  <2>1. L = {}
    BY <1>2, <1>4, <1>5 DEF IsDelivery
  <2>2. QED BY <2>1 DEF Missing, Lower
<1>6. ASSUME NEW m, IsBelow(v, b, m, End(batch)), b.day - heard[v][m].day <= Lookback
      PROVE  Missing(b, both) = b.id - heard[v][m].id - 1
  <2> DEFINE below == heard[v][m].id
  <2>1. m \in 1..End(batch) /\ m \in 1..Len(heard[v]) /\ below < b.id
    BY <1>3, <1>6 DEF IsBelow
  <2>2. below \in Nat /\ heard[v][m].day \in Nat
    BY <1>1, <2>1, Deliveries
  <2>3. PICK q \in both : q.n = m
    <3>1. PICK c \in batch : c.n = End(batch)
      BY <1>3
    <3>2. CASE m = c.n
      BY <1>0, <3>1, <3>2 DEF Context
    <3>3. CASE m # c.n
      <4>1. m \in 1..(c.n - 1)
        BY <1>3, <2>1, <3>1, <3>3
      <4>2. b.day = heard[v][b.n].day /\ b.day \in Nat
        BY <1>0 DEF Context, IsDelivery
      <4>3. heard[v][b.n].day <= heard[v][m].day + Lookback
        BY <1>6, <2>2, <4>2, Constants
      <4>4. QED BY <1>0, <4>1, <4>3 DEF Context
    <3>4. QED BY <3>2, <3>3
  <2>4. below \in L
    <3>1. q.id = below
      BY <1>2, <2>3 DEF IsDelivery
    <3>2. PICK p \in both : p.id = q.id /\ ~IsReplay(p, both)
      BY <1>1, SomeOriginal
    <3>3. QED BY <2>1, <3>1, <3>2 DEF Lower
  <2>5. \A i \in L : i <= below
    <3> SUFFICES ASSUME NEW p \in both, p.id < b.id PROVE p.id <= below
      BY <1>4
    <3>1. p.n \in 1..End(batch) /\ p.id = heard[v][p.n].id
      BY <1>2 DEF IsDelivery
    <3>2. QED BY <1>6, <3>1 DEF IsBelow
  <2> HIDE DEF below
  <2>6. Max(L) = below
    <3> HIDE DEF both
    <3>1. L # {}
      BY <2>4
    <3>2. Max(L) \in L /\ L \subseteq Nat /\ below <= Max(L)
      BY <1>1, <2>4, <3>1, LowerFacts
    <3>3. Max(L) <= below /\ Max(L) \in Nat
      BY <2>5, <3>2
    <3>4. QED BY <2>2, <3>2, <3>3
  <2>7. Missing(b, both) = b.id - Max(L) - 1
    BY <2>4 DEF Missing, Lower
  <2>8. QED BY <2>6, <2>7 DEF below
<1>7. QED BY <1>5, <1>6

\* What is delivered after a commit does not change the gaps in it.
LEMMA GapsSame ==
  ASSUME TypeOK, HeardStays, NEW v \in Venue, NEW CONSTANT rows, \A r \in rows : IsDelivery(v, r),
         Gaps(v, rows)
  PROVE  Gaps(v, rows)'
<1> SUFFICES ASSUME NEW r \in rows, ~r.replay PROVE Gap(v, r, End(rows))'
  BY DEF Gaps
<1>1. End(rows) \in 1..Len(heard[v]) /\ Len(heard[v]) \in Nat
  BY EndFacts, SilverFacts DEF IsDelivery
<1>2. PICK end \in 1..Len(heard[v]) : end = End(rows)
  BY <1>1
<1>3. \A k \in 1..end : k \in 1..Len(heard[v])
  BY <1>1
<1>4. \A k \in 1..end : heard'[v][k] = heard[v][k]
  BY <1>3 DEF HeardStays
<1>5. Gap(v, r, end)
  BY <1>2 DEF Gaps
<1>6. Gap(v, r, end)'
  BY <1>4, <1>5 DEF Gap, IsBelow
<1>7. End(rows)' = End(rows)
  BY DEF End
<1>8. QED BY <1>2, <1>6, <1>7

LEMMA GapStep ==
  ASSUME LakeInv, CoverInv, GapInv, [Next]_vars
  PROVE  GapInv'
<1> SUFFICES ASSUME NEW v \in Venue, v \notin torn'
             PROVE  NoHoles(v)' /\ \A i \in DOMAIN silver'[v].commits : Gaps(v, silver[v].commits[i])'
  BY DEF GapInv
<1>0. TypeOK /\ PlanInv /\ HeardInv /\ SilverInv /\ SilverPart(v) /\ HeardStays
  BY SilverParts, HeardKept DEF LakeInv
<1>1. ASSUME v \notin torn
      PROVE  NoHoles(v) /\ \A i \in DOMAIN silver[v].commits : Gaps(v, silver[v].commits[i])
  BY <1>1 DEF GapInv
<1>2. ASSUME v \notin torn, NEW CONSTANT rows, rows \in Range(silver[v].commits) PROVE Gaps(v, rows)'
  <2>1. Gaps(v, rows)
    BY <1>1, <1>2 DEF Range
  <2>2. \A r \in rows : IsDelivery(v, r)
    BY <1>0, <1>2, OldRows DEF SilverRows
  <2>3. QED BY <1>0, <2>1, <2>2, GapsSame
<1>3. CASE v \notin torn /\ silver'[v] = silver[v]
  <2>1. NoHoles(v)'
    BY <1>1, <1>3 DEF NoHoles, SilverRows, Typed
  <2>2. \A i \in DOMAIN silver[v].commits : silver[v].commits[i] \in Range(silver[v].commits)
    BY DEF Range
  <2>3. ASSUME NEW CONSTANT i, i \in DOMAIN silver'[v].commits PROVE Gaps(v, silver[v].commits[i])'
    <3>1. PICK rows : rows = silver[v].commits[i]
      OBVIOUS
    <3>2. Gaps(v, rows)'
      BY <1>2, <1>3, <2>2, <2>3, <3>1
    <3>3. QED BY <1>3, <3>1, <3>2
  <2>4. QED BY <2>1, <2>3
<1>4. CASE silver'[v].commits = <<>>
  BY <1>4 DEF NoHoles, SilverRows, Range
<1>5. ASSUME NEW batch, v \notin torn, Writes(v, batch), Reaches(v, batch)
      PROVE  NoHoles(v)' /\ \A i \in DOMAIN silver'[v].commits : Gaps(v, silver[v].commits[i])'
  <2> DEFINE N == Len(silver[v].commits)
             new == Scored(v, batch)
  <2>1. /\ SilverRows(v)' = SilverRows(v) \cup new /\ heard' = heard
        /\ DOMAIN silver'[v].commits = 1..(N + 1) /\ N \in Nat /\ DOMAIN silver[v].commits = 1..N
        /\ \A i \in 1..N : silver'[v].commits[i] = silver[v].commits[i]
        /\ silver'[v].commits[N + 1] = new
        /\ IsScore(batch, Looked(v, batch), new)
    BY <1>5, WriteFacts DEF Writes, Looked
  <2> HIDE DEF new, N
  <2>2. NoHoles(v)'
    <3>1. \A m : Typed(v, m) \/ (\E c \in batch : c.n = m) => Typed(v, m)'
      BY <2>1 DEF Typed, IsScore
    <3>2. \A r \in new : \A m \in 1..(r.n - 1) : Typed(v, m)'
      BY <1>5, <2>1, <3>1 DEF Reaches, IsScore
    <3>3. \A r \in SilverRows(v) : \A m \in 1..(r.n - 1) : Typed(v, m)'
      BY <1>1, <1>5, <3>1 DEF NoHoles
    <3>4. QED BY <2>1, <3>2, <3>3 DEF NoHoles
  <2>3. End(new) = End(batch)
    <3>1. {r.n : r \in new} = {b.n : b \in batch}
      BY <2>1 DEF IsScore
    <3>2. QED BY <3>1 DEF End
  <2>4. Gaps(v, new)
    <3> SUFFICES ASSUME NEW r \in new, ~r.replay PROVE Gap(v, r, End(batch))
      BY <2>3 DEF Gaps
    <3>1. PICK b \in batch :
            /\ r.n = b.n /\ r.id = b.id /\ r.day = b.day
            /\ r.replay = IsReplay(b, Looked(v, batch)) /\ r.missing = Missing(b, Looked(v, batch))
      BY <2>1 DEF IsScore
    <3>2. /\ (\A m \in 1..End(batch) : ~(heard[v][m].id < b.id)) => r.missing = Unknown
          /\ \A m : IsBelow(v, b, m, End(batch)) /\ b.day - heard[v][m].day <= Lookback
                      => r.missing = b.id - heard[v][m].id - 1
      BY <1>0, <1>1, <1>5, <3>1, GapOfRow
    <3>3. \A m : IsBelow(v, r, m, End(batch)) => IsBelow(v, b, m, End(batch))
      BY <3>1 DEF IsBelow
    <3>4. QED BY <3>1, <3>2, <3>3 DEF Gap
  <2>5. ASSUME NEW i \in 1..(N + 1) PROVE Gaps(v, silver[v].commits[i])'
    <3>1. CASE i \in 1..N
      <4>1. silver[v].commits[i] \in Range(silver[v].commits)
        BY <2>1, <3>1 DEF Range
      <4>2. PICK rows : rows = silver[v].commits[i]
        OBVIOUS
      <4>3. Gaps(v, rows)'
        BY <1>2, <1>5, <4>1, <4>2
      <4>4. QED BY <2>1, <3>1, <4>2, <4>3
    <3>2. CASE i = N + 1
      <4>1. silver'[v].commits[i] = new
        BY <2>1, <3>2
      <4>2. QED BY <2>1, <2>4, <4>1 DEF Gaps, Gap, IsBelow
    <3>3. QED BY <2>1, <3>1, <3>2
  <2>6. QED BY <2>1, <2>2, <2>5
<1>6. QED BY <1>0, <1>3, <1>4, <1>5, RowsCases

-----------------------------------------------------------------------------
(* Gold *)

LEMMA GoldCases ==
  ASSUME [Next]_vars
  PROVE  \/ UNCHANGED <<gold, position>>
         \/ \E u \in Venue : Adds(u)
         \/ gold' = <<>> /\ position' = [v \in Venue |-> NoPosition] /\ silver' = silver
<1>1. CASE StartIngest \/ StartRebuild
  BY <1>1, StartPlans
<1>2. CASE \E u \in Venue : AddTrades(u)
  BY <1>2, AddCases
<1>3. CASE \E t \in Venue \cup Derived \cup {Trades} : Drop(t)
  BY <1>3 DEF Drop
<1>4. CASE UNCHANGED <<gold, position>>
  BY <1>4
<1>5. QED
  BY <1>1, <1>2, <1>3, <1>4 DEF Next, Step, vars, Hear, NextDay, Killed, Cut, Dies, TypeTrades, ReplayDay,
     ReplayEnds, SkipDerived, MergeCandles, DeleteBars, AppendBars, FillDerived, Create

GoldPart(v) ==
  /\ position[v].gen <= silver[v].gen
  /\ position[v] = NoPosition => GoldOf(v) = {}
  /\ position[v].gen = silver[v].gen =>
       /\ position[v].snapshot <= Len(silver[v].commits)
       /\ GoldOf(v) = Projected(v, FirstDeliveries(v))

Disjoint == \A i, j \in DOMAIN gold : i # j => gold[i] \cap gold[j] = {}

LEMMA GoldParts == GoldInv <=> Disjoint /\ \A v \in Venue : GoldPart(v)
BY DEF GoldInv, Disjoint, GoldPart

\* Of a venue's rows gold has, after an addition, those and the ones just added.
LEMMA GoldGrows ==
  ASSUME TypeOK, NEW u \in Venue, Adds(u)
  PROVE  /\ GoldRows' = GoldRows \cup Added(u)
         /\ GoldOf(u)' = GoldOf(u) \cup Added(u)
         /\ \A v \in Venue : v # u => GoldOf(v)' = GoldOf(v)
<1>1. gold \in Seq(SUBSET GoldRow) /\ Added(u) \in SUBSET GoldRow /\ gold' = Append(gold, Added(u))
  BY AddedType DEF TypeOK, Adds
<1>2. Range(gold') = Range(gold) \cup {Added(u)}
  BY <1>1, AppendFacts
<1>3. GoldRows' = GoldRows \cup Added(u)
  BY <1>2 DEF GoldRows
<1>4. \A row \in Added(u) : row.venue = u
  BY DEF Added, Projected
<1>5. QED BY <1>3, <1>4 DEF GoldOf

\* What gold has of a venue that can be added to.
LEMMA ReadSoFar ==
  ASSUME TypeOK, NEW u \in Venue, GoldPart(u), Readable(u)
  PROVE  /\ position[u].snapshot \in Nat /\ position[u].snapshot <= Len(silver[u].commits)
         /\ GoldOf(u) = Projected(u, FirstDeliveries(u))
<1>1. Len(silver[u].commits) \in Nat /\ position[u].snapshot \in Nat
  <2>1. silver[u].commits \in Seq(SUBSET SilverRow)
    BY SilverFacts
  <2>2. position[u] \in [gen : Nat, snapshot : Nat]
    BY DEF TypeOK
  <2>3. QED BY <2>1, <2>2
<1>2. CASE position[u] = NoPosition
  <2>1. position[u].snapshot = 0 /\ GoldOf(u) = {}
    BY <1>2 DEF GoldPart, NoPosition
  <2>2. {silver[u].commits[i] : i \in 1..position[u].snapshot} = {}
    BY <2>1
  <2>3. FirstDeliveries(u) = {}
    BY <2>2 DEF FirstDeliveries, Originals
  <2>4. Projected(u, FirstDeliveries(u)) = {}
    BY <2>3 DEF Projected
  <2>5. QED BY <1>1, <2>1, <2>4
<1>3. CASE position[u].gen = silver[u].gen
  BY <1>1, <1>3 DEF GoldPart
<1>4. QED BY <1>2, <1>3 DEF Readable

LEMMA GoldAdded ==
  ASSUME TypeOK, SilverInv, NEW u \in Venue, GoldPart(u), Adds(u)
  PROVE  GoldPart(u)'
<1> DEFINE c == silver[u].commits
           s == position[u].snapshot
<1>1. s \in Nat /\ s <= Len(c) /\ Len(c) \in Nat /\ GoldOf(u) = Projected(u, FirstDeliveries(u))
  BY ReadSoFar, SilverFacts DEF Adds
<1>2. silver' = silver /\ position'[u] = [gen |-> silver[u].gen, snapshot |-> Len(c)]
  BY DEF Adds, AddTrades, Snapshot, TypeOK
<1>3. GoldOf(u)' = GoldOf(u) \cup Added(u)
  BY GoldGrows
<1>4. 1..Len(c) = (1..s) \cup (s + 1 .. Len(c))
  BY <1>1
<1>5. FirstDeliveries(u)' = Originals(UNION {c[i] : i \in 1..Len(c)})
  BY <1>2 DEF FirstDeliveries, Originals
<1>6. FirstDeliveries(u) = Originals(UNION {c[i] : i \in 1..s}) /\ Unread(u) = UNION {c[i] : i \in s + 1 .. Len(c)}
  BY DEF FirstDeliveries, Unread
<1> HIDE DEF c, s
<1>7. FirstDeliveries(u)' = FirstDeliveries(u) \cup Originals(Unread(u))
  BY <1>4, <1>5, <1>6 DEF Originals
<1>8. Projected(u, FirstDeliveries(u))' = Projected(u, FirstDeliveries(u)) \cup Added(u)
  BY <1>7 DEF Projected, Added
<1>9. silver[u].gen \in Nat /\ silver[u].gen > 0
  BY SilverFacts DEF SilverInv
<1>10. position'[u] # NoPosition
  BY <1>2, <1>9 DEF NoPosition
<1>11. QED BY <1>1, <1>2, <1>3, <1>8, <1>9, <1>10 DEF GoldPart, c

LEMMA AddedIsNew ==
  ASSUME TypeOK, SilverInv, NEW u \in Venue, GoldPart(u), Adds(u), NEW row \in Added(u)
  PROVE  row \notin GoldRows
<1> SUFFICES ASSUME row \in GoldRows PROVE FALSE
  OBVIOUS
<1>1. /\ position[u].snapshot \in Nat /\ position[u].snapshot <= Len(silver[u].commits)
      /\ Len(silver[u].commits) \in Nat /\ DOMAIN silver[u].commits = 1..Len(silver[u].commits)
      /\ GoldOf(u) = Projected(u, FirstDeliveries(u))
  BY ReadSoFar, SilverFacts DEF Adds
<1>2. PICK q \in Unread(u) : row = [venue |-> u, n |-> q.n, id |-> q.id]
  BY DEF Added, Projected, Originals
<1>3. PICK k \in position[u].snapshot + 1 .. Len(silver[u].commits) : q \in silver[u].commits[k]
  BY <1>2 DEF Unread
<1>4. row \in GoldOf(u)
  BY <1>2 DEF GoldOf
<1>5. PICK r \in FirstDeliveries(u) : row = [venue |-> u, n |-> r.n, id |-> r.id]
  BY <1>1, <1>4 DEF Projected
<1>6. PICK j \in 1..position[u].snapshot : r \in silver[u].commits[j]
  BY <1>5 DEF FirstDeliveries, Originals
<1>7. j \in DOMAIN silver[u].commits /\ k \in DOMAIN silver[u].commits /\ j # k
  BY <1>1
<1>8. r.n = q.n
  BY <1>2, <1>5
<1>9. QED BY <1>3, <1>6, <1>7, <1>8 DEF SilverInv

LEMMA DisjointStep ==
  ASSUME TypeOK, SilverInv, GoldInv, [Next]_vars
  PROVE  Disjoint'
<1>1. CASE UNCHANGED <<gold, position>>
  BY <1>1, GoldParts DEF Disjoint
<1>2. CASE gold' = <<>>
  BY <1>2 DEF Disjoint
<1>3. ASSUME NEW u \in Venue, Adds(u) PROVE Disjoint'
  <2>1. gold \in Seq(SUBSET GoldRow) /\ Added(u) \in SUBSET GoldRow /\ gold' = Append(gold, Added(u))
    BY <1>3, AddedType DEF TypeOK, Adds
  <2>2. /\ Len(gold) \in Nat /\ DOMAIN gold = 1..Len(gold) /\ DOMAIN gold' = 1..(Len(gold) + 1)
        /\ \A i \in 1..Len(gold) : gold'[i] = gold[i]
        /\ gold'[Len(gold) + 1] = Added(u)
    BY <2>1, AppendFacts
  <2>3. \A i \in 1..Len(gold) : gold[i] \cap Added(u) = {}
    <3>1. \A i \in 1..Len(gold) : gold[i] \subseteq GoldRows
      BY <2>2 DEF GoldRows, Range
    <3>2. \A row \in Added(u) : row \notin GoldRows
      BY <1>3, GoldParts, AddedIsNew
    <3>3. QED BY <3>1, <3>2
  <2>4. \A i \in DOMAIN gold' : i \in 1..Len(gold) \/ i = Len(gold) + 1
    BY <2>2
  <2>5. Disjoint
    BY GoldParts
  <2>6. QED BY <2>2, <2>3, <2>4, <2>5 DEF Disjoint
<1>4. QED BY <1>1, <1>2, <1>3, GoldCases

LEMMA GoldStep ==
  ASSUME TypeOK, SilverInv, GoldInv, [Next]_vars
  PROVE  GoldInv'
<1> SUFFICES ASSUME NEW v \in Venue PROVE GoldPart(v)'
  BY DisjointStep, GoldParts DEF GoldInv, GoldPart, Disjoint
<1>0. /\ GoldPart(v) /\ silver[v].gen \in Nat /\ silver[v].gen > 0
      /\ position[v] \in [gen : Nat, snapshot : Nat]
  BY GoldParts, SilverFacts DEF SilverInv, TypeOK
<1>1. ASSUME silver'[v] = silver[v], position'[v] = position[v], GoldOf(v)' = GoldOf(v) PROVE GoldPart(v)'
  <2>1. FirstDeliveries(v)' = FirstDeliveries(v)
    BY <1>1 DEF FirstDeliveries
  <2>2. Projected(v, FirstDeliveries(v))' = Projected(v, FirstDeliveries(v))
    BY <2>1 DEF Projected
  <2>3. QED BY <1>0, <1>1, <2>2 DEF GoldPart
<1>2. CASE UNCHANGED <<gold, position>>
  <2>0. GoldOf(v)' = GoldOf(v)
    BY <1>2 DEF GoldOf, GoldRows
  <2>1. ASSUME NEW batch, Writes(v, batch) PROVE GoldPart(v)'
    <3>1. /\ silver'[v].gen = silver[v].gen /\ Len(silver[v].commits) \in Nat
          /\ Len(silver'[v].commits) = Len(silver[v].commits) + 1
          /\ \A i \in 1..Len(silver[v].commits) : silver'[v].commits[i] = silver[v].commits[i]
      BY <2>1, WriteFacts
    <3>2. ASSUME position[v].gen = silver[v].gen
          PROVE  /\ position[v].snapshot <= Len(silver'[v].commits)
                 /\ Projected(v, FirstDeliveries(v))' = Projected(v, FirstDeliveries(v))
      <4>1. position[v].snapshot <= Len(silver[v].commits) /\ position[v].snapshot \in Nat
        BY <1>0, <3>2 DEF GoldPart
      <4>2. \A i \in 1..position[v].snapshot : silver'[v].commits[i] = silver[v].commits[i]
        BY <3>1, <4>1
      <4>3. {silver'[v].commits[i] : i \in 1..position[v].snapshot}
              = {silver[v].commits[i] : i \in 1..position[v].snapshot}
        BY <4>2
      <4>4. FirstDeliveries(v)' = FirstDeliveries(v)
        BY <1>2, <4>3 DEF FirstDeliveries, Originals
      <4>5. Projected(v, FirstDeliveries(v))' = Projected(v, FirstDeliveries(v))
        BY <4>4 DEF Projected
      <4>6. position[v].snapshot <= Len(silver'[v].commits)
        BY <3>1, <4>1
      <4>7. QED BY <4>5, <4>6
    <3>3. QED BY <1>0, <1>2, <2>0, <3>1, <3>2 DEF GoldPart
  <2>2. CASE Dropped(v)
    <3>1. silver'[v].gen = silver[v].gen + 1
      BY <2>2, DroppedFacts
    <3>2. position[v].gen <= silver[v].gen /\ position[v].gen \in Nat
      BY <1>0 DEF GoldPart
    <3>3. position[v].gen <= silver'[v].gen /\ position[v].gen # silver'[v].gen
      BY <1>0, <3>1, <3>2
    <3>4. QED BY <1>0, <1>2, <2>0, <3>3 DEF GoldPart
  <2>3. CASE silver'[v] = silver[v]
    BY <1>1, <1>2, <2>0, <2>3
  <2>4. QED BY <2>1, <2>2, <2>3, SilverCases
<1>3. ASSUME NEW u \in Venue, Adds(u) PROVE GoldPart(v)'
  <2>1. CASE u = v
    BY <1>0, <1>3, <2>1, GoldAdded
  <2>2. CASE u # v
    <3>1. silver' = silver /\ position'[v] = position[v]
      BY <1>3, <2>2 DEF Adds, AddTrades, TypeOK
    <3>2. GoldOf(v)' = GoldOf(v)
      BY <1>3, <2>2, GoldGrows
    <3>3. QED BY <1>1, <3>1, <3>2
  <2>3. QED BY <2>1, <2>2
<1>4. CASE gold' = <<>> /\ position' = [w \in Venue |-> NoPosition] /\ silver' = silver
  <2>1. GoldOf(v)' = {}
    <3>1. Range(gold') = {}
      BY <1>4 DEF Range
    <3>2. QED BY <3>1 DEF GoldOf, GoldRows
  <2>2. position'[v] = NoPosition /\ position'[v].gen = 0
    BY <1>4 DEF NoPosition
  <2>3. position'[v].gen <= silver'[v].gen /\ position'[v].gen # silver'[v].gen
    BY <1>0, <1>4, <2>2
  <2>4. QED BY <2>1, <2>3 DEF GoldPart
<1>5. QED BY <1>2, <1>3, <1>4, GoldCases

-----------------------------------------------------------------------------
(* Candles and bars *)

\* FollowInv, FillInv and AppendInv, for a row of a table.
FollowPart(t, k) ==
  \/ stored[t][k] = Computed(t, k)
  \/ <<t, k>> \in owed
  \/ Planned("fill", t)
  \/ (Planned("merge", t) \/ Planned("append", t)) /\ k \in Touched(t)
FillPart(t, k) == Planned("fill", t) /\ ~Planned("drop", t) => stored[t][k] \subseteq Computed(t, k)
AppendPart(t, k) ==
  t = Bars /\ Planned("append", t) /\ ~Planned("delete", t) /\ k \in Touched(t)
    => stored[t][k] \subseteq Computed(t, k)
Sound(t, k) == FollowPart(t, k) /\ FillPart(t, k) /\ AppendPart(t, k)

LEMMA TableParts ==
  ASSUME TypeOK
  PROVE  TablesInv <=> \A t \in Derived, k \in Key : Sound(t, k)
<1>1. TablesInv => \A t \in Derived, k \in Key : Sound(t, k)
  BY DEF TablesInv, FollowInv, FillInv, AppendInv, Sound, FollowPart, FillPart, AppendPart
<1>2. ASSUME \A t \in Derived, k \in Key : Sound(t, k) PROVE TablesInv
  <2>1. FollowInv /\ FillInv
    BY <1>2 DEF FollowInv, FillInv, Sound, FollowPart, FillPart
  <2>2. AppendInv
    BY <1>2, GoldFacts, Constants DEF AppendInv, Sound, AppendPart
  <2>3. QED BY <2>1, <2>2 DEF TablesInv
<1>3. QED BY <1>1, <1>2

TableJobs == {"drop", "merge", "delete", "append", "fill"}

\* A row that a step does not concern.
Kept(t, k) ==
  /\ stored'[t][k] = stored[t][k] /\ Computed(t, k)' = Computed(t, k) /\ Touched(t)' = Touched(t)
  /\ <<t, k>> \in owed => <<t, k>> \in owed'
  /\ \A w \in TableJobs : Planned(w, t)' <=> Planned(w, t)

LEMMA KeptSound ==
  ASSUME NEW t \in Derived, NEW k \in Key, Sound(t, k), Kept(t, k)
  PROVE  Sound(t, k)'
<1>1. \A w \in {"drop", "merge", "delete", "append", "fill"} : Planned(w, t)' <=> Planned(w, t)
  BY DEF Kept, TableJobs
<1>2. /\ Planned("drop", t)' <=> Planned("drop", t)
      /\ Planned("merge", t)' <=> Planned("merge", t)
      /\ Planned("delete", t)' <=> Planned("delete", t)
      /\ Planned("append", t)' <=> Planned("append", t)
      /\ Planned("fill", t)' <=> Planned("fill", t)
  BY <1>1
<1>3. QED BY <1>2 DEF Kept, Sound, FollowPart, FillPart, AppendPart

\* What was planned is planned, or is being done.
LEMMA Advance ==
  ASSUME PlanInv, todo # <<>>, todo' = Tail(todo)
  PROVE  \A w, t : /\ Planned(w, t)' => Planned(w, t)
                   /\ Planned(w, t) => Planned(w, t)' \/ Due(w, t)
<1>1. Range(todo) = {Head(todo)} \cup Range(todo')
  BY HeadIsLeast DEF PlanInv
<1>2. QED BY <1>1 DEF Planned, Has, Due

\* What is planned does not come before what is due.
LEMMA DueIsLeast ==
  ASSUME PlanInv, NEW w, NEW t, Due(w, t)
  PROVE  /\ todo # <<>> /\ [do |-> w, on |-> t] \in Range(todo) /\ Complete(Range(todo))
         /\ Planned(w, t)
         /\ \A x, u : Planned(x, u) => Rank([do |-> w, on |-> t]) <= Rank([do |-> x, on |-> u])
<1>1. todo # <<>> /\ Head(todo) = [do |-> w, on |-> t] /\ IsPlan(todo)
  BY DEF Due, PlanInv
<1>2. QED BY <1>1, HeadIsLeast DEF Planned, Has, IsPlan

LEMMA KeptPlans ==
  ASSUME PlanInv, NEW x, NEW u, Due(x, u), todo' = Tail(todo), NEW t, x \notin TableJobs \/ u # t
  PROVE  \A w \in TableJobs : Planned(w, t)' <=> Planned(w, t)
<1>1. \A w \in TableJobs : ~Due(w, t)
  BY DEF Due
<1>2. QED BY <1>1, Advance DEF Due

\* A process that is cut owes what it had left to recompute.
LEMMA SoundCut ==
  ASSUME NEW t \in Derived, NEW k \in Key, Sound(t, k), Cut
  PROVE  Sound(t, k)'
<1>1. /\ todo' = <<>> /\ owed' = owed \cup Unpaid
      /\ stored' = stored /\ gold' = gold
  BY DEF Cut
<1>2. \A w : ~Planned(w, t)'
  BY <1>1 DEF Planned, Has, Range
<1>3. Computed(t, k)' = Computed(t, k)
  BY <1>1 DEF Computed, GoldRows, KeyOf
<1>4. ASSUME Planned("fill", t) PROVE <<t, k>> \in Unpaid
  <2>1. [do |-> "fill", on |-> t] \in Range(todo)
    BY <1>4 DEF Planned, Has
  <2>2. QED BY <2>1 DEF Unpaid
<1>5. ASSUME NEW w \in {"merge", "append"}, Planned(w, t), k \in Touched(t) PROVE <<t, k>> \in Unpaid
  <2>1. [do |-> w, on |-> t] \in Range(todo)
    BY <1>5 DEF Planned, Has
  <2>2. QED BY <1>5, <2>1 DEF Unpaid
<1>6. FollowPart(t, k)'
  BY <1>1, <1>3, <1>4, <1>5 DEF Sound, FollowPart
<1>7. QED BY <1>2, <1>6 DEF Sound, FillPart, AppendPart

LEMMA SoundStart ==
  ASSUME NEW t \in Derived, NEW k \in Key, Sound(t, k), StartIngest \/ StartRebuild
  PROVE  Sound(t, k)'
<1>1. /\ todo = <<>> /\ Prepared(Range(todo'))
      /\ stored' = stored /\ gold' = gold /\ owed' = owed
  BY StartPlans
<1>2. \A w : ~Planned(w, t)
  BY <1>1 DEF Planned, Has, Range
<1>3. Computed(t, k)' = Computed(t, k)
  BY <1>1 DEF Computed, GoldRows, KeyOf
<1>4. FollowPart(t, k)'
  BY <1>1, <1>2, <1>3 DEF Sound, FollowPart
<1>5. /\ Planned("fill", t)' => Planned("drop", t)'
      /\ t = Bars /\ Planned("append", t)' => Planned("delete", t)'
  BY <1>1 DEF Prepared, Planned, Has
<1>6. QED BY <1>4, <1>5 DEF Sound, FillPart, AppendPart

\* Trades are added before anything is recomputed, and what they touch is then
\* recomputed by what is left to do.
LEMMA SoundAdd ==
  ASSUME TypeOK, PlanInv, NEW t \in Derived, NEW k \in Key, Sound(t, k), NEW u \in Venue, Adds(u)
  PROVE  Sound(t, k)'
<1>1. /\ Due("add", u) /\ todo' = Tail(todo) /\ stored' = stored /\ owed' = owed
      /\ touched \in Seq(SUBSET GoldRow) /\ touched' = Append(touched, Added(u))
      /\ Added(u) \in SUBSET GoldRow
  BY AddedType DEF Adds, AddTrades, Done, TypeOK
<1>2. Touched(t)' = Touched(t) \cup KeysOf(t, Added(u))
  <2>1. Range(touched') = Range(touched) \cup {Added(u)}
    BY <1>1, AppendFacts
  <2>2. QED BY <2>1 DEF Touched, KeysOf, KeyOf
<1>3. Computed(t, k) \subseteq Computed(t, k)'
      /\ (k \notin KeysOf(t, Added(u)) => Computed(t, k)' = Computed(t, k))
  <2>1. GoldRows' = GoldRows \cup Added(u)
    BY GoldGrows
  <2>2. QED BY <2>1 DEF Computed, KeysOf, KeyOf
<1>4. /\ Planned("fill", t)' <=> Planned("fill", t)
      /\ Planned("merge", t)' <=> Planned("merge", t)
      /\ Planned("append", t)' <=> Planned("append", t)
      /\ Planned("delete", t)' <=> Planned("delete", t)
      /\ Planned("drop", t)' <=> Planned("drop", t)
  BY <1>1, KeptPlans DEF TableJobs
<1>5. \A j \in Range(todo) :
        /\ j.do = "add" => \A d \in Derived :
             Has(Range(todo), "fill", d) \/ Has(Range(todo), IF d = Bars THEN "delete" ELSE "merge", d)
        /\ j.do = "delete" => Has(Range(todo), "append", Bars)
        /\ j.do = "append" => \A i \in Range(todo) : i.do # "fill"
  BY <1>1, DueIsLeast DEF Complete
<1>6. Planned("fill", t) \/ Planned(IF t = Bars THEN "delete" ELSE "merge", t)
  <2>1. [do |-> "add", on |-> u] \in Range(todo)
    BY <1>1, DueIsLeast
  <2>2. QED BY <1>5, <2>1 DEF Planned
<1>7. Planned("fill", t) \/ Planned("merge", t) \/ (t = Bars /\ Planned("delete", t) /\ Planned("append", t))
  BY <1>5, <1>6 DEF Planned, Has
<1>8. Planned("append", t) => ~Planned("fill", t)
  BY <1>5 DEF Planned, Has
<1>9. FollowPart(t, k)'
  BY <1>1, <1>2, <1>3, <1>4, <1>7 DEF Sound, FollowPart
<1>10. FillPart(t, k)'
  BY <1>1, <1>3, <1>4 DEF Sound, FillPart
<1>11. AppendPart(t, k)'
  <2>1. t = Bars /\ Planned("append", t) => Planned("delete", t)
    BY <1>6, <1>8
  <2>2. QED BY <1>4, <2>1 DEF AppendPart
<1>12. QED BY <1>9, <1>10, <1>11 DEF Sound

LEMMA SoundSkip ==
  ASSUME TypeOK, PlanInv, NEW t \in Derived, NEW k \in Key, Sound(t, k),
         NEW what \in {"merge", "delete", "append"}, NEW d \in Derived, SkipDerived(what, d)
  PROVE  Sound(t, k)'
<1>1. /\ Due(what, d) /\ todo' = Tail(todo) /\ stored' = stored /\ owed' = owed /\ gold' = gold
      /\ touched' = touched
  BY DEF SkipDerived, Done
<1>2. Computed(t, k)' = Computed(t, k) /\ Touched(t)' = Touched(t)
  BY <1>1 DEF Computed, GoldRows, Touched, KeysOf, KeyOf
<1>3. CASE t # d
  <2>1. Kept(t, k)
    BY <1>1, <1>2, <1>3, KeptPlans DEF Kept
  <2>2. QED BY <2>1, KeptSound
<1>4. CASE t = d
  <2>1. Touched(t) = {}
    <3>1. CASE touched = <<>>
      <4>1. Range(touched) = {}
        BY <3>1 DEF Range
      <4>2. QED BY <4>1 DEF Touched, KeysOf
    <3>2. QED BY <1>4, <3>1 DEF SkipDerived, Untouched
  <2>2. /\ Planned("fill", t)' <=> Planned("fill", t)
        /\ Planned("drop", t)' <=> Planned("drop", t)
    <3>1. ~Due("fill", t) /\ ~Due("drop", t) /\ todo # <<>>
      BY <1>1 DEF Due
    <3>2. QED BY <1>1, <3>1, Advance
  <2>3. QED BY <1>1, <1>2, <2>1, <2>2 DEF Sound, FollowPart, FillPart, AppendPart
<1>5. QED BY <1>3, <1>4

LEMMA SoundMerge ==
  ASSUME TypeOK, PlanInv, NEW t \in Derived, NEW k \in Key, Sound(t, k), NEW d \in Frames, MergeCandles(d)
  PROVE  Sound(t, k)'
<1>1. /\ Due("merge", d) /\ todo' = Tail(todo) /\ owed' = owed \ ({d} \X Touched(d)) /\ gold' = gold
      /\ touched' = touched
      /\ stored' = [stored EXCEPT ![d] = [i \in Key |-> IF i \in Touched(d) THEN Computed(d, i) ELSE @[i]]]
  BY DEF MergeCandles, Done, Paid, Recomputed
<1>2. Computed(t, k)' = Computed(t, k) /\ Touched(t)' = Touched(t)
  BY <1>1 DEF Computed, GoldRows, Touched, KeysOf, KeyOf
<1>3. d \in Derived /\ d # Bars
  BY Constants
<1>4. CASE t # d
  <2>1. stored'[t][k] = stored[t][k]
    BY <1>1, <1>4 DEF TypeOK
  <2>2. <<t, k>> \in owed => <<t, k>> \in owed'
    BY <1>1, <1>4
  <2>3. Kept(t, k)
    BY <1>1, <1>2, <1>4, <2>1, <2>2, KeptPlans DEF Kept
  <2>4. QED BY <2>3, KeptSound
<1>5. CASE t = d
  <2>1. stored'[t][k] = IF k \in Touched(t) THEN Computed(t, k) ELSE stored[t][k]
    BY <1>1, <1>5 DEF TypeOK
  <2>2. k \notin Touched(t) => (<<t, k>> \in owed => <<t, k>> \in owed')
    BY <1>1, <1>5
  <2>3. /\ Planned("fill", t)' <=> Planned("fill", t)
        /\ Planned("drop", t)' <=> Planned("drop", t)
    <3>1. ~Due("fill", t) /\ ~Due("drop", t) /\ todo # <<>>
      BY <1>1 DEF Due
    <3>2. QED BY <1>1, <3>1, Advance
  <2>4. QED BY <1>2, <1>3, <1>5, <2>1, <2>2, <2>3 DEF Sound, FollowPart, FillPart, AppendPart
<1>6. QED BY <1>4, <1>5

LEMMA SoundDelete ==
  ASSUME TypeOK, PlanInv, NEW t \in Derived, NEW k \in Key, Sound(t, k), DeleteBars
  PROVE  Sound(t, k)'
<1>1. /\ Due("delete", Bars) /\ todo' = Tail(todo) /\ owed' = owed /\ gold' = gold /\ touched' = touched
      /\ stored' = [stored EXCEPT ![Bars] = [i \in Key |-> IF i \in Touched(Bars) THEN {} ELSE @[i]]]
  BY DEF DeleteBars, Done
<1>2. Computed(t, k)' = Computed(t, k) /\ Touched(t)' = Touched(t)
  BY <1>1 DEF Computed, GoldRows, Touched, KeysOf, KeyOf
<1>3. CASE t # Bars
  <2>1. stored'[t][k] = stored[t][k]
    BY <1>1, <1>3 DEF TypeOK
  <2>2. Kept(t, k)
    BY <1>1, <1>2, <1>3, <2>1, KeptPlans DEF Kept
  <2>3. QED BY <2>2, KeptSound
<1>4. CASE t = Bars
  <2>1. stored'[t][k] = IF k \in Touched(t) THEN {} ELSE stored[t][k]
    BY <1>1, <1>4 DEF TypeOK
  <2>2. Planned("append", t)
    <3>1. \A j \in Range(todo) : j.do = "delete" => Has(Range(todo), "append", Bars)
      BY <1>1, DueIsLeast DEF Complete
    <3>2. [do |-> "delete", on |-> Bars] \in Range(todo)
      BY <1>1, DueIsLeast
    <3>3. QED BY <1>4, <3>1, <3>2 DEF Planned
  <2>3. /\ Planned("append", t)' <=> Planned("append", t)
        /\ Planned("fill", t)' <=> Planned("fill", t)
        /\ Planned("drop", t)' <=> Planned("drop", t)
    <3>1. ~Due("fill", t) /\ ~Due("drop", t) /\ ~Due("append", t) /\ todo # <<>>
      BY <1>1 DEF Due
    <3>2. QED BY <1>1, <3>1, Advance
  <2>4. QED BY <1>1, <1>2, <2>1, <2>2, <2>3 DEF Sound, FollowPart, FillPart, AppendPart
<1>5. QED BY <1>3, <1>4

\* What is appended to was deleted before.
LEMMA SoundAppend ==
  ASSUME TypeOK, PlanInv, NEW t \in Derived, NEW k \in Key, Sound(t, k), AppendBars
  PROVE  Sound(t, k)'
<1>1. /\ Due("append", Bars) /\ todo' = Tail(todo) /\ owed' = owed \ ({Bars} \X Touched(Bars))
      /\ gold' = gold /\ touched' = touched
      /\ stored' = [stored EXCEPT ![Bars] =
                      [i \in Key |-> @[i] \cup IF i \in Touched(Bars) THEN Computed(Bars, i) ELSE {}]]
  BY DEF AppendBars, Done, Paid
<1>2. Computed(t, k)' = Computed(t, k) /\ Touched(t)' = Touched(t)
  BY <1>1 DEF Computed, GoldRows, Touched, KeysOf, KeyOf
<1>3. CASE t # Bars
  <2>1. stored'[t][k] = stored[t][k]
    BY <1>1, <1>3 DEF TypeOK
  <2>2. <<t, k>> \in owed => <<t, k>> \in owed'
    BY <1>1, <1>3
  <2>3. Kept(t, k)
    BY <1>1, <1>2, <1>3, <2>1, <2>2, KeptPlans DEF Kept
  <2>4. QED BY <2>3, KeptSound
<1>4. CASE t = Bars
  <2>1. stored'[t][k] = stored[t][k] \cup IF k \in Touched(t) THEN Computed(t, k) ELSE {}
    BY <1>1, <1>4 DEF TypeOK
  <2>2. Planned("append", t) /\ ~Planned("delete", t)
    <3>1. Planned("append", t)
      BY <1>1, <1>4, DueIsLeast
    <3>2. ASSUME Planned("delete", t) PROVE FALSE
      <4>1. Rank([do |-> "append", on |-> Bars]) <= Rank([do |-> "delete", on |-> t])
        BY <1>1, <3>2, DueIsLeast
      <4>2. Rank([do |-> "append", on |-> Bars]) = 8 /\ Rank([do |-> "delete", on |-> t]) = 7
        BY DEF Rank
      <4>3. QED BY <4>1, <4>2
    <3>3. QED BY <3>1, <3>2
  <2>3. /\ Planned("fill", t)' <=> Planned("fill", t)
        /\ Planned("drop", t)' <=> Planned("drop", t)
    <3>1. ~Due("fill", t) /\ ~Due("drop", t) /\ todo # <<>>
      BY <1>1 DEF Due
    <3>2. QED BY <1>1, <3>1, Advance
  <2>4. CASE k \in Touched(t)
    <3>1. stored'[t][k] = Computed(t, k)
      BY <1>4, <2>1, <2>2, <2>4 DEF Sound, AppendPart
    <3>2. QED BY <1>2, <3>1 DEF Sound, FollowPart, FillPart, AppendPart
  <2>5. CASE k \notin Touched(t)
    <3>1. stored'[t][k] = stored[t][k] /\ (<<t, k>> \in owed => <<t, k>> \in owed')
      BY <1>1, <1>4, <2>1, <2>5
    <3>2. QED BY <1>2, <2>3, <2>5, <3>1 DEF Sound, FollowPart, FillPart, AppendPart
  <2>6. QED BY <2>4, <2>5
<1>5. QED BY <1>3, <1>4

\* What is filled was dropped before.
LEMMA SoundFill ==
  ASSUME TypeOK, PlanInv, NEW t \in Derived, NEW k \in Key, Sound(t, k), NEW d \in Derived, FillDerived(d)
  PROVE  Sound(t, k)'
<1>1. /\ Due("fill", d) /\ todo' = Tail(todo) /\ owed' = owed \ ({d} \X Key)
      /\ gold' = gold /\ touched' = touched
      /\ stored' = [stored EXCEPT ![d] = [i \in Key |-> @[i] \cup Computed(d, i)]]
  BY DEF FillDerived, Done, Paid
<1>2. Computed(t, k)' = Computed(t, k) /\ Touched(t)' = Touched(t)
  BY <1>1 DEF Computed, GoldRows, Touched, KeysOf, KeyOf
<1>3. CASE t # d
  <2>1. stored'[t][k] = stored[t][k]
    BY <1>1, <1>3 DEF TypeOK
  <2>2. <<t, k>> \in owed => <<t, k>> \in owed'
    BY <1>1, <1>3
  <2>3. Kept(t, k)
    BY <1>1, <1>2, <1>3, <2>1, <2>2, KeptPlans DEF Kept
  <2>4. QED BY <2>3, KeptSound
<1>4. CASE t = d
  <2>1. stored'[t][k] = stored[t][k] \cup Computed(t, k)
    BY <1>1, <1>4 DEF TypeOK
  <2>2. Planned("fill", t) /\ ~Planned("drop", t)
    <3>1. Planned("fill", t)
      BY <1>1, <1>4, DueIsLeast
    <3>2. ASSUME Planned("drop", t) PROVE FALSE
      <4>1. Rank([do |-> "fill", on |-> d]) <= Rank([do |-> "drop", on |-> t])
        BY <1>1, <3>2, DueIsLeast
      <4>2. Rank([do |-> "fill", on |-> d]) = 9 /\ Rank([do |-> "drop", on |-> t]) \in {0, 1}
        BY DEF Rank
      <4>3. QED BY <4>1, <4>2
    <3>3. QED BY <3>1, <3>2
  <2>3. stored'[t][k] = Computed(t, k)
    BY <2>1, <2>2 DEF Sound, FillPart
  <2>4. QED BY <1>2, <2>3 DEF Sound, FollowPart, FillPart, AppendPart
<1>5. QED BY <1>3, <1>4

\* With gold.trades everything that is computed from it is dropped, and filled again.
LEMMA SoundDropTrades ==
  ASSUME PlanInv, NEW t \in Derived, NEW k \in Key, Drop(Trades)
  PROVE  Sound(t, k)'
<1>1. Due("drop", Trades) /\ todo # <<>> /\ todo' = Tail(todo) /\ t # Trades
  BY Constants DEF Drop, Due
<1>2. \A j \in Range(todo) :
        /\ j.do = "drop" /\ j.on \in Derived => Has(Range(todo), "fill", j.on)
        /\ j.do = "drop" /\ j.on = Trades => \A d \in Derived : Has(Range(todo), "drop", d)
        /\ j.do = "append" => \A i \in Range(todo) : i.do # "fill"
  BY <1>1, DueIsLeast DEF Complete
<1>3. [do |-> "drop", on |-> t] \in Range(todo)
  <2>1. [do |-> "drop", on |-> Trades] \in Range(todo)
    BY <1>1, DueIsLeast
  <2>2. QED BY <1>2, <2>1 DEF Has
<1>4. [do |-> "fill", on |-> t] \in Range(todo)
  BY <1>2, <1>3 DEF Has
<1>5. ~Planned("append", t)
  BY <1>2, <1>4 DEF Planned, Has
<1>6. Planned("drop", t)' /\ Planned("fill", t)' /\ ~Planned("append", t)'
  <2>1. ~Due("drop", t) /\ ~Due("fill", t)
    BY <1>1 DEF Due
  <2>2. Planned("drop", t) /\ Planned("fill", t)
    BY <1>3, <1>4 DEF Planned, Has
  <2>3. QED BY <1>1, <1>5, <2>1, <2>2, Advance
<1>7. QED BY <1>6 DEF Sound, FollowPart, FillPart, AppendPart

LEMMA SoundDrop ==
  ASSUME TypeOK, PlanInv, NEW t \in Derived, NEW k \in Key, Sound(t, k), NEW d \in Derived, Drop(d)
  PROVE  Sound(t, k)'
<1>1. /\ Due("drop", d) /\ todo # <<>> /\ todo' = Tail(todo) /\ owed' = owed
      /\ gold' = gold /\ touched' = touched /\ stored' = [stored EXCEPT ![d] = NoRows]
  BY Constants DEF Drop, Due
<1>2. Computed(t, k)' = Computed(t, k) /\ Touched(t)' = Touched(t)
  BY <1>1 DEF Computed, GoldRows, Touched, KeysOf, KeyOf
<1>3. CASE t # d
  <2>1. stored'[t][k] = stored[t][k]
    BY <1>1, <1>3 DEF TypeOK
  <2>2. Kept(t, k)
    BY <1>1, <1>2, <1>3, <2>1, KeptPlans DEF Kept
  <2>3. QED BY <2>2, KeptSound
<1>4. CASE t = d
  <2>1. stored'[t][k] = {}
    BY <1>1, <1>4 DEF TypeOK, NoRows
  <2>2. Planned("fill", t)'
    <3>1. \A j \in Range(todo) : j.do = "drop" /\ j.on \in Derived => Has(Range(todo), "fill", j.on)
      BY <1>1, DueIsLeast DEF Complete
    <3>2. [do |-> "drop", on |-> t] \in Range(todo)
      BY <1>1, <1>4, DueIsLeast
    <3>3. Planned("fill", t)
      BY <3>1, <3>2 DEF Planned
    <3>4. ~Due("fill", t)
      BY <1>1 DEF Due
    <3>5. QED BY <1>1, <3>3, <3>4, Advance
  <2>3. QED BY <2>1, <2>2 DEF Sound, FollowPart, FillPart, AppendPart
<1>5. QED BY <1>3, <1>4

\* A step that no row of candles or bars is concerned by.
Aside ==
  /\ UNCHANGED <<gold, stored, touched, owed>>
  /\ \/ todo' = todo
     \/ todo' = Tail(todo) /\ \E x, u : Due(x, u) /\ (x \notin TableJobs \/ u \in Venue \/ u \notin Derived)

LEMMA SoundAside ==
  ASSUME PlanInv, NEW t \in Derived, NEW k \in Key, Sound(t, k), Aside
  PROVE  Sound(t, k)'
<1>1. UNCHANGED <<gold, stored, touched, owed>>
  BY DEF Aside
<1>2. Computed(t, k)' = Computed(t, k) /\ Touched(t)' = Touched(t)
  BY <1>1 DEF Computed, GoldRows, Touched, KeysOf, KeyOf
<1>3. \A w \in TableJobs : Planned(w, t)' <=> Planned(w, t)
  <2>1. CASE todo' = todo
    BY <2>1 DEF Planned
  <2>2. CASE todo' # todo
    <3>1. PICK x, u : Due(x, u) /\ (x \notin TableJobs \/ u \in Venue \/ u \notin Derived) /\ todo' = Tail(todo)
      BY <2>2 DEF Aside
    <3>2. x \notin TableJobs \/ u # t
      BY <3>1, Constants
    <3>3. QED BY <3>1, <3>2, KeptPlans
  <2>3. QED BY <2>1, <2>2
<1>4. Kept(t, k)
  BY <1>1, <1>2, <1>3 DEF Kept
<1>5. QED BY <1>4, KeptSound

LEMMA TableCases ==
  ASSUME TypeOK, [Next]_vars
  PROVE  \/ Aside \/ Cut \/ StartIngest \/ StartRebuild
         \/ \E u \in Venue : Adds(u)
         \/ \E what \in {"merge", "delete", "append"}, d \in Derived : SkipDerived(what, d)
         \/ \E d \in Frames : MergeCandles(d)
         \/ DeleteBars \/ AppendBars
         \/ \E d \in Derived : FillDerived(d)
         \/ Drop(Trades)
         \/ \E d \in Derived : Drop(d)
<1>1. ASSUME NEW v \in Venue, TypeTrades(v) \/ ReplayEnds(v) PROVE Aside
  BY <1>1 DEF TypeTrades, ReplayEnds, Done, Aside, TableJobs
<1>2. ASSUME NEW v \in Venue, ReplayDay(v) PROVE Aside
  BY <1>2 DEF ReplayDay, Aside, history
<1>3. ASSUME NEW v \in Venue, AddTrades(v) PROVE Adds(v) \/ Aside
  <2>1. CASE UNCHANGED <<gold, position, touched>>
    BY <1>3, <2>1 DEF AddTrades, Done, Aside, TableJobs
  <2>2. QED BY <1>3, <2>1, AddCases
<1>4. ASSUME NEW d \in Venue \cup Derived \cup {Trades}, Create(d) PROVE Aside
  BY <1>4 DEF Create, Done, Aside, TableJobs
<1>5. ASSUME NEW d \in Venue, Drop(d) PROVE Aside
  BY <1>5 DEF Drop, Aside
<1>6. CASE UNCHANGED vars \/ NextDay \/ \E v \in Venue, id \in Ids : Hear(v, id)
  BY <1>6 DEF vars, NextDay, Hear, Aside, history
<1>7. CASE Killed \/ Dies
  BY <1>7 DEF Killed, Dies
<1>8. QED BY <1>1, <1>2, <1>3, <1>4, <1>5, <1>6, <1>7 DEF Next, Step

LEMMA TablesStep ==
  ASSUME TypeOK, TypeOK', PlanInv, TablesInv, [Next]_vars
  PROVE  TablesInv'
<1>1. \A t \in Derived, k \in Key : Sound(t, k)'
  <2> SUFFICES ASSUME NEW t \in Derived, NEW k \in Key PROVE Sound(t, k)'
    OBVIOUS
  <2>1. Sound(t, k)
    BY TableParts
  <2>2. QED BY <2>1, TableCases, SoundAside, SoundCut, SoundStart, SoundAdd, SoundSkip, SoundMerge, SoundDelete,
           SoundAppend, SoundFill, SoundDropTrades, SoundDrop
<1>2. (TablesInv <=> \A t \in Derived, k \in Key : Sound(t, k))'
  BY TableParts, PTL
<1>3. QED BY <1>1, <1>2

-----------------------------------------------------------------------------
(* The invariant *)

LEMMA InitType == Init => TypeOK /\ PlanInv
<1> SUFFICES ASSUME Init PROVE TypeOK /\ PlanInv
  OBVIOUS
<1>1. <<>> \in Seq(Delivery) /\ <<>> \in Seq(SUBSET SilverRow) /\ <<>> \in Seq(SUBSET GoldRow) /\ <<>> \in Seq(Job)
  OBVIOUS
<1>2. 0 \in 0..MaxEvents /\ NoPosition \in [gen : Nat, snapshot : Nat]
  BY Constants DEF NoPosition
<1>3. [gen |-> 1, at |-> 0, commits |-> <<>>] \in [gen : Nat, at : Nat, commits : Seq(SUBSET SilverRow)]
  BY <1>1
<1>4. NoRows \in [Key -> SUBSET GoldRow]
  BY DEF NoRows
<1>5. stored \in [Derived -> [Key -> SUBSET GoldRow]]
  BY <1>4 DEF Init
<1>6. TypeOK
  BY <1>1, <1>2, <1>3, <1>5 DEF Init, TypeOK
<1>7. IsPlan(<<>>)
  BY DEF IsPlan, InOrder, Complete, Range
<1>8. QED BY <1>6, <1>7 DEF Init, PlanInv

LEMMA InitInv == Init => IInv /\ FlagInv
<1> SUFFICES ASSUME Init PROVE IInv /\ FlagInv
  OBVIOUS
<1>0. TypeOK /\ PlanInv
  BY InitType
<1>1. Range(<<>>) = {} /\ DOMAIN <<>> = {} /\ Len(<<>>) = 0
  BY DEF Range
<1>2. \A v \in Venue : /\ heard[v] = <<>> /\ silver[v].gen = 1 /\ silver[v].at = 0 /\ silver[v].commits = <<>>
                       /\ position[v] = NoPosition /\ NoPosition.gen = 0
  BY DEF Init, NoPosition
<1>3. \A v \in Venue : SilverRows(v) = {}
  BY <1>1, <1>2 DEF SilverRows
<1>4. GoldRows = {} /\ gold = <<>>
  BY <1>1 DEF Init, GoldRows
<1>5. HeardInv /\ SilverInv
  <2>1. HeardInv
    BY <1>1, <1>2 DEF Init, HeardInv
  <2>2. SilverInv
    BY <1>1, <1>2, <1>3 DEF SilverInv, RowsOf
  <2>3. QED BY <2>1, <2>2
<1>6. CoverInv
  <2>1. \A w, t : ~Planned(w, t)
    BY <1>1 DEF Init, Planned, Has
  <2>2. \A v \in Venue : Covered(v)
    BY <1>2 DEF Covered
  <2>3. QED BY <2>1, <2>2 DEF CoverInv
<1>7. FlagInv /\ GapInv
  BY <1>2, <1>3 DEF FlagInv, GapInv, NoHoles
<1>8. GoldInv
  BY <1>1, <1>2, <1>4 DEF GoldInv, GoldOf
<1>9. TablesInv
  <2>1. \A t \in Derived, k \in Key : stored[t][k] = Computed(t, k)
    BY <1>4 DEF Init, NoRows, Computed
  <2>2. \A t \in Derived, k \in Key : Sound(t, k)
    BY <2>1 DEF Sound, FollowPart, FillPart, AppendPart
  <2>3. QED BY <1>0, <2>2, TableParts
<1>10. QED BY <1>0, <1>5, <1>6, <1>7, <1>8, <1>9 DEF IInv, LakeInv

LEMMA InvStep == IInv /\ [Next]_vars => IInv'
<1> SUFFICES ASSUME IInv, [Next]_vars PROVE IInv'
  OBVIOUS
<1>1. TypeOK /\ PlanInv /\ HeardInv /\ SilverInv /\ LakeInv
  BY DEF IInv, LakeInv
<1>2. LakeInv'
  BY <1>1, TypeStep, PlanStep, HeardStep, SilverStep DEF LakeInv
<1>3. CoverInv' /\ GapInv' /\ GoldInv'
  BY <1>1, CoverStep, GapStep, GoldStep DEF IInv
<1>4. TablesInv'
  BY <1>1, <1>2, TablesStep DEF IInv, LakeInv
<1>5. QED BY <1>2, <1>3, <1>4 DEF IInv

\* The state of silver, gold, candles and bars holds together: every process has
\* left to do what makes up for what it has done (IngestJobs and the rebuilds), a
\* venue's silver rows are distinct deliveries of it, gold has the originals up to
\* the position it carries, and what a bucket is not yet right by is planned or owed.
THEOREM DerivedInvariant == Spec => []IInv
<1>1. Init => IInv
  BY InitInv
<1>2. IInv /\ [Next]_vars => IInv'
  BY InvStep
<1>3. QED BY <1>1, <1>2, PTL DEF Spec

\* score looks back far enough: a venue that re-sends no later than LOOKBACK has
\* each trade flagged but for its first delivery.
THEOREM FlagsHold ==
  ASSUME MaxResend <= Lookback
  PROVE  Spec => []FlagInv
<1>1. Init => FlagInv
  BY InitInv
<1>2. IInv /\ FlagInv /\ [Next]_vars => FlagInv'
  BY FlagStep DEF IInv
<1>3. QED BY <1>1, <1>2, DerivedInvariant, PTL DEF Spec

\* OneRowPerTrade (silver.py, gold.py): whatever is re-sent within LOOKBACK, and
\* however it is cut into batches, a venue's silver has each delivery once, with
\* the first unflagged, and gold.trades has that one and no other.
THEOREM OneRowPerTradeHolds ==
  ASSUME MaxResend <= Lookback
  PROVE  Spec => []OneRowPerTrade
<1>1. IInv /\ FlagInv => OneRowPerTrade
  <2> SUFFICES ASSUME IInv, FlagInv PROVE OneRowPerTrade
    OBVIOUS
  <2>1. TypeOK /\ SilverInv /\ CoverInv /\ GoldInv
    BY DEF IInv, LakeInv
  <2>2. \A i, j \in DOMAIN gold : i # j => gold[i] \cap gold[j] = {}
    BY <2>1 DEF GoldInv
  <2>3. ASSUME NEW v \in Venue, Whole(v)
        PROVE  /\ {r.n : r \in SilverRows(v)} = 1..silver[v].at
               /\ \A r \in SilverRows(v) : r.replay <=> \E m \in 1..(r.n - 1) : heard[v][m].id = r.id
               /\ position[v].gen = silver[v].gen =>
                    GoldOf(v) = {[venue |-> v, n |-> r.n, id |-> r.id] : r \in FirstDeliveries(v)}
    <3>1. v \notin torn /\ Covered(v)
      BY <2>1, <2>3 DEF Whole, CoverInv
    <3>2. RowsOf(v, SilverRows(v))
      BY <2>1 DEF SilverInv
    <3>3. {r.n : r \in SilverRows(v)} = 1..silver[v].at
      <4>1. \A n \in 1..silver[v].at : \E r \in SilverRows(v) : r.n = n
        BY <3>1 DEF Covered, Typed
      <4>2. \A r \in SilverRows(v) : r.n \in 1..silver[v].at
        BY <3>2 DEF RowsOf
      <4>3. QED BY <4>1, <4>2
    <3>4. \A r \in SilverRows(v) : r.replay <=> \E m \in 1..(r.n - 1) : heard[v][m].id = r.id
      BY <3>1, <3>2 DEF RowsOf, FlagInv, First, Sent
    <3>5. position[v].gen = silver[v].gen =>
            GoldOf(v) = {[venue |-> v, n |-> r.n, id |-> r.id] : r \in FirstDeliveries(v)}
      BY <2>1 DEF GoldInv, Projected
    <3>6. QED BY <3>3, <3>4, <3>5
  <2>4. QED BY <2>1, <2>2, <2>3 DEF OneRowPerTrade
<1>2. QED BY <1>1, DerivedInvariant, FlagsHold, PTL

\* GapsAreExact (silver.py, score): in whatever order trades and re-sent trades come
\* and batches are cut, the gap before an original is what had not been delivered by
\* the end of its batch between it and the nearest lower trade, where that came at
\* most LOOKBACK before it, and is unknown where no lower trade had come.
THEOREM GapsAreExactHolds == Spec => []GapsAreExact
<1>1. IInv => GapsAreExact
  <2> SUFFICES ASSUME IInv, NEW v \in Venue, Whole(v), NEW i \in DOMAIN silver[v].commits,
                      NEW r \in Originals(silver[v].commits[i])
               PROVE  LET lower == {m \in 1..End(silver[v].commits[i]) : heard[v][m].id < r.id}
                      IN  /\ lower = {} => r.missing = Unknown
                          /\ \A m \in lower :
                               /\ \A k \in lower : heard[v][k].id <= heard[v][m].id
                               /\ r.day - heard[v][m].day <= Lookback
                               => r.missing = r.id - heard[v][m].id - 1
    BY DEF GapsAreExact
  <2> DEFINE end == End(silver[v].commits[i])
             lower == {m \in 1..end : heard[v][m].id < r.id}
  <2>1. Gap(v, r, end)
    BY DEF IInv, GapInv, Gaps, Whole, Originals
  <2> HIDE DEF end
  <2>2. lower = {} => \A m \in 1..end : ~(heard[v][m].id < r.id)
    OBVIOUS
  <2>3. ASSUME NEW m \in lower, \A k \in lower : heard[v][k].id <= heard[v][m].id
        PROVE  IsBelow(v, r, m, end)
    BY <2>3 DEF IsBelow
  <2>4. lower = {} => r.missing = Unknown
    BY <2>1, <2>2 DEF Gap
  <2>5. \A m \in lower :
          /\ \A k \in lower : heard[v][k].id <= heard[v][m].id
          /\ r.day - heard[v][m].day <= Lookback
          => r.missing = r.id - heard[v][m].id - 1
    <3> HIDE DEF lower
    <3>1. QED BY <2>1, <2>3 DEF Gap
  <2>6. QED BY <2>4, <2>5 DEF end
<1>2. QED BY <1>1, DerivedInvariant, PTL

\* DerivedFollowTrades (gold.py, bars.py, rebuild.py): between processes every
\* candle and bar is what its bucket computes to, but for what a cut process owed.
THEOREM DerivedFollowTradesHolds == Spec => []DerivedFollowTrades
<1>1. IInv => DerivedFollowTrades
  <2> SUFFICES ASSUME IInv, todo = <<>>, NEW t \in Derived \ absent, NEW k \in Key, <<t, k>> \notin owed
               PROVE  stored[t][k] = Computed(t, k)
    BY DEF DerivedFollowTrades
  <2>1. \A w : ~Planned(w, t)
    BY DEF Planned, Has, Range
  <2>2. QED BY <2>1 DEF IInv, TablesInv, FollowInv
<1>2. QED BY <1>1, DerivedInvariant, PTL

-----------------------------------------------------------------------------
(* Cut rebuilds *)

TornPart(v) ==
  /\ Planned("replay", v) /\ ~Planned("drop", v) /\ silver[v].commits # <<>>
       => silver[v].at = Len(heard[v])
  /\ v \in torn => \E n \in 1..silver[v].at : ~Typed(v, n)

LEMMA TornStep ==
  ASSUME LakeInv, CoverInv, TornInv, [Next]_vars
  PROVE  TornInv'
<1> SUFFICES ASSUME NEW v \in Venue PROVE TornPart(v)'
  BY DEF TornInv, TornPart
<1>0. TypeOK /\ PlanInv /\ HeardInv /\ SilverInv /\ TornPart(v)
  BY DEF LakeInv, TornInv, TornPart
<1>a. silver'[v] = silver[v] /\ (v \in torn' => v \in torn)
        => (v \in torn' => \E n \in 1..silver'[v].at : ~Typed(v, n)')
  BY <1>0 DEF TornPart, Typed, SilverRows
<1>b. todo' = <<>> => ~Planned("replay", v)'
  BY DEF Planned, Has, Range
<1>1. CASE UNCHANGED vars
  BY <1>0, <1>1, <1>a DEF vars, TornPart, Planned
<1>2. CASE StartIngest \/ StartRebuild
  <2>1. Prepared(Range(todo')) /\ silver' = silver /\ torn' = torn
    BY <1>2, StartPlans
  <2>2. Planned("replay", v)' => Planned("drop", v)'
    BY <2>1 DEF Prepared, Planned, Has
  <2>3. QED BY <1>a, <2>1, <2>2 DEF TornPart
<1>3. CASE todo = <<>> /\ todo' = <<>> /\ silver' = silver /\ torn' = torn
  BY <1>3, <1>a, <1>b DEF TornPart
<1>4. CASE Cut
  <2>1. todo' = <<>> /\ silver' = silver /\ torn' = torn \cup Halfway
    BY <1>4 DEF Cut
  <2>2. CASE v \notin Halfway
    BY <1>a, <1>b, <2>1, <2>2 DEF TornPart
  <2>3. CASE v \in Halfway
    <3>1. Due("replay", v) /\ silver[v].commits # <<>> /\ DaysLeft(v) # {}
      BY <2>3 DEF Halfway
    <3>2. silver[v].at = Len(heard[v])
      BY <1>0, <3>1, ReplayDue DEF TornPart
    <3>3. PICK n \in DOMAIN heard[v] : heard[v][n].day \notin {r.day : r \in SilverRows(v)}
      BY <3>1 DEF DaysLeft, Range
    <3>4. ~Typed(v, n)
      <4>1. \A r \in SilverRows(v) : r.day = heard[v][r.n].day
        BY <1>0 DEF SilverInv, RowsOf
      <4>2. QED BY <3>3, <4>1 DEF Typed
    <3>5. n \in 1..silver[v].at
      BY <1>0, <3>2, SilverFacts
    <3>6. ~Typed(v, n)' /\ n \in 1..silver'[v].at
      BY <2>1, <3>4, <3>5 DEF Typed, SilverRows
    <3>7. QED BY <1>b, <2>1, <3>6 DEF TornPart
  <2>4. QED BY <2>2, <2>3
<1>5. CASE TypeTrades(v) /\ Writes(v, Batch(v))
  <2>1. torn' = torn /\ silver'[v].at = Len(heard[v]) /\ heard' = heard
    BY <1>5, WriteFacts DEF TypeTrades, Done, Writes
  <2>2. ASSUME v \in torn PROVE \E n \in 1..silver'[v].at : ~Typed(v, n)'
    <3>1. PICK n \in 1..silver[v].at : ~Typed(v, n)
      BY <1>0, <2>2 DEF TornPart
    <3>2. silver[v].at \in Nat /\ Len(heard[v]) \in Nat /\ silver[v].at <= Len(heard[v])
      BY <1>0, SilverFacts DEF SilverInv
    <3>3. silver[v].at + 1 .. Len(heard[v]) \subseteq DOMAIN heard[v]
      BY <1>0, <3>2, SilverFacts
    <3>4. \A b \in Batch(v) : b.n \in silver[v].at + 1 .. Len(heard[v])
      <4>1. RowsAt(v, silver[v].at + 1 .. Len(heard[v]), Batch(v))
        BY <1>0, <3>3, RowsFacts DEF Batch
      <4>2. QED BY <4>1 DEF RowsAt
    <3>5. \A b \in Batch(v) : b.n # n
      BY <3>2, <3>4
    <3>6. ~Typed(v, n)'
      BY <1>5, <3>1, <3>5, NewlyTyped
    <3>7. n \in 1..silver'[v].at
      BY <2>1, <3>2
    <3>8. QED BY <3>6, <3>7
  <2>3. QED BY <2>1, <2>2 DEF TornPart
<1>6. CASE ReplayDay(v) /\ Writes(v, DayRows(v))
  <2>1. torn' = torn /\ v \notin torn /\ silver'[v].at = Len(heard[v]) /\ heard' = heard
    BY <1>0, <1>6, WriteFacts, DayReaches DEF ReplayDay, history, Writes
  <2>2. QED BY <2>1 DEF TornPart
<1>7. CASE Drop(v) /\ Dropped(v)
  <2>1. v \notin torn' /\ silver'[v].commits = <<>>
    BY <1>0, <1>7, DroppedFacts DEF Drop
  <2>2. QED BY <2>1 DEF TornPart
<1>8. CASE Elsewhere(v)
  <2>1. /\ todo # <<>> /\ heard' = heard /\ silver'[v] = silver[v] /\ (v \in torn' <=> v \in torn)
        /\ ~Due("drop", v) /\ (todo' = todo \/ todo' = Tail(todo))
    BY <1>8 DEF Elsewhere
  <2>2. (Planned("replay", v)' => Planned("replay", v)) /\ (Planned("drop", v) => Planned("drop", v)')
    <3>1. CASE todo' = todo
      BY <3>1 DEF Planned
    <3>2. CASE todo' = Tail(todo)
      BY <1>0, <2>1, <3>2, Advance
    <3>3. QED BY <2>1, <3>1, <3>2
  <2>3. QED BY <1>0, <1>a, <2>1, <2>2 DEF TornPart
<1>9. QED BY <1>0, <1>1, <1>2, <1>3, <1>4, <1>5, <1>6, <1>7, <1>8, VenueCases

-----------------------------------------------------------------------------
(* What the audits count *)

\* A sum over a set of numbers, as the community modules fold it.
Rest(s) == s \ {CHOOSE x \in s : TRUE}
IsSum(D, A, G) ==
  \A s \in SUBSET D : G[s] = IF s = {} THEN 0 ELSE Cardinality(A[CHOOSE x \in s : TRUE]) + G[Rest(s)]

Apart(D, A) ==
  /\ IsFiniteSet(D) /\ \A i \in D : IsFiniteSet(A[i])
  /\ \A i, j \in D : i # j => A[i] \cap A[j] = {}

All(A, s) == UNION {A[i] : i \in s}

LEMMA RestFacts ==
  ASSUME NEW D, NEW s \in SUBSET D, s # {}, IsFiniteSet(D)
  PROVE  /\ (CHOOSE x \in s : TRUE) \in s /\ Rest(s) \in SUBSET D
         /\ IsFiniteSet(s) /\ IsFiniteSet(Rest(s))
         /\ Cardinality(s) \in Nat /\ Cardinality(Rest(s)) \in Nat
         /\ Cardinality(Rest(s)) < Cardinality(s)
<1> DEFINE c == CHOOSE x \in s : TRUE
<1>1. c \in s
  OBVIOUS
<1> HIDE DEF c
<1>2. Rest(s) = s \ {c}
  BY DEF Rest, c
<1>3. IsFiniteSet(s)
  BY FS_Subset
<1>4. IsFiniteSet(s \ {c}) /\ Cardinality(s \ {c}) = Cardinality(s) - 1
  BY <1>1, <1>3, FS_RemoveElement
<1>5. Cardinality(s) \in Nat /\ Cardinality(s \ {c}) \in Nat
  BY <1>3, <1>4, FS_CardinalityType
<1>6. Cardinality(s \ {c}) < Cardinality(s)
  BY <1>4, <1>5
<1>7. QED BY <1>1, <1>2, <1>3, <1>4, <1>5, <1>6 DEF c

\* The union of a finite number of finite sets, as Rest takes it apart.
LEMMA AllFinite ==
  ASSUME NEW D, NEW A, Apart(D, A), NEW s \in SUBSET D
  PROVE  IsFiniteSet(All(A, s))
<1>1. IsFiniteSet(s) /\ \A i \in s : IsFiniteSet(A[i])
  BY FS_Subset DEF Apart
<1>2. IsFiniteSet({A[i] : i \in s})
  <2> DEFINE f == [i \in s |-> A[i]]
             T == {A[i] : i \in s}
  <2>1. f \in Surjection(s, T)
    BY DEF Surjection
  <2>2. QED BY <1>1, <2>1, FS_Surjection
<1>3. QED BY <1>1, <1>2, FS_UNION DEF All

LEMMA AllIsSum ==
  ASSUME NEW D, NEW A, Apart(D, A), NEW s \in SUBSET D
  PROVE  Cardinality(All(A, s)) =
           IF s = {} THEN 0 ELSE Cardinality(A[CHOOSE x \in s : TRUE]) + Cardinality(All(A, Rest(s)))
<1>1. CASE s = {}
  <2>1. All(A, s) = {}
    BY <1>1 DEF All
  <2>2. QED BY <1>1, <2>1, FS_EmptySet
<1>2. CASE s # {}
  <2> DEFINE c == CHOOSE x \in s : TRUE
  <2>1. c \in s /\ Rest(s) \in SUBSET D
    BY <1>2, RestFacts DEF Apart
  <2> HIDE DEF c
  <2>2. Rest(s) = s \ {c}
    BY DEF Rest, c
  <2>3. All(A, s) = A[c] \cup All(A, Rest(s))
    BY <2>1, <2>2 DEF All
  <2>4. A[c] \cap All(A, Rest(s)) = {}
    BY <2>1, <2>2 DEF All, Apart
  <2>5. IsFiniteSet(A[c]) /\ IsFiniteSet(All(A, Rest(s)))
    BY <2>1, AllFinite DEF Apart
  <2>6. Cardinality(A[c]) \in Nat /\ Cardinality(All(A, Rest(s))) \in Nat /\ Cardinality({}) = 0
    BY <2>5, FS_CardinalityType, FS_EmptySet
  <2>7. Cardinality(All(A, s)) = Cardinality(A[c]) + Cardinality(All(A, Rest(s))) - Cardinality({})
    BY <2>3, <2>4, <2>5, FS_Union
  <2>8. Cardinality(All(A, s)) = Cardinality(A[c]) + Cardinality(All(A, Rest(s)))
    BY <2>6, <2>7
  <2>9. QED BY <1>2, <2>8 DEF c
<1>3. QED BY <1>1, <1>2

\* There is one such sum: a least subset on which two of them differ has a smaller one.
LEMMA SumIsCardinality ==
  ASSUME NEW D, NEW A, Apart(D, A), NEW G, IsSum(D, A, G)
  PROVE  G[D] = Cardinality(All(A, D))
<1> DEFINE Bad == {s \in SUBSET D : G[s] # Cardinality(All(A, s))}
           Sizes == {Cardinality(s) : s \in Bad}
<1>1. \A s \in SUBSET D : Cardinality(s) \in Nat
  BY FS_Subset, FS_CardinalityType DEF Apart
<1>2. Sizes \in SUBSET Nat
  BY <1>1
<1>3. ASSUME Bad # {} PROVE FALSE
  <2>1. Sizes # {}
    BY <1>3
  <2>2. Min(Sizes) \in Sizes /\ \A y \in Sizes : Min(Sizes) <= y
    <3> HIDE DEF Sizes
    <3>1. QED BY <1>2, <2>1, NatMin
  <2>3. PICK s \in Bad : Cardinality(s) = Min(Sizes)
    BY <2>2
  <2>4. \A u \in Bad : Cardinality(s) <= Cardinality(u)
    BY <2>2, <2>3
  <2>5. s \in SUBSET D /\ G[s] # Cardinality(All(A, s))
    BY <2>3
  <2> HIDE DEF Sizes
  <2>6. CASE s = {}
    BY <2>5, <2>6, AllIsSum DEF IsSum
  <2>7. CASE s # {}
    <3>1. Rest(s) \in SUBSET D /\ Cardinality(Rest(s)) < Cardinality(s)
          /\ Cardinality(s) \in Nat /\ Cardinality(Rest(s)) \in Nat
      BY <2>5, <2>7, RestFacts DEF Apart
    <3>2. ~(Cardinality(s) <= Cardinality(Rest(s)))
      BY <3>1
    <3>3. Rest(s) \notin Bad
      BY <2>4, <3>2
    <3>4. G[Rest(s)] = Cardinality(All(A, Rest(s)))
      BY <3>1, <3>3
    <3>5. G[s] = Cardinality(A[CHOOSE x \in s : TRUE]) + G[Rest(s)]
      BY <2>5, <2>7 DEF IsSum
    <3>6. Cardinality(All(A, s)) = Cardinality(A[CHOOSE x \in s : TRUE]) + Cardinality(All(A, Rest(s)))
      BY <2>5, <2>7, AllIsSum
    <3>7. QED BY <2>5, <3>4, <3>5, <3>6
  <2>8. QED BY <2>6, <2>7
<1>4. QED BY <1>3

IsCount(D, A, G) ==
  G = [s \in SUBSET D |-> IF s = {} THEN 0
         ELSE Cardinality(A[CHOOSE x \in s : TRUE]) + G[s \ {CHOOSE x \in s : TRUE}]]

LEMMA CountFacts ==
  ASSUME NEW commits, Apart(DOMAIN commits, commits)
  PROVE  Count(commits) = Cardinality(All(commits, DOMAIN commits))
<1> DEFINE D == DOMAIN commits
           F == [s \in SUBSET D |-> Cardinality(All(commits, s))]
<1>1. IsCount(D, commits, F)
  <2>1. ASSUME NEW s \in SUBSET D
        PROVE  F[s] = IF s = {} THEN 0
                      ELSE Cardinality(commits[CHOOSE x \in s : TRUE]) + F[s \ {CHOOSE x \in s : TRUE}]
    <3>1. F[s] = IF s = {} THEN 0 ELSE Cardinality(commits[CHOOSE x \in s : TRUE]) + Cardinality(All(commits, Rest(s)))
      BY AllIsSum
    <3>2. Rest(s) \in SUBSET D
      BY DEF Rest
    <3>3. F[Rest(s)] = Cardinality(All(commits, Rest(s)))
      BY <3>2
    <3>4. QED BY <3>1, <3>3 DEF Rest
  <2> HIDE DEF D
  <2>2. QED BY <2>1 DEF IsCount
<1> HIDE DEF F
<1>2. PICK G : G = CHOOSE K : IsCount(D, commits, K)
  OBVIOUS
<1>3. IsCount(D, commits, G)
  BY <1>1, <1>2
<1>4. Count(commits) = G[D]
  BY <1>2 DEF Count, MapThenSumSet, MapThenFoldSet, IsCount
<1>5. IsSum(D, commits, G)
  <2> HIDE DEF D
  <2>1. QED BY <1>3 DEF IsSum, Rest, IsCount
<1>6. QED BY <1>4, <1>5, SumIsCardinality

\* A set is as large as another that its members name, each another one.
LEMMA SameSize ==
  ASSUME NEW S, NEW T, IsFiniteSet(S), NEW f \in [S -> T],
         \A x, y \in S : f[x] = f[y] => x = y, \A z \in T : \E x \in S : f[x] = z
  PROVE  IsFiniteSet(T) /\ Cardinality(T) = Cardinality(S)
<1>1. f \in Surjection(S, T)
  BY DEF Surjection
<1>2. f \in Injection(S, T)
  BY DEF Injection, IsInjective
<1>3. QED BY <1>1, <1>2, FS_Surjection

\* The deliveries that silver has of a venue.
Numbers(v) == {r.n : r \in SilverRows(v)}

LEMMA SilverCounts ==
  ASSUME TypeOK, SilverInv, NEW v \in Venue
  PROVE  /\ IsFiniteSet(SilverRows(v)) /\ Numbers(v) \subseteq 1..silver[v].at
         /\ Count(silver[v].commits) = Cardinality(Numbers(v))
<1> DEFINE c == silver[v].commits
           f == [r \in SilverRows(v) |-> r.n]
<1>1. c \in Seq(SUBSET SilverRow) /\ silver[v].at \in Nat /\ SilverPart(v)
  BY SilverFacts, SilverParts
<1>2. Len(c) \in Nat /\ DOMAIN c = 1..Len(c) /\ SilverRows(v) = UNION {c[i] : i \in DOMAIN c}
  BY <1>1 DEF SilverRows, Range
<1>3. \A i, j \in DOMAIN c : \A r \in c[i], q \in c[j] : r.n = q.n => i = j /\ r = q
  BY <1>1 DEF SilverPart
<1>4. Numbers(v) \subseteq 1..silver[v].at
  BY <1>1 DEF SilverPart, RowsOf, Numbers
<1> HIDE DEF c
<1>5. \A r, q \in SilverRows(v) : r.n = q.n => r = q
  BY <1>2, <1>3
<1>6. IsFiniteSet(1..silver[v].at) /\ IsFiniteSet(DOMAIN c)
  <2>1. 1 \in Int /\ silver[v].at \in Int /\ Len(c) \in Int
    BY <1>1, <1>2
  <2>2. QED BY <1>2, <2>1, FS_Interval
<1>7. IsFiniteSet(Numbers(v))
  BY <1>4, <1>6, FS_Subset
<1>8. f \in Injection(SilverRows(v), Numbers(v)) /\ f \in Surjection(SilverRows(v), Numbers(v))
  <2>1. f \in [SilverRows(v) -> Numbers(v)]
    BY DEF Numbers
  <2>2. \A r \in SilverRows(v) : f[r] = r.n
    OBVIOUS
  <2>3. \A n \in Numbers(v) : \E r \in SilverRows(v) : f[r] = n
    BY <2>2 DEF Numbers
  <2> HIDE DEF f
  <2>4. f \in Injection(SilverRows(v), Numbers(v))
    BY <1>5, <2>1, <2>2 DEF Injection, IsInjective
  <2>5. QED BY <2>1, <2>3, <2>4 DEF Surjection
<1>9. IsFiniteSet(SilverRows(v)) /\ Cardinality(SilverRows(v)) = Cardinality(Numbers(v))
  BY <1>7, <1>8, FS_Injection
<1>10. Apart(DOMAIN c, c)
  <2>1. \A i \in DOMAIN c : c[i] \subseteq SilverRows(v)
    BY <1>2
  <2>2. \A i \in DOMAIN c : IsFiniteSet(c[i])
    BY <1>9, <2>1, FS_Subset
  <2>3. \A i, j \in DOMAIN c : i # j => c[i] \cap c[j] = {}
    BY <1>3
  <2>4. QED BY <1>6, <2>2, <2>3 DEF Apart
<1>11. Count(c) = Cardinality(SilverRows(v))
  BY <1>2, <1>10, CountFacts DEF All
<1>12. QED BY <1>4, <1>9, <1>11 DEF c

LEMMA SilverParityTells ==
  ASSUME TypeOK, SilverInv, CoverInv, TornInv, todo = <<>>, NEW v \in Venue
  PROVE  SilverParity(v) <=> v \notin torn
<1> DEFINE at == silver[v].at
<1>1. /\ Numbers(v) \subseteq 1..at /\ Count(silver[v].commits) = Cardinality(Numbers(v))
      /\ at \in Nat
  BY SilverCounts, SilverFacts
<1>2. IsFiniteSet(1..at) /\ Cardinality(1..at) = at
  <2>1. 1 \in Int /\ at \in Int
    BY <1>1
  <2>2. IsFiniteSet(1..at) /\ Cardinality(1..at) = IF 1 > at THEN 0 ELSE at - 1 + 1
    BY <2>1, FS_Interval
  <2>3. QED BY <1>1, <2>2
<1>3. SilverParity(v) <=> at = 0 \/ Cardinality(Numbers(v)) = at
  BY <1>1 DEF SilverParity
<1> HIDE DEF at
<1>4. CASE v \notin torn
  <2>1. Covered(v)
    BY <1>4 DEF CoverInv, Due
  <2>2. 1..at \subseteq Numbers(v)
    BY <2>1 DEF Covered, Typed, Numbers, at
  <2>3. Numbers(v) = 1..at
    BY <1>1, <2>2
  <2>4. QED BY <1>2, <1>3, <1>4, <2>3
<1>5. CASE v \in torn
  <2>1. PICK n \in 1..at : ~Typed(v, n)
    BY <1>5 DEF TornInv, at
  <2>2. n \notin Numbers(v)
    BY <2>1 DEF Typed, Numbers
  <2>3. Cardinality(Numbers(v)) # at
    <3>1. Numbers(v) # 1..at
      BY <2>1, <2>2
    <3>2. QED BY <1>1, <1>2, <3>1, FS_Subset
  <2>4. at # 0
    BY <1>1, <2>1
  <2>5. QED BY <1>3, <1>5, <2>3, <2>4
<1>6. QED BY <1>4, <1>5

\* The rows that gold's commits have of a venue.
OfVenue(v) == [i \in DOMAIN gold |-> {r \in gold[i] : r.venue = v}]

IsVenueCount(v, G) ==
  G = [s \in SUBSET DOMAIN gold |->
         IF s = {} THEN 0
         ELSE Cardinality({r \in gold[CHOOSE x \in s : TRUE] : r.venue = v}) + G[s \ {CHOOSE x \in s : TRUE}]]

LEMMA VenueCount ==
  ASSUME NEW v \in Venue, Apart(DOMAIN gold, OfVenue(v))
  PROVE  MapThenSumSet(LAMBDA i : Cardinality({r \in gold[i] : r.venue = v}), DOMAIN gold)
           = Cardinality(All(OfVenue(v), DOMAIN gold))
<1> DEFINE D == DOMAIN gold
           A == OfVenue(v)
           F == [s \in SUBSET D |-> Cardinality(All(A, s))]
<1>0. \A s \in SUBSET D : s # {} => {r \in gold[CHOOSE x \in s : TRUE] : r.venue = v} = A[CHOOSE x \in s : TRUE]
  BY DEF OfVenue
<1>1. IsVenueCount(v, F)
  <2>1. ASSUME NEW s \in SUBSET D
        PROVE  F[s] = IF s = {} THEN 0
                      ELSE Cardinality({r \in gold[CHOOSE x \in s : TRUE] : r.venue = v})
                             + F[s \ {CHOOSE x \in s : TRUE}]
    <3> HIDE DEF A
    <3>1. F[s] = IF s = {} THEN 0 ELSE Cardinality(A[CHOOSE x \in s : TRUE]) + Cardinality(All(A, Rest(s)))
      BY AllIsSum DEF A
    <3>2. Rest(s) \in SUBSET D
      BY DEF Rest
    <3>3. F[Rest(s)] = Cardinality(All(A, Rest(s)))
      BY <3>2
    <3> HIDE DEF F
    <3>4. CASE s = {}
      BY <3>1, <3>4
    <3>5. CASE s # {}
      <4>1. F[s] = Cardinality(A[CHOOSE x \in s : TRUE]) + F[s \ {CHOOSE x \in s : TRUE}]
        BY <3>1, <3>3, <3>5 DEF Rest
      <4>2. {r \in gold[CHOOSE x \in s : TRUE] : r.venue = v} = A[CHOOSE x \in s : TRUE]
        BY <1>0, <3>5
      <4>3. QED BY <3>5, <4>1, <4>2
    <3>6. QED BY <3>4, <3>5
  <2> HIDE DEF D, A
  <2>2. QED BY <2>1 DEF IsVenueCount, D
<1> HIDE DEF F
<1>2. PICK G : G = CHOOSE K : IsVenueCount(v, K)
  OBVIOUS
<1>3. IsVenueCount(v, G)
  BY <1>1, <1>2
<1>4. MapThenSumSet(LAMBDA i : Cardinality({r \in gold[i] : r.venue = v}), DOMAIN gold) = G[D]
  BY <1>2 DEF MapThenSumSet, MapThenFoldSet, IsVenueCount
<1>5. IsSum(D, A, G)
  <2>1. ASSUME NEW s \in SUBSET D
        PROVE  G[s] = IF s = {} THEN 0 ELSE Cardinality(A[CHOOSE x \in s : TRUE]) + G[Rest(s)]
    <3>1. G[s] = IF s = {} THEN 0
                 ELSE Cardinality({r \in gold[CHOOSE x \in s : TRUE] : r.venue = v})
                        + G[s \ {CHOOSE x \in s : TRUE}]
      BY <1>3 DEF IsVenueCount
    <3> HIDE DEF A
    <3>2. QED BY <1>0, <3>1 DEF Rest
  <2>2. QED BY <2>1 DEF IsSum
<1>6. QED BY <1>4, <1>5, SumIsCardinality

LEMMA GoldCounted ==
  ASSUME TypeOK, SilverInv, GoldInv, NEW v \in Venue, Readable(v)
  PROVE  GoldCounts(v)
<1>1. CASE position[v] = NoPosition
  BY <1>1 DEF GoldCounts
<1>2. CASE position[v] # NoPosition
  <2> DEFINE S == FirstDeliveries(v)
             f == [r \in S |-> [venue |-> v, n |-> r.n, id |-> r.id]]
  <2>1. GoldOf(v) = Projected(v, S) /\ position[v].snapshot \in Nat
        /\ position[v].snapshot <= Len(silver[v].commits)
    BY GoldParts, ReadSoFar, <1>2
  <2>2. S \subseteq SilverRows(v)
    <3>1. Len(silver[v].commits) \in Nat /\ DOMAIN silver[v].commits = 1..Len(silver[v].commits)
      BY SilverFacts
    <3>2. \A i \in 1..position[v].snapshot : i \in DOMAIN silver[v].commits
      BY <2>1, <3>1
    <3>3. QED BY <3>2 DEF FirstDeliveries, Originals, SilverRows, Range
  <2>3. \A r, q \in SilverRows(v) : r.n = q.n => r = q
    <3>1. \A r \in SilverRows(v) : \E i \in DOMAIN silver[v].commits : r \in silver[v].commits[i]
      BY DEF SilverRows, Range
    <3>2. QED BY <3>1 DEF SilverInv
  <2>4. IsFiniteSet(S)
    BY <2>2, SilverCounts, FS_Subset
  <2>5. IsFiniteSet(GoldOf(v)) /\ Cardinality(GoldOf(v)) = Cardinality(S)
    <3> HIDE DEF S
    <3>1. \A r \in S : [venue |-> v, n |-> r.n, id |-> r.id] \in GoldOf(v)
      BY <2>1 DEF Projected
    <3>2. f \in [S -> GoldOf(v)]
      BY <3>1
    <3>3. \A r, q \in S : f[r] = f[q] => r = q
      <4>1. \A r \in S : f[r].n = r.n
        OBVIOUS
      <4>2. QED BY <2>2, <2>3, <4>1
    <3>4. \A z \in GoldOf(v) : \E r \in S : f[r] = z
      BY <2>1 DEF Projected
    <3> HIDE DEF f
    <3>5. QED BY <2>4, <3>2, <3>3, <3>4, SameSize
  <2>6. All(OfVenue(v), DOMAIN gold) = GoldOf(v)
    BY DEF All, OfVenue, GoldOf, GoldRows, Range
  <2>7. Apart(DOMAIN gold, OfVenue(v))
    <3>1. gold \in Seq(SUBSET GoldRow)
      BY DEF TypeOK
    <3>2. DOMAIN gold = 1..Len(gold) /\ 1 \in Int /\ Len(gold) \in Int
      BY <3>1
    <3>3. IsFiniteSet(DOMAIN gold)
      BY <3>2, FS_Interval
    <3>4. \A i \in DOMAIN gold : OfVenue(v)[i] \subseteq GoldOf(v)
      BY <2>6 DEF All
    <3>5. \A i \in DOMAIN gold : IsFiniteSet(OfVenue(v)[i])
      BY <2>5, <3>4, FS_Subset
    <3>6. \A i, j \in DOMAIN gold : i # j => OfVenue(v)[i] \cap OfVenue(v)[j] = {}
      BY DEF OfVenue, GoldInv
    <3>7. QED BY <3>3, <3>5, <3>6 DEF Apart
  <2>8. MapThenSumSet(LAMBDA i : Cardinality({r \in gold[i] : r.venue = v}), DOMAIN gold) = Cardinality(S)
    BY <2>5, <2>6, <2>7, VenueCount
  <2>9. QED BY <2>8 DEF GoldCounts
<1>3. QED BY <1>1, <1>2

\* Silver's position and rows tell a rebuild that was cut from one that was not.
THEOREM TornHolds == Spec => []TornInv
<1>1. Init => TornInv
  BY DEF Init, TornInv
<1>2. IInv /\ TornInv /\ [Next]_vars => TornInv'
  BY TornStep DEF IInv
<1>3. QED BY <1>1, <1>2, DerivedInvariant, PTL DEF Spec

\* AuditsSeeTheCuts (maintenance.py): between processes silver_parity fails for
\* exactly the venues whose rebuild was cut between two days; gold_parity passes for
\* every venue while each one's silver table is the one that gold read, and is one
\* failed row for the table as soon as one's is not.
THEOREM AuditsSeeTheCutsHolds == Spec => []AuditsSeeTheCuts
<1>1. IInv /\ TornInv => AuditsSeeTheCuts
  <2> SUFFICES ASSUME IInv, TornInv, todo = <<>> PROVE AuditsSeeTheCuts
    BY DEF AuditsSeeTheCuts
  <2>1. TypeOK /\ SilverInv /\ CoverInv /\ GoldInv
    BY DEF IInv, LakeInv
  <2>2. \A v \in Venue \ absent : SilverParity(v) <=> v \notin torn
    BY <2>1, SilverParityTells
  <2>3. CASE \A v \in Venue : Readable(v)
    <3>1. DOMAIN GoldParity = Venue /\ \A v \in Venue : GoldParity[v] = GoldCounts(v)
      BY <2>3 DEF GoldParity
    <3>2. \A scope \in DOMAIN GoldParity : GoldParity[scope]
      BY <2>1, <2>3, <3>1, GoldCounted
    <3>3. QED BY <2>2, <2>3, <3>2 DEF AuditsSeeTheCuts
  <2>4. CASE ~(\A v \in Venue : Readable(v))
    <3>1. Trades \in DOMAIN GoldParity /\ GoldParity[Trades] = FALSE
      BY <2>4 DEF GoldParity
    <3>2. QED BY <2>2, <2>4, <3>1 DEF AuditsSeeTheCuts
  <2>5. QED BY <2>3, <2>4
<1>2. QED BY <1>1, DerivedInvariant, TornHolds, PTL
=============================================================================
