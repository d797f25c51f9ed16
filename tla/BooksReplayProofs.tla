--------------------------- MODULE BooksReplayProofs ---------------------------
(***************************************************************************)
(* The books, for every number of venues, symbols, connections, frames,    *)
(* seconds, days, kills and rebuilds: what runs and rebuilds write batch   *)
(* by batch is what one walk over all frames covered would write.          *)
(*                                                                         *)
(* A walk is a fold over frames, so each fact about it is an induction     *)
(* over a list.  A walk that stops and resumes from the state it is        *)
(* carried with goes on as it would have (Resuming); hence the tables, as  *)
(* they will be when what the process has left to write is written, hold   *)
(* at every step what one walk over the first m frames writes (Holds).     *)
(***************************************************************************)
EXTENDS BooksReplay, TLAPS, WellFoundedInduction, FiniteSetTheorems

-----------------------------------------------------------------------------
(* Induction, and what a fold computes *)

\* Induction over the naturals, as a fact about sets of them.
LEMMA NatMin ==
  ASSUME NEW T \in SUBSET Nat, T # {}
  PROVE  \E x \in T : \A y \in T : x <= y
<1> DEFINE R == {p \in Nat \X Nat : p[1] < p[2]}
<1>1. IsWellFoundedOn(R, Nat)
  BY NatLessThanWellFounded DEF OpToRel
<1>2. \A x, y \in Nat : <<y, x>> \in R <=> y < x
  OBVIOUS
<1> HIDE DEF R
<1>3. PICK x \in T : \A y \in T : <<y, x>> \notin R
  BY <1>1, WFMin
<1>4. \A y \in T : ~(y < x)
  BY <1>2, <1>3
<1>5. QED BY <1>4

LEMMA Minimum ==
  ASSUME NEW T \in SUBSET Nat, T # {}
  PROVE  Min(T) \in T /\ \A y \in T : Min(T) <= y
<1>1. \E x \in T : \A y \in T : x <= y
  BY NatMin
<1>2. QED BY <1>1 DEF Min

LEMMA SetInduction ==
  ASSUME NEW P, 0 \in P, \A n \in Nat : n \in P => n + 1 \in P
  PROVE  Nat \subseteq P
<1> SUFFICES ASSUME Nat \ P # {} PROVE FALSE
  OBVIOUS
<1>1. PICK x \in Nat \ P : \A y \in Nat \ P : x <= y
  BY NatMin, Nat \ P \in SUBSET Nat
<1>2. x # 0 /\ x - 1 \in Nat
  BY <1>1
<1>3. x - 1 \in P
  BY <1>1, <1>2
<1>4. (x - 1) + 1 = x
  BY <1>1
<1>5. QED BY <1>1, <1>2, <1>3, <1>4

LEMMA Maximum ==
  ASSUME NEW n \in Nat, NEW S \in SUBSET (1..n), S # {}
  PROVE  Max(S) \in S /\ \A y \in S : y <= Max(S)
<1> DEFINE T == {n - x : x \in S}
<1>1. T \in SUBSET Nat
  <2>1. \A x \in S : x \in Nat /\ x <= n
    OBVIOUS
  <2>2. \A x \in S : n - x \in Nat
    BY <2>1
  <2>3. QED BY <2>2
<1>2. T # {}
  <2>1. PICK x \in S : TRUE
    OBVIOUS
  <2>2. n - x \in T
    OBVIOUS
  <2>3. QED BY <2>2
<1>3. PICK t \in T : \A u \in T : t <= u
  <2> HIDE DEF T
  <2>1. QED BY <1>1, <1>2, NatMin
<1>4. PICK x \in S : t = n - x
  BY <1>3
<1>5. \A y \in S : x >= y
  <2> TAKE y \in S
  <2>1. n - x <= n - y
    BY <1>3, <1>4
  <2>2. x \in Nat /\ y \in Nat
    OBVIOUS
  <2>3. QED BY <2>1, <2>2
<1>6. \E z \in S : \A y \in S : z >= y
  BY <1>5
<1>7. Max(S) \in S /\ \A y \in S : Max(S) >= y
  BY <1>6 DEF Max
<1>8. \A y \in S : y \in Nat
  OBVIOUS
<1>9. Max(S) \in Nat
  BY <1>7, <1>8
<1>10. QED BY <1>7, <1>8, <1>9

LEMMA MaximumOfRange ==
  ASSUME NEW n \in Nat \ {0}
  PROVE  Max(1..n) = n /\ (1..n) \ {n} = 1..(n - 1)
<1>1. n \in 1..n
  OBVIOUS
<1>2. Max(1..n) \in 1..n /\ \A y \in 1..n : y <= Max(1..n)
  <2>1. 1..n # {} /\ n \in Nat
    BY <1>1
  <2>2. QED BY <2>1, Maximum
<1>3. Max(1..n) = n
  <2>1. Max(1..n) \in Nat /\ Max(1..n) <= n
    BY <1>2
  <2>2. n <= Max(1..n)
    BY <1>1, <1>2
  <2>3. QED BY <2>1, <2>2
<1>4. (1..n) \ {n} = 1..(n - 1)
  OBVIOUS
<1>5. QED BY <1>3, <1>4

(***************************************************************************)
(* The function by which a fold is defined exists: on the sets of the      *)
(* first n indices, it takes the greatest of a set last.                   *)
(***************************************************************************)
Steps(n, b, step, G) ==
  \A S \in SUBSET (1..n) : G[S] = IF S = {} THEN b ELSE step[<<Max(S), G[S \ {Max(S)}]>>]

HasFold(n, A, b, step) == \E G \in [SUBSET (1..n) -> A] : Steps(n, b, step, G)

LEMMA FoldExtends ==
  ASSUME NEW n \in Nat, NEW A, NEW b \in A, NEW step,
         \A a \in A : step[<<n + 1, a>>] \in A, HasFold(n, A, b, step)
  PROVE  HasFold(n + 1, A, b, step)
<1>1. PICK G \in [SUBSET (1..n) -> A] : Steps(n, b, step, G)
  BY DEF HasFold
<1> DEFINE H == [S \in SUBSET (1..(n + 1)) |->
                   IF n + 1 \in S THEN step[<<n + 1, G[S \ {n + 1}]>>] ELSE G[S]]
<1>2. \A S \in SUBSET (1..(n + 1)) : /\ n + 1 \notin S => S \in SUBSET (1..n)
                                    /\ S \ {n + 1} \in SUBSET (1..n)
  OBVIOUS
<1>3. H \in [SUBSET (1..(n + 1)) -> A]
  <2> SUFFICES ASSUME NEW S \in SUBSET (1..(n + 1)) PROVE H[S] \in A
    OBVIOUS
  <2>1. CASE n + 1 \in S
    BY <1>2, <2>1
  <2>2. CASE n + 1 \notin S
    BY <1>2, <2>2
  <2>3. QED BY <2>1, <2>2
<1>4. ASSUME NEW S \in SUBSET (1..(n + 1))
      PROVE  H[S] = IF S = {} THEN b ELSE step[<<Max(S), H[S \ {Max(S)}]>>]
  <2>0. S # {} => Max(S) \in S /\ \A y \in S : y <= Max(S)
    BY Maximum, n + 1 \in Nat
  <2>1. CASE n + 1 \in S
    <3>1. Max(S) = n + 1
      <4>1. Max(S) \in S /\ n + 1 <= Max(S)
        BY <2>0, <2>1
      <4>2. \A x \in S : x \in Nat /\ x <= n + 1
        OBVIOUS
      <4>3. Max(S) \in Nat /\ Max(S) <= n + 1
        BY <4>1, <4>2
      <4>4. QED BY <4>1, <4>3
    <3>2. S \ {n + 1} \in SUBSET (1..(n + 1)) /\ n + 1 \notin S \ {n + 1}
      OBVIOUS
    <3>3. H[S \ {n + 1}] = G[S \ {n + 1}]
      BY <3>2
    <3>4. H[S] = step[<<n + 1, G[S \ {n + 1}]>>]
      BY <2>1
    <3>5. QED BY <2>1, <3>1, <3>3, <3>4
  <2>2. CASE n + 1 \notin S
    <3>1. S \in SUBSET (1..n) /\ H[S] = G[S]
      BY <1>2, <2>2
    <3>2. S \ {Max(S)} \in SUBSET (1..(n + 1)) /\ n + 1 \notin S \ {Max(S)}
      BY <2>2
    <3>3. H[S \ {Max(S)}] = G[S \ {Max(S)}]
      BY <3>2
    <3>4. QED BY <1>1, <3>1, <3>3 DEF Steps
  <2>3. QED BY <2>1, <2>2
<1> HIDE DEF H
<1>5. Steps(n + 1, b, step, H)
  BY <1>4 DEF Steps
<1>6. QED BY <1>3, <1>5 DEF HasFold

LEMMA FoldExists ==
  ASSUME NEW N \in Nat, NEW A, NEW b \in A, NEW step,
         \A i \in 1..N, a \in A : step[<<i, a>>] \in A
  PROVE  HasFold(N, A, b, step)
<1> DEFINE P == {n \in Nat : n <= N => HasFold(n, A, b, step)}
<1>1. 0 \in P
  <2> DEFINE G == [S \in SUBSET (1..0) |-> b]
  <2>1. \A S \in SUBSET (1..0) : S = {}
    OBVIOUS
  <2>2. G \in [SUBSET (1..0) -> A] /\ Steps(0, b, step, G)
    BY <2>1 DEF Steps
  <2>3. HasFold(0, A, b, step)
    BY <2>2 DEF HasFold
  <2>4. QED BY <2>3
<1>2. ASSUME NEW n \in Nat, n \in P PROVE n + 1 \in P
  <2>1. CASE n + 1 <= N
    <3>1. n + 1 \in 1..N /\ n <= N
      BY <2>1
    <3>2. HasFold(n, A, b, step)
      BY <1>2, <3>1
    <3>3. HasFold(n + 1, A, b, step)
      BY <3>1, <3>2, FoldExtends
    <3>4. QED BY <3>3
  <2>2. CASE ~(n + 1 <= N)
    BY <2>2
  <2>3. QED BY <2>1, <2>2
<1>3. Nat \subseteq P
  <2> HIDE DEF P
  <2>1. QED BY <1>1, <1>2, SetInduction
<1>4. N \in P /\ N <= N
  BY <1>3
<1>5. QED BY <1>4

SameSteps(n, F, G) == F[0] = G[0] /\ \A i \in 1..n : F[i - 1] = G[i - 1] => F[i] = G[i]

LEMMA RunsAgree ==
  ASSUME NEW n \in Nat, NEW F, NEW G, SameSteps(n, F, G)
  PROVE  F[n] = G[n]
<1> DEFINE P == {i \in Nat : i <= n => F[i] = G[i]}
<1>1. 0 \in P
  BY DEF SameSteps
<1>2. ASSUME NEW i \in Nat, i \in P PROVE i + 1 \in P
  <2>1. CASE i + 1 <= n
    <3>1. i + 1 \in 1..n /\ i <= n /\ (i + 1) - 1 = i
      BY <2>1
    <3>2. F[i] = G[i]
      BY <1>2, <3>1
    <3>3. F[i + 1] = G[i + 1]
      BY <3>1, <3>2 DEF SameSteps
    <3>4. QED BY <3>3
  <2>2. CASE ~(i + 1 <= n)
    BY <2>2
  <2>3. QED BY <2>1, <2>2
<1>3. Nat \subseteq P
  <2> HIDE DEF P
  <2>1. QED BY <1>1, <1>2, SetInduction
<1>4. QED BY <1>3

LEMMA AppendFacts ==
  ASSUME NEW A, NEW q \in Seq(A), NEW x \in A
  PROVE  /\ Append(q, x) \in Seq(A) /\ Len(Append(q, x)) = Len(q) + 1
         /\ DOMAIN Append(q, x) = 1..(Len(q) + 1) /\ DOMAIN q = 1..Len(q)
         /\ \A i \in 1..Len(q) : Append(q, x)[i] = q[i]
         /\ Append(q, x)[Len(q) + 1] = x
         /\ Range(Append(q, x)) = Range(q) \cup {x}
<1>1. /\ Append(q, x) \in Seq(A) /\ Len(Append(q, x)) = Len(q) + 1 /\ Len(q) \in Nat
      /\ DOMAIN Append(q, x) = 1..(Len(q) + 1) /\ DOMAIN q = 1..Len(q)
      /\ \A i \in 1..Len(q) : Append(q, x)[i] = q[i]
      /\ Append(q, x)[Len(q) + 1] = x
  OBVIOUS
<1>2. \A i \in 1..(Len(q) + 1) : i \in 1..Len(q) \/ i = Len(q) + 1
  BY <1>1
<1>3. \A i \in 1..Len(q) : i \in 1..(Len(q) + 1)
  BY <1>1
<1>4. Len(q) + 1 \in 1..(Len(q) + 1)
  BY <1>1
<1>5. Range(Append(q, x)) = Range(q) \cup {x}
  BY <1>1, <1>2, <1>3, <1>4 DEF Range
<1>6. QED BY <1>1, <1>5

LEMMA TailFacts ==
  ASSUME NEW A, NEW q \in Seq(A), q # <<>>
  PROVE  /\ Tail(q) \in Seq(A) /\ Head(q) = q[1] /\ Len(Tail(q)) = Len(q) - 1
         /\ 1 \in DOMAIN q /\ DOMAIN q = 1..Len(q) /\ DOMAIN Tail(q) = 1..(Len(q) - 1)
         /\ Len(q) \in Nat /\ Len(q) >= 1
         /\ \A i \in 1..(Len(q) - 1) : Tail(q)[i] = q[i + 1] /\ i + 1 \in DOMAIN q
         /\ Range(q) = {Head(q)} \cup Range(Tail(q))
<1>1. /\ Tail(q) \in Seq(A) /\ Head(q) = q[1] /\ Len(Tail(q)) = Len(q) - 1
      /\ 1 \in DOMAIN q /\ DOMAIN q = 1..Len(q) /\ DOMAIN Tail(q) = 1..(Len(q) - 1)
      /\ Len(q) \in Nat /\ Len(q) >= 1
      /\ \A i \in 1..(Len(q) - 1) : Tail(q)[i] = q[i + 1] /\ i + 1 \in DOMAIN q
  OBVIOUS
<1>2. \A i \in 1..Len(q) : i = 1 \/ (i - 1 \in 1..(Len(q) - 1) /\ (i - 1) + 1 = i)
  BY <1>1
<1>3. \A i \in DOMAIN q : q[i] = Head(q) \/ \E k \in DOMAIN Tail(q) : q[i] = Tail(q)[k]
  BY <1>1, <1>2
<1>4. \A k \in DOMAIN Tail(q) : \E i \in DOMAIN q : Tail(q)[k] = q[i]
  BY <1>1
<1>5. Range(q) = {Head(q)} \cup Range(Tail(q))
  <2>1. Range(q) \subseteq {Head(q)} \cup Range(Tail(q))
    BY <1>3 DEF Range
  <2>2. Range(Tail(q)) \subseteq Range(q)
    BY <1>4, Zenon DEF Range
  <2>3. Head(q) \in Range(q)
    BY <1>1 DEF Range
  <2>4. QED BY <2>1, <2>2, <2>3
<1>6. QED BY <1>1, <1>5

LEMMA ConcatFacts ==
  ASSUME NEW A, NEW p \in Seq(A), NEW q \in Seq(A)
  PROVE  /\ p \o q \in Seq(A) /\ Len(p) \in Nat /\ Len(q) \in Nat
         /\ DOMAIN p = 1..Len(p) /\ DOMAIN q = 1..Len(q)
         /\ DOMAIN (p \o q) = 1..(Len(p) + Len(q))
         /\ \A i \in DOMAIN (p \o q) :
              \/ i \in DOMAIN p /\ (p \o q)[i] = p[i]
              \/ i > Len(p) /\ i - Len(p) \in DOMAIN q /\ (p \o q)[i] = q[i - Len(p)]
         /\ Range(p \o q) = Range(p) \cup Range(q)
<1>1. /\ p \o q \in Seq(A) /\ Len(p) \in Nat /\ Len(q) \in Nat
      /\ DOMAIN p = 1..Len(p) /\ DOMAIN q = 1..Len(q)
      /\ Len(p \o q) = Len(p) + Len(q) /\ DOMAIN (p \o q) = 1..Len(p \o q)
  OBVIOUS
<1>2. ASSUME NEW i \in DOMAIN (p \o q)
      PROVE  \/ i \in DOMAIN p /\ (p \o q)[i] = p[i]
             \/ i > Len(p) /\ i - Len(p) \in DOMAIN q /\ (p \o q)[i] = q[i - Len(p)]
  <2>1. i \in Nat /\ 1 <= i /\ i <= Len(p) + Len(q)
    BY <1>1
  <2>2. (p \o q)[i] = IF i <= Len(p) THEN p[i] ELSE q[i - Len(p)]
    BY <1>1, <2>1
  <2>3. CASE i <= Len(p)
    BY <1>1, <2>1, <2>2, <2>3
  <2>4. CASE i > Len(p)
    <3>1. i - Len(p) \in 1..Len(q)
      BY <1>1, <2>1, <2>4
    <3>2. QED BY <1>1, <2>1, <2>2, <2>4, <3>1
  <2>5. QED BY <1>1, <2>1, <2>3, <2>4
<1>3. Range(p \o q) \subseteq Range(p) \cup Range(q)
  BY <1>2 DEF Range
<1>4. Range(p) \subseteq Range(p \o q)
  <2>1. ASSUME NEW i \in DOMAIN p PROVE i \in DOMAIN (p \o q) /\ (p \o q)[i] = p[i]
    <3>1. i \in 1..(Len(p) + Len(q)) /\ i <= Len(p)
      BY <1>1
    <3>2. QED BY <1>1, <3>1
  <2>2. QED BY <2>1, Zenon DEF Range
<1>5. Range(q) \subseteq Range(p \o q)
  <2>1. ASSUME NEW i \in DOMAIN q PROVE \E k \in DOMAIN (p \o q) : (p \o q)[k] = q[i]
    <3>1. Len(p) + i \in 1..(Len(p) + Len(q)) /\ ~(Len(p) + i <= Len(p)) /\ (Len(p) + i) - Len(p) = i
      BY <1>1
    <3>2. (p \o q)[Len(p) + i] = q[i]
      BY <1>1, <3>1
    <3>3. QED BY <1>1, <3>1, <3>2
  <2>2. QED BY <2>1, Zenon DEF Range
<1>6. QED BY <1>1, <1>2, <1>3, <1>4, <1>5

LEMMA SameList ==
  ASSUME NEW A, NEW s \in Seq(A), NEW t \in Seq(A), Len(s) = Len(t),
         \A i \in 1..Len(s) : s[i] = t[i]
  PROVE  s = t
OBVIOUS

-----------------------------------------------------------------------------
(* The walk of one connection, frame by frame *)

WState == [live : BOOLEAN, unflushed : BOOLEAN, book : SUBSET Change, ok : Verdict,
           last : Second \cup {-1}, samples : SUBSET Sample,
           verdicts : SUBSET (Change \X Verdict)]

Fresh == [live |-> FALSE, unflushed |-> FALSE, book |-> {}, ok |-> Unverified,
          last |-> -1, samples |-> {}, verdicts |-> {}]

LEMMA Constants ==
  /\ MaxEvents \in Nat /\ DaySeconds \in Nat \ {0}
  /\ Second \subseteq Nat /\ Change \subseteq Nat /\ Conn \subseteq Nat
  /\ Replayed \subseteq Venue /\ Venues \in Seq(Venue)
  /\ \A i, j \in DOMAIN Venues : Venues[i] = Venues[j] => i = j
BY BooksConstants DEF BooksConstants, Second, Change, Conn, IsInjective

LEMMA SampleIntro ==
  ASSUME NEW f \in Frame, NEW sec \in Second, NEW b \in SUBSET Change, NEW o \in Verdict
  PROVE  [symbol |-> f.symbol, conn |-> f.conn, second |-> sec, book |-> b, ok |-> o] \in Sample
BY DEF Frame, Sample

\* What flush_seconds adds.
LEMMA FlushedFacts ==
  ASSUME NEW w \in WState, NEW f \in Frame
  PROVE  /\ Flushed(w, f) \in SUBSET Sample
         /\ ~w.live => Flushed(w, f) = {}
         /\ \A a \in Flushed(w, f) :
              /\ a.symbol = f.symbol /\ a.conn = f.conn /\ a.book = w.book /\ a.ok = w.ok
              /\ a.second \in Nat /\ w.live /\ w.last < a.second /\ a.second < f.second
         /\ \A a, b \in Flushed(w, f) : a.second = b.second => a = b
<1>1. /\ w.live \in BOOLEAN /\ w.book \in SUBSET Change /\ w.ok \in Verdict
      /\ w.last \in Second \cup {-1}
  BY DEF WState
<1>2. f.second \in Second /\ f.second \in Nat /\ f.second <= MaxEvents
  BY Constants DEF Frame, Second
<1>3. w.last \in Int /\ w.last >= -1
  <2>1. \A x \in Second \cup {-1} : x \in Int /\ x >= -1
    BY Constants DEF Second
  <2>2. QED BY <1>1, <2>1
<1>4. \A sec \in w.last + 1 .. f.second - 1 :
        sec \in Second /\ sec \in Nat /\ w.last < sec /\ sec < f.second
  BY <1>2, <1>3, Constants DEF Second
<1>5. \A sec \in IF w.live THEN w.last + 1 .. f.second - 1 ELSE {} :
        w.live /\ sec \in Second /\ sec \in Nat /\ w.last < sec /\ sec < f.second
  BY <1>4
<1> DEFINE D == IF w.live THEN w.last + 1 .. f.second - 1 ELSE {}
           A(sec) == [symbol |-> f.symbol, conn |-> f.conn, second |-> sec, book |-> w.book, ok |-> w.ok]
<1>6. Flushed(w, f) = {A(sec) : sec \in D}
  BY DEF Flushed
<1>7. \A sec \in D : A(sec) \in Sample
  BY <1>1, <1>5, SampleIntro
<1>8. ~w.live => D = {}
  OBVIOUS
<1>9. \A sec \in D : w.live /\ sec \in Nat /\ w.last < sec /\ sec < f.second
  BY <1>5
<1> HIDE DEF D
<1>10. QED BY <1>6, <1>7, <1>8, <1>9

LEMMA WalkType ==
  ASSUME NEW w \in WState, NEW f \in Frame
  PROVE  Walk(w, f) \in WState
<1>1. /\ f.n \in Change /\ f.second \in Second /\ f.snapshot \in BOOLEAN /\ f.second \in Nat
      /\ f.second <= MaxEvents /\ MaxEvents \in Nat
  BY Constants DEF Frame, Second
<1>2. f.second - 1 \in Second \cup {-1}
  BY <1>1 DEF Second
<1>3. /\ w.live \in BOOLEAN /\ w.unflushed \in BOOLEAN /\ w.book \in SUBSET Change
      /\ w.samples \in SUBSET Sample /\ w.verdicts \in SUBSET (Change \X Verdict)
  BY DEF WState
<1>4. CASE ~w.live /\ ~f.snapshot
  <2>1. <<f.n, Unverified>> \in Change \X Verdict
    BY <1>1 DEF Verdict
  <2>2. w.verdicts \cup {<<f.n, Unverified>>} \in SUBSET (Change \X Verdict)
    BY <1>3, <2>1
  <2>3. Walk(w, f) = [w EXCEPT !.verdicts = @ \cup {<<f.n, Unverified>>}]
    BY <1>4 DEF Walk
  <2>4. QED BY <2>2, <2>3 DEF WState
<1>5. CASE ~(~w.live /\ ~f.snapshot)
  <2> DEFINE b == IF f.snapshot THEN {f.n} ELSE w.book \cup {f.n}
             S == w.samples \cup Flushed(w, f)
             V == w.verdicts \cup {<<f.n, Ok(b, f)>>}
  <2>1. Walk(w, f) = [live |-> TRUE, unflushed |-> ~w.live, book |-> b, ok |-> Ok(b, f),
                      last |-> f.second - 1, samples |-> S, verdicts |-> V]
    BY <1>5 DEF Walk
  <2>2. b \in SUBSET Change
    BY <1>1, <1>3
  <2>3. Ok(b, f) \in Verdict
    BY DEF Ok, Verdict
  <2>4. S \in SUBSET Sample
    BY <1>3, FlushedFacts
  <2>5. V \in SUBSET (Change \X Verdict)
    BY <1>1, <1>3, <2>3
  <2> HIDE DEF b, S, V
  <2>6. QED BY <1>2, <1>3, <2>1, <2>2, <2>3, <2>4, <2>5 DEF WState
<1>6. QED BY <1>4, <1>5

LEMMA TurnType ==
  ASSUME NEW k, NEW w \in WState, NEW f \in Frame
  PROVE  Turn(k, w, f) \in WState
BY WalkType DEF Turn

LEMMA FreshType == Fresh \in WState
<1>1. -1 \in Second \cup {-1} /\ {} \in SUBSET Change /\ {} \in SUBSET Sample
      /\ {} \in SUBSET (Change \X Verdict) /\ Unverified \in Verdict
  BY DEF Verdict
<1>2. QED BY <1>1 DEF Fresh, WState

-----------------------------------------------------------------------------
(* A walk over a list of frames, as a list of states *)

Walks(k, b, q) == FoldLeft(LAMBDA w, f : Turn(k, w, f), b, q)

IsFold(k, b, q, G) ==
  G = [S \in SUBSET DOMAIN q |-> IF S = {} THEN b ELSE Turn(k, G[S \ {Max(S)}], q[Max(S)])]

IsRun(k, b, q, F) ==
  /\ F[0] = b
  /\ \A i \in 1..Len(q) : F[i] = Turn(k, F[i - 1], q[i])
  /\ Walks(k, b, q) = F[Len(q)]

LEMMA FoldRuns ==
  ASSUME NEW k, NEW b \in WState, NEW q \in Seq(Frame)
  PROVE  \E F : IsRun(k, b, q, F)
<1> DEFINE N == Len(q)
           step == [p \in (1..N) \X WState |-> Turn(k, p[2], q[p[1]])]
<1>1. N \in Nat /\ DOMAIN q = 1..N
  OBVIOUS
<1>2. \A i \in 1..N : q[i] \in Frame
  OBVIOUS
<1> HIDE DEF N
<1>3. \A i \in 1..N, a \in WState : step[<<i, a>>] = Turn(k, a, q[i]) /\ step[<<i, a>>] \in WState
  BY <1>2, TurnType
<1> HIDE DEF step
<1>4. PICK G \in [SUBSET (1..N) -> WState] : Steps(N, b, step, G)
  <2>1. HasFold(N, WState, b, step)
    BY <1>1, <1>3, FoldExists
  <2>2. QED BY <2>1 DEF HasFold
<1>5. IsFold(k, b, q, G)
  <2>1. ASSUME NEW S \in SUBSET (1..N)
        PROVE  G[S] = IF S = {} THEN b ELSE Turn(k, G[S \ {Max(S)}], q[Max(S)])
    <3>1. CASE S = {}
      BY <1>4, <3>1 DEF Steps
    <3>2. CASE S # {}
      <4>1. Max(S) \in 1..N
        BY <1>1, <3>2, Maximum
      <4>2. G[S \ {Max(S)}] \in WState
        BY <1>4
      <4>3. G[S] = step[<<Max(S), G[S \ {Max(S)}]>>]
        BY <1>4, <3>2 DEF Steps
      <4>4. QED BY <1>3, <3>2, <4>1, <4>2, <4>3
    <3>3. QED BY <3>1, <3>2
  <2>2. QED BY <1>1, <1>4, <2>1 DEF IsFold
<1>6. PICK H : H = CHOOSE K : IsFold(k, b, q, K)
  OBVIOUS
<1>7. IsFold(k, b, q, H)
  BY <1>5, <1>6
<1>8. Walks(k, b, q) = H[DOMAIN q]
  BY <1>6 DEF FoldLeft, MapThenFoldSet, Walks, IsFold
<1>9. \A S \in SUBSET (1..N) : H[S] = IF S = {} THEN b ELSE Turn(k, H[S \ {Max(S)}], q[Max(S)])
  BY <1>1, <1>7 DEF IsFold
<1> DEFINE F == [i \in 0..N |-> H[1..i]]
<1>10. F[0] = b
  <2>1. 1..0 = {} /\ 0 \in 0..N
    BY <1>1
  <2>2. H[{}] = b
    BY <1>9
  <2>3. QED BY <2>1, <2>2
<1>11. ASSUME NEW i \in 1..N PROVE F[i] = Turn(k, F[i - 1], q[i])
  <2>1. i \in Nat \ {0} /\ i \in 0..N /\ i - 1 \in 0..N
    BY <1>1
  <2>2. Max(1..i) = i /\ (1..i) \ {i} = 1..(i - 1)
    BY <2>1, MaximumOfRange
  <2>3. 1..i \in SUBSET (1..N) /\ 1..i # {}
    <3>1. i \in 1..i /\ \A x \in 1..i : x \in 1..N
      BY <1>1, <2>1
    <3>2. QED BY <3>1
  <2>4. H[1..i] = Turn(k, H[1..(i - 1)], q[i])
    BY <1>9, <2>2, <2>3
  <2>5. QED BY <2>1, <2>4
<1>12. F[N] = H[DOMAIN q]
  BY <1>1
<1> HIDE DEF F
<1>13. QED BY <1>8, <1>10, <1>11, <1>12 DEF N, IsRun

LEMMA RunTyped ==
  ASSUME NEW k, NEW b \in WState, NEW q \in Seq(Frame), NEW F, IsRun(k, b, q, F)
  PROVE  \A i \in 0..Len(q) : F[i] \in WState
<1> DEFINE P == {i \in Nat : i <= Len(q) => F[i] \in WState}
<1>1. Len(q) \in Nat /\ \A i \in 1..Len(q) : q[i] \in Frame
  OBVIOUS
<1>2. 0 \in P
  BY DEF IsRun
<1>3. ASSUME NEW i \in Nat, i \in P PROVE i + 1 \in P
  <2>1. CASE i + 1 <= Len(q)
    <3>1. i + 1 \in 1..Len(q) /\ i <= Len(q) /\ (i + 1) - 1 = i
      BY <1>1, <2>1
    <3>2. F[i + 1] = Turn(k, F[i], q[i + 1]) /\ F[i] \in WState /\ q[i + 1] \in Frame
      BY <1>1, <1>3, <3>1 DEF IsRun
    <3>3. F[i + 1] \in WState
      BY <3>2, TurnType
    <3>4. QED BY <3>3
  <2>2. QED BY <2>1
<1>4. Nat \subseteq P
  <2> HIDE DEF P
  <2>1. QED BY <1>2, <1>3, SetInduction
<1>5. QED BY <1>1, <1>4

LEMMA WalksType ==
  ASSUME NEW k, NEW b \in WState, NEW q \in Seq(Frame)
  PROVE  Walks(k, b, q) \in WState
<1>1. PICK F : IsRun(k, b, q, F)
  BY FoldRuns
<1>2. Len(q) \in 0..Len(q)
  OBVIOUS
<1>3. QED BY <1>1, <1>2, RunTyped DEF IsRun

\* The part of a list from one place to another.
LEMMA PartFacts ==
  ASSUME NEW A, NEW q \in Seq(A), NEW m \in Nat, NEW n \in Nat, m <= n, n <= Len(q)
  PROVE  /\ SubSeq(q, m + 1, n) \in Seq(A) /\ Len(SubSeq(q, m + 1, n)) = n - m
         /\ DOMAIN SubSeq(q, m + 1, n) = 1..(n - m)
         /\ \A i \in 1..(n - m) : SubSeq(q, m + 1, n)[i] = q[m + i] /\ m + i \in DOMAIN q
<1>1. Len(q) \in Nat /\ DOMAIN q = 1..Len(q) /\ \A i \in 1..Len(q) : q[i] \in A
  OBVIOUS
<1>2. \A i \in (m + 1)..n : i \in 1..Len(q) /\ q[i] \in A
  BY <1>1
<1>3. SubSeq(q, m + 1, n) \in Seq(A) /\ Len(SubSeq(q, m + 1, n)) = n - m
  BY <1>1, <1>2
<1>4. \A i \in 1..(n - m) : SubSeq(q, m + 1, n)[i] = q[m + i] /\ m + i \in DOMAIN q
  BY <1>1, <1>3
<1>5. QED BY <1>1, <1>3, <1>4

LEMMA PrefixFacts ==
  ASSUME NEW A, NEW q \in Seq(A), NEW n \in 0..Len(q)
  PROVE  /\ SubSeq(q, 1, n) \in Seq(A) /\ Len(SubSeq(q, 1, n)) = n
         /\ DOMAIN SubSeq(q, 1, n) = 1..n
         /\ \A i \in 1..n : SubSeq(q, 1, n)[i] = q[i] /\ i \in DOMAIN q
<1>1. n \in Nat /\ n <= Len(q) /\ 0 \in Nat /\ 0 <= n /\ 0 + 1 = 1 /\ n - 0 = n
  OBVIOUS
<1>2. \A i \in 1..n : 0 + i = i
  OBVIOUS
<1>3. QED BY <1>1, <1>2, PartFacts

LEMMA WalkOfPrefix ==
  ASSUME NEW k, NEW b \in WState, NEW q \in Seq(Frame), NEW F, IsRun(k, b, q, F),
         NEW m \in 0..Len(q)
  PROVE  Walks(k, b, SubSeq(q, 1, m)) = F[m]
<1> DEFINE p == SubSeq(q, 1, m)
<1>1. p \in Seq(Frame) /\ Len(p) = m /\ \A i \in 1..m : p[i] = q[i]
  BY PrefixFacts
<1>2. PICK G : IsRun(k, b, p, G)
  BY <1>1, FoldRuns
<1> HIDE DEF p
<1>3. m \in Nat /\ \A i \in 1..m : i \in 1..Len(q)
  OBVIOUS
<1>4. SameSteps(m, G, F)
  BY <1>1, <1>2, <1>3 DEF IsRun, SameSteps
<1>5. G[m] = F[m]
  BY <1>3, <1>4, RunsAgree
<1>6. QED BY <1>1, <1>2, <1>5 DEF IsRun, p

\* A walk goes on where another one ended.
LEMMA WalkSplits ==
  ASSUME NEW k, NEW b \in WState, NEW q \in Seq(Frame),
         NEW m \in Nat, NEW n \in Nat, m <= n, n <= Len(q)
  PROVE  Walks(k, b, SubSeq(q, 1, n)) =
           Walks(k, Walks(k, b, SubSeq(q, 1, m)), SubSeq(q, m + 1, n))
<1> DEFINE p == SubSeq(q, m + 1, n)
<1>1. p \in Seq(Frame) /\ Len(p) = n - m /\ \A i \in 1..(n - m) : p[i] = q[m + i]
  BY PartFacts
<1> HIDE DEF p
<1>2. PICK F : IsRun(k, b, q, F)
  BY FoldRuns
<1>3. m \in 0..Len(q) /\ n \in 0..Len(q) /\ n - m \in Nat
  OBVIOUS
<1>4. Walks(k, b, SubSeq(q, 1, n)) = F[n] /\ Walks(k, b, SubSeq(q, 1, m)) = F[m]
  BY <1>2, <1>3, WalkOfPrefix
<1>5. F[m] \in WState
  BY <1>2, <1>3, RunTyped
<1>6. PICK G : IsRun(k, F[m], p, G)
  BY <1>1, <1>5, FoldRuns
<1> DEFINE H == [i \in 0..(n - m) |-> F[m + i]]
<1>7. H[0] = F[m] /\ H[n - m] = F[n]
  <2>1. 0 \in 0..(n - m) /\ n - m \in 0..(n - m) /\ m + 0 = m /\ m + (n - m) = n
    BY <1>3
  <2>2. QED BY <2>1
<1>8. \A i \in 1..(n - m) : H[i] = Turn(k, H[i - 1], p[i])
  <2> TAKE i \in 1..(n - m)
  <2>1. i \in 0..(n - m) /\ i - 1 \in 0..(n - m) /\ m + (i - 1) = (m + i) - 1 /\ m + i \in 1..Len(q)
    BY <1>3
  <2>2. F[m + i] = Turn(k, F[(m + i) - 1], q[m + i])
    BY <1>2, <2>1 DEF IsRun
  <2>3. p[i] = q[m + i]
    BY <1>1
  <2>4. QED BY <2>1, <2>2, <2>3
<1> HIDE DEF H
<1>9. SameSteps(n - m, G, H)
  BY <1>1, <1>6, <1>7, <1>8 DEF IsRun, SameSteps
<1>10. G[n - m] = H[n - m]
  BY <1>3, <1>9, RunsAgree
<1>11. QED BY <1>1, <1>4, <1>6, <1>7, <1>10 DEF IsRun, p

-----------------------------------------------------------------------------
(* What one frame does to a walk *)

\* Frames are archived in order of receipt: later ones have later seconds and connections.
InOrder(q) ==
  \A i, j \in DOMAIN q : i < j =>
    q[i].n < q[j].n /\ q[i].second <= q[j].second /\ q[i].conn <= q[j].conn

Bookwith(w, f) == IF f.snapshot THEN {f.n} ELSE w.book \cup {f.n}
Skips(w, f) == ~w.live /\ ~f.snapshot
Said(w, f) == IF Skips(w, f) THEN Unverified ELSE Ok(Bookwith(w, f), f)

Turned(k, w, f, x) ==
  /\ KeyOf(f) # k => x = w
  /\ KeyOf(f) = k =>
       /\ x.samples = w.samples \cup Flushed(w, f)
       /\ x.verdicts = w.verdicts \cup {<<f.n, Said(w, f)>>}
       /\ Skips(w, f) => /\ ~w.live /\ ~x.live
                         /\ x.book = w.book /\ x.ok = w.ok /\ x.last = w.last
       /\ ~Skips(w, f) => /\ x.live /\ x.last = f.second - 1
                          /\ x.book = Bookwith(w, f) /\ x.ok = Ok(Bookwith(w, f), f)

LEMMA TurnFacts ==
  ASSUME NEW k, NEW w \in WState, NEW f \in Frame
  PROVE  Turned(k, w, f, Turn(k, w, f))
<1> DEFINE x == Turn(k, w, f)
<1>1. CASE KeyOf(f) # k
  BY <1>1 DEF Turn, Turned
<1>2. CASE KeyOf(f) = k /\ Skips(w, f)
  <2>1. x = [w EXCEPT !.verdicts = @ \cup {<<f.n, Unverified>>}]
    BY <1>2 DEF Turn, Walk, Skips
  <2>2. /\ x.live = w.live /\ x.book = w.book /\ x.ok = w.ok /\ x.last = w.last
        /\ x.samples = w.samples /\ x.verdicts = w.verdicts \cup {<<f.n, Unverified>>}
    BY <2>1 DEF WState
  <2>3. ~w.live /\ Flushed(w, f) = {}
    BY <1>2, FlushedFacts DEF Skips
  <2> HIDE DEF x
  <2>4. Turned(k, w, f, x)
    BY <1>2, <2>2, <2>3 DEF Said, Turned
  <2>5. QED BY <2>4 DEF x
<1>3. CASE KeyOf(f) = k /\ ~Skips(w, f)
  <2>1. x = [live |-> TRUE, unflushed |-> ~w.live, book |-> Bookwith(w, f), ok |-> Ok(Bookwith(w, f), f),
             last |-> f.second - 1, samples |-> w.samples \cup Flushed(w, f),
             verdicts |-> w.verdicts \cup {<<f.n, Ok(Bookwith(w, f), f)>>}]
    BY <1>3 DEF Turn, Walk, Skips, Bookwith
  <2> HIDE DEF x
  <2>2. Turned(k, w, f, x)
    BY <1>3, <2>1 DEF Said, Turned
  <2>3. QED BY <2>2 DEF x
<1>4. QED BY <1>1, <1>2, <1>3

\* What the next frames see of a walk
Alike(w, x) == w.live = x.live /\ w.book = x.book /\ w.ok = x.ok /\ w.last = x.last

LEMMA AlikeTurns ==
  ASSUME NEW k, NEW w \in WState, NEW x \in WState, NEW f \in Frame, Alike(w, x)
  PROVE  /\ Alike(Turn(k, w, f), Turn(k, x, f))
         /\ Flushed(w, f) = Flushed(x, f) /\ Said(w, f) = Said(x, f)
<1>1. Skips(w, f) = Skips(x, f) /\ Bookwith(w, f) = Bookwith(x, f)
  BY DEF Alike, Skips, Bookwith
<1>2. Said(w, f) = Said(x, f)
  BY <1>1 DEF Said
<1>3. Flushed(w, f) = Flushed(x, f)
  BY DEF Alike, Flushed
<1>4. Turn(k, w, f).live \in BOOLEAN /\ Turn(k, x, f).live \in BOOLEAN
  BY TurnType DEF WState
<1>5. CASE KeyOf(f) # k
  BY <1>2, <1>3, <1>5, TurnFacts DEF Alike, Turned
<1>6. CASE KeyOf(f) = k /\ Skips(w, f)
  <2>1. Skips(x, f)
    BY <1>1, <1>6
  <2>2. /\ ~Turn(k, w, f).live /\ Turn(k, w, f).book = w.book
        /\ Turn(k, w, f).ok = w.ok /\ Turn(k, w, f).last = w.last
    BY <1>6, TurnFacts DEF Turned
  <2>3. /\ ~Turn(k, x, f).live /\ Turn(k, x, f).book = x.book
        /\ Turn(k, x, f).ok = x.ok /\ Turn(k, x, f).last = x.last
    BY <1>6, <2>1, TurnFacts DEF Turned
  <2>4. QED BY <1>4, <2>2, <2>3, <1>2, <1>3 DEF Alike
<1>7. CASE KeyOf(f) = k /\ ~Skips(w, f)
  <2>1. ~Skips(x, f)
    BY <1>1, <1>7
  <2>2. /\ Turn(k, w, f).live /\ Turn(k, w, f).book = Bookwith(w, f)
        /\ Turn(k, w, f).ok = Ok(Bookwith(w, f), f) /\ Turn(k, w, f).last = f.second - 1
    BY <1>7, TurnFacts DEF Turned
  <2>3. /\ Turn(k, x, f).live /\ Turn(k, x, f).book = Bookwith(x, f)
        /\ Turn(k, x, f).ok = Ok(Bookwith(x, f), f) /\ Turn(k, x, f).last = f.second - 1
    BY <1>7, <2>1, TurnFacts DEF Turned
  <2>4. QED BY <1>1, <1>4, <2>2, <2>3, <1>2, <1>3 DEF Alike
<1>8. QED BY <1>2, <1>3, <1>5, <1>6, <1>7

-----------------------------------------------------------------------------
(* What a walk has seen *)

Own(k, q, i) == {l \in 1..i : KeyOf(q[l]) = k}
Named(rows)  == {r[1] : r \in rows}

LastOwn(k, q, i, j) ==
  j \in 1..i /\ KeyOf(q[j]) = k /\ \A l \in 1..i : KeyOf(q[l]) = k => l <= j

\* A sample lies between two frames of its connection that follow each other.
Between(k, q, a, j, l) ==
  /\ KeyOf(q[l]) = k /\ LastOwn(k, q, l - 1, j)
  /\ q[j].second <= a.second /\ a.second < q[l].second
  /\ a.ok = "true" => TopTen(a.book) = TopTen(q[j].truth)

Shown(k, q, i, a) == \E l \in 1..i : \E j \in 1..i : Between(k, q, a, j, l)

LastSeen(k, q, i, w, j) ==
  LastOwn(k, q, i, j) /\ w.last = q[j].second - 1 /\ (w.ok = "true" => TopTen(w.book) = TopTen(q[j].truth))

WalkInv(k, q, i, w) ==
  /\ Named(w.verdicts) = {q[j].n : j \in Own(k, q, i)}
  /\ w.live => \E j \in 1..i : LastSeen(k, q, i, w, j)
  /\ ~w.live => w.samples = {} /\ w.book = {} /\ w.ok = Unverified /\ w.last = -1
  /\ \A a \in w.samples : <<a.symbol, a.conn>> = k /\ a.second <= w.last /\ Shown(k, q, i, a)
  /\ \A a, b \in w.samples : a.second = b.second => a = b

LEMMA WalkInvInit ==
  ASSUME NEW k, NEW q
  PROVE  WalkInv(k, q, 0, Fresh)
<1>1. Named(Fresh.verdicts) = {}
  BY DEF Fresh, Named
<1>2. {q[j].n : j \in Own(k, q, 0)} = {}
  BY DEF Own
<1>3. QED BY <1>1, <1>2 DEF Fresh, WalkInv

LEMMA OwnStays ==
  ASSUME NEW k, NEW q, NEW i \in Nat, KeyOf(q[i + 1]) # k
  PROVE  /\ \A j \in 1..i : LastOwn(k, q, i, j) => LastOwn(k, q, i + 1, j)
         /\ Own(k, q, i + 1) = Own(k, q, i)
<1>1. \A l \in 1..(i + 1) : l # i + 1 => l \in 1..i
  OBVIOUS
<1>2. \A l \in 1..i : l \in 1..(i + 1)
  OBVIOUS
<1>3. QED BY <1>1, <1>2 DEF LastOwn, Own

LEMMA OwnNext ==
  ASSUME NEW k, NEW q, NEW i \in Nat, KeyOf(q[i + 1]) = k
  PROVE  /\ LastOwn(k, q, i + 1, i + 1)
         /\ Own(k, q, i + 1) = Own(k, q, i) \cup {i + 1}
<1>1. \A l \in 1..(i + 1) : l <= i + 1 /\ (l # i + 1 => l \in 1..i)
  OBVIOUS
<1>2. \A l \in 1..i : l \in 1..(i + 1)
  OBVIOUS
<1>3. i + 1 \in 1..(i + 1)
  OBVIOUS
<1>4. QED BY <1>1, <1>2, <1>3 DEF LastOwn, Own

LEMMA ShownStays ==
  ASSUME NEW k, NEW q, NEW i \in Nat, NEW a, Shown(k, q, i, a)
  PROVE  Shown(k, q, i + 1, a)
<1>1. \A l \in 1..i : l \in 1..(i + 1)
  OBVIOUS
<1>2. QED BY <1>1 DEF Shown

LEMMA NamesOfMore ==
  ASSUME NEW V, NEW n, NEW y
  PROVE  Named(V \cup {<<n, y>>}) = Named(V) \cup {n}
<1>1. <<n, y>>[1] = n
  OBVIOUS
<1>2. QED BY <1>1 DEF Named

LEMMA WalkInvStep ==
  ASSUME NEW k, NEW q \in Seq(Frame), InOrder(q), NEW i \in Nat, i + 1 \in 1..Len(q),
         NEW w \in WState, WalkInv(k, q, i, w)
  PROVE  WalkInv(k, q, i + 1, Turn(k, w, q[i + 1]))
<1> DEFINE f == q[i + 1]
           x == Turn(k, w, f)
<1>1. f \in Frame /\ f.second \in Nat /\ DOMAIN q = 1..Len(q)
  <2>1. f \in Frame /\ DOMAIN q = 1..Len(q)
    OBVIOUS
  <2>2. f.second \in Nat
    BY <2>1, Constants DEF Frame
  <2>3. QED BY <2>1, <2>2
<1>2. (i + 1) - 1 = i /\ \A j \in 1..i : j \in 1..Len(q) /\ j < i + 1 /\ j \in 1..(i + 1)
  OBVIOUS
<1>3. \A j \in 1..i : q[j].second \in Nat /\ q[j].second <= f.second
  <2>1. \A j \in 1..i : q[j] \in Frame
    BY <1>2
  <2>2. QED BY <1>1, <1>2, <2>1, Constants DEF Frame, InOrder
<1>0. f = q[i + 1]
  OBVIOUS
<1> HIDE DEF f
<1>4. CASE KeyOf(f) # k
  <2>1. x = w
    BY <1>1, <1>4, TurnFacts DEF Turned
  <2>2. w.live => \E j \in 1..(i + 1) : LastSeen(k, q, i + 1, w, j)
    BY <1>0, <1>2, <1>4, OwnStays DEF LastSeen, WalkInv
  <2>3. \A a \in w.samples : Shown(k, q, i + 1, a)
    BY ShownStays DEF WalkInv
  <2>4. Own(k, q, i + 1) = Own(k, q, i)
    BY <1>0, <1>4, OwnStays
  <2> HIDE DEF x
  <2>5. WalkInv(k, q, i + 1, w)
    BY <2>2, <2>3, <2>4 DEF WalkInv
  <2>6. QED BY <1>0, <2>1, <2>5 DEF x
<1>5. CASE KeyOf(f) = k
  <2>0. Turned(k, w, f, x)
    BY <1>1, TurnFacts
  <2> HIDE DEF x
  <2>1. /\ x.samples = w.samples \cup Flushed(w, f)
        /\ x.verdicts = w.verdicts \cup {<<f.n, Said(w, f)>>}
        /\ Skips(w, f) => /\ ~w.live /\ ~x.live
                          /\ x.book = w.book /\ x.ok = w.ok /\ x.last = w.last
        /\ ~Skips(w, f) => /\ x.live /\ x.last = f.second - 1
                           /\ x.book = Bookwith(w, f) /\ x.ok = Ok(Bookwith(w, f), f)
    BY <1>5, <2>0 DEF Turned
  <2>2. LastOwn(k, q, i + 1, i + 1) /\ i + 1 \in 1..(i + 1)
    BY <1>0, <1>5, OwnNext
  <2>3. Own(k, q, i + 1) = Own(k, q, i) \cup {i + 1}
    BY <1>0, <1>5, OwnNext
  <2>4. Named(x.verdicts) = {q[j].n : j \in Own(k, q, i + 1)}
    <3>1. Named(x.verdicts) = Named(w.verdicts) \cup {f.n}
      <4>1. x.verdicts = w.verdicts \cup {<<f.n, Said(w, f)>>}
        BY <2>1
      <4>2. \A V, n, y : Named(V \cup {<<n, y>>}) = Named(V) \cup {n}
        BY NamesOfMore
      <4>3. Named(w.verdicts \cup {<<f.n, Said(w, f)>>}) = Named(w.verdicts) \cup {f.n}
        BY <4>2
      <4>4. QED BY <4>1, <4>3
    <3>2. {q[j].n : j \in Own(k, q, i + 1)}
            = {q[j].n : j \in Own(k, q, i)} \cup {f.n}
      BY <1>0, <2>3
    <3>3. QED BY <3>1, <3>2 DEF WalkInv
  <2>5. x.live => \E j \in 1..(i + 1) : LastSeen(k, q, i + 1, x, j)
    <3> SUFFICES ASSUME x.live PROVE LastSeen(k, q, i + 1, x, i + 1)
      BY <2>2
    <3>1. x.last = f.second - 1 /\ x.book = Bookwith(w, f) /\ x.ok = Ok(Bookwith(w, f), f)
      BY <2>1
    <3>2. x.ok = "true" => TopTen(x.book) = TopTen(f.truth)
      BY <3>1 DEF Ok
    <3>3. QED BY <1>0, <2>2, <3>1, <3>2 DEF LastSeen
  <2>6. ~x.live => x.samples = {} /\ x.book = {} /\ x.ok = Unverified /\ x.last = -1
    <3> SUFFICES ASSUME ~x.live PROVE x.samples = {} /\ x.book = {} /\ x.ok = Unverified /\ x.last = -1
      OBVIOUS
    <3>1. ~w.live /\ x.book = w.book /\ x.ok = w.ok /\ x.last = w.last
      BY <2>1
    <3>2. w.samples = {} /\ w.book = {} /\ w.ok = Unverified /\ w.last = -1
      BY <3>1 DEF WalkInv
    <3>3. Flushed(w, f) = {}
      BY <1>1, <3>1, FlushedFacts
    <3>4. QED BY <2>1, <3>1, <3>2, <3>3
  <2>7. ASSUME NEW a \in Flushed(w, f)
        PROVE  /\ <<a.symbol, a.conn>> = k /\ a.second \in Nat /\ w.live /\ w.last < a.second
               /\ a.second <= x.last /\ Shown(k, q, i + 1, a)
    <3>1. /\ a.symbol = f.symbol /\ a.conn = f.conn /\ a.book = w.book /\ a.ok = w.ok
          /\ a.second \in Nat /\ w.live /\ w.last < a.second /\ a.second < f.second
      BY <1>1, FlushedFacts
    <3>2. <<a.symbol, a.conn>> = k
      BY <1>5, <3>1 DEF KeyOf
    <3>3. x.last = f.second - 1
      BY <2>1, <3>1 DEF Skips
    <3>4. a.second <= x.last
      BY <1>1, <3>1, <3>3
    <3>5. PICK j \in 1..i : LastSeen(k, q, i, w, j)
      BY <3>1 DEF WalkInv
    <3>6. q[j].second <= a.second
      BY <1>3, <3>1, <3>5 DEF LastSeen
    <3>7. Between(k, q, a, j, i + 1)
      BY <1>0, <1>2, <1>5, <3>1, <3>5, <3>6 DEF Between, LastSeen
    <3>8. Shown(k, q, i + 1, a)
      BY <1>2, <2>2, <3>7 DEF Shown
    <3>9. QED BY <3>1, <3>2, <3>4, <3>8
  <2>8. ASSUME NEW a \in w.samples
        PROVE  /\ <<a.symbol, a.conn>> = k /\ a.second \in Int /\ w.last \in Int
               /\ a.second <= w.last /\ a.second <= x.last /\ Shown(k, q, i + 1, a)
    <3>1. <<a.symbol, a.conn>> = k /\ a.second <= w.last /\ Shown(k, q, i + 1, a)
      BY ShownStays DEF WalkInv
    <3>2. w.live
      BY DEF WalkInv
    <3>3. PICK j \in 1..i : LastSeen(k, q, i, w, j)
      BY <3>2 DEF WalkInv
    <3>4. w.last = q[j].second - 1
      BY <3>3 DEF LastSeen
    <3>5. x.last = f.second - 1
      BY <2>1, <3>2 DEF Skips
    <3>6. a \in Sample
      BY DEF WState
    <3>7. a.second \in Int
      <4>1. a.second \in Second
        BY <3>6 DEF Sample
      <4>2. a.second \in Nat
        BY <4>1, Constants
      <4>3. QED BY <4>2
    <3>8. w.last \in Int /\ a.second <= x.last
      BY <1>1, <1>3, <3>1, <3>4, <3>5, <3>7
    <3>9. QED BY <3>1, <3>7, <3>8
  <2>9. \A a \in x.samples : <<a.symbol, a.conn>> = k /\ a.second <= x.last /\ Shown(k, q, i + 1, a)
    BY <2>1, <2>7, <2>8
  <2>10. \A a, b \in x.samples : a.second = b.second => a = b
    <3> SUFFICES ASSUME NEW a \in x.samples, NEW b \in x.samples, a.second = b.second PROVE a = b
      OBVIOUS
    <3>1. CASE a \in w.samples /\ b \in w.samples
      BY <3>1 DEF WalkInv
    <3>2. CASE a \in Flushed(w, f) /\ b \in Flushed(w, f)
      BY <1>1, <3>2, FlushedFacts
    <3>3. ASSUME NEW c \in w.samples, NEW d \in Flushed(w, f), c.second = d.second PROVE FALSE
      BY <2>7, <2>8, <3>3
    <3>4. QED BY <2>1, <3>1, <3>2, <3>3
  <2>11. WalkInv(k, q, i + 1, x)
    BY <2>4, <2>5, <2>6, <2>9, <2>10 DEF WalkInv
  <2>12. QED BY <1>0, <2>11 DEF x
<1>6. QED BY <1>4, <1>5

(* The walk over the first frames of a list, and how it resumes *)

End(k, q, m) == Walks(k, Fresh, SubSeq(q, 1, m))

LEMMA RunInv ==
  ASSUME NEW k, NEW q \in Seq(Frame), InOrder(q), NEW F, IsRun(k, Fresh, q, F),
         NEW m \in 0..Len(q)
  PROVE  WalkInv(k, q, m, F[m])
<1> DEFINE P == {i \in Nat : i <= Len(q) => WalkInv(k, q, i, F[i])}
<1>1. 0 \in P
  BY WalkInvInit DEF IsRun
<1>2. ASSUME NEW i \in Nat, i \in P PROVE i + 1 \in P
  <2>1. CASE i + 1 <= Len(q)
    <3>1. i + 1 \in 1..Len(q) /\ i \in 0..Len(q) /\ i <= Len(q) /\ (i + 1) - 1 = i
      BY <2>1
    <3>2. WalkInv(k, q, i, F[i]) /\ F[i] \in WState
      BY <1>2, <3>1, RunTyped, FreshType
    <3>3. F[i + 1] = Turn(k, F[i], q[i + 1])
      BY <3>1 DEF IsRun
    <3>4. WalkInv(k, q, i + 1, F[i + 1])
      BY <3>1, <3>2, <3>3, WalkInvStep
    <3>5. QED BY <3>4
  <2>2. CASE ~(i + 1 <= Len(q))
    BY <2>2
  <2>3. QED BY <2>1, <2>2
<1>3. Nat \subseteq P
  <2> HIDE DEF P
  <2>1. QED BY <1>1, <1>2, SetInduction
<1>4. m \in Nat /\ m <= Len(q)
  OBVIOUS
<1>5. QED BY <1>3, <1>4

LEMMA EndInv ==
  ASSUME NEW k, NEW q \in Seq(Frame), InOrder(q), NEW m \in 0..Len(q)
  PROVE  End(k, q, m) \in WState /\ WalkInv(k, q, m, End(k, q, m))
<1>1. PICK F : IsRun(k, Fresh, q, F)
  BY FoldRuns, FreshType
<1>2. End(k, q, m) = F[m]
  BY <1>1, WalkOfPrefix, FreshType DEF End
<1>3. F[m] \in WState
  BY <1>1, RunTyped, FreshType
<1>4. WalkInv(k, q, m, F[m])
  BY <1>1, RunInv
<1>5. QED BY <1>2, <1>3, <1>4

Resumes(w, r) == Alike(w, r) /\ r.samples = {} /\ r.verdicts = {}

\* x is w and what e adds.
Adds(w, e, x) ==
  /\ Alike(x, e)
  /\ x.samples = w.samples \cup e.samples /\ x.verdicts = w.verdicts \cup e.verdicts
  /\ w.live => e.live /\ w.last <= e.last /\ \A a \in e.samples : w.last < a.second

LEMMA LastIsInt ==
  ASSUME NEW w \in WState
  PROVE  w.last \in Int
<1>1. w.last \in Second \cup {-1}
  BY DEF WState
<1>2. \A x \in Second : x \in Nat
  BY Constants
<1>3. QED BY <1>1, <1>2

LEMMA AddsStep ==
  ASSUME NEW k, NEW w \in WState, NEW e \in WState, NEW x \in WState, NEW f \in Frame,
         Adds(w, e, x), x.live => x.last <= f.second - 1
  PROVE  Adds(w, Turn(k, e, f), Turn(k, x, f))
<1> DEFINE y == Turn(k, x, f)
           d == Turn(k, e, f)
<1>1. Alike(y, d) /\ Flushed(x, f) = Flushed(e, f) /\ Said(x, f) = Said(e, f)
  BY AlikeTurns DEF Adds
<1>2. Turned(k, x, f, y) /\ Turned(k, e, f, d)
  BY TurnFacts
<1>3. w.last \in Int /\ e.last \in Int /\ d.last \in Int /\ x.last = e.last /\ x.live = e.live
      /\ f.second \in Int
  <2>1. f.second \in Second
    BY DEF Frame
  <2>2. f.second \in Nat
    BY <2>1, Constants
  <2>3. d \in WState
    BY TurnType
  <2>4. x.last = e.last /\ x.live = e.live
    BY DEF Adds, Alike
  <2>5. w.last \in Int /\ e.last \in Int /\ d.last \in Int
    BY <2>3, LastIsInt
  <2>6. QED BY <2>2, <2>4, <2>5
<1> HIDE DEF y, d
<1>4. CASE KeyOf(f) # k
  <2>1. y = x /\ d = e
    BY <1>2, <1>4 DEF Turned
  <2>2. Adds(w, d, y)
    BY <2>1
  <2>3. QED BY <2>2 DEF y, d
<1>5. CASE KeyOf(f) = k
  <2>1. y.samples = x.samples \cup Flushed(x, f) /\ d.samples = e.samples \cup Flushed(e, f)
    BY <1>2, <1>5 DEF Turned
  <2>2. y.verdicts = x.verdicts \cup {<<f.n, Said(x, f)>>} /\ d.verdicts = e.verdicts \cup {<<f.n, Said(e, f)>>}
    BY <1>2, <1>5 DEF Turned
  <2>3. y.samples = w.samples \cup d.samples
    BY <1>1, <2>1 DEF Adds
  <2>4. y.verdicts = w.verdicts \cup d.verdicts
    BY <1>1, <2>2 DEF Adds
  <2>5. ASSUME w.live
        PROVE  d.live /\ w.last <= d.last /\ \A a \in d.samples : w.last < a.second
    <3>1. e.live /\ w.last <= e.last /\ \A a \in e.samples : w.last < a.second
      BY <2>5 DEF Adds
    <3>2. ~Skips(e, f) /\ x.last <= f.second - 1
      BY <1>3, <3>1 DEF Skips
    <3>3. d.live /\ d.last = f.second - 1
      BY <1>2, <1>5, <3>2 DEF Turned
    <3>4. w.last <= d.last
      BY <1>3, <3>1, <3>2, <3>3
    <3>5. \A a \in Flushed(e, f) : a.second \in Int /\ e.last < a.second
      BY FlushedFacts
    <3>6. \A a \in Flushed(e, f) : w.last < a.second
      BY <1>3, <3>1, <3>5
    <3>7. QED BY <2>1, <3>1, <3>3, <3>4, <3>6
  <2>6. Adds(w, d, y)
    BY <1>1, <2>3, <2>4, <2>5 DEF Adds
  <2>7. QED BY <2>6 DEF y, d
<1>6. QED BY <1>4, <1>5

LEMMA NoLaterThanNext ==
  ASSUME NEW k, NEW q \in Seq(Frame), InOrder(q), NEW i \in Nat, i + 1 \in 1..Len(q),
         NEW w, WalkInv(k, q, i, w), w.live
  PROVE  w.last <= q[i + 1].second - 1
<1>1. PICK j \in 1..i : LastSeen(k, q, i, w, j)
  BY DEF WalkInv
<1>2. w.last = q[j].second - 1
  BY <1>1 DEF LastSeen
<1>3. j \in DOMAIN q /\ i + 1 \in DOMAIN q /\ j < i + 1
  OBVIOUS
<1>4. q[j].second <= q[i + 1].second
  BY <1>3 DEF InOrder
<1>5. q[j] \in Frame /\ q[i + 1] \in Frame
  BY <1>3
<1>6. q[j].second \in Second /\ q[i + 1].second \in Second
  BY <1>5 DEF Frame
<1>7. q[j].second \in Nat /\ q[i + 1].second \in Nat
  BY <1>6, Constants
<1>8. QED BY <1>2, <1>4, <1>7

LEMMA Resuming ==
  ASSUME NEW k, NEW q \in Seq(Frame), InOrder(q), NEW m \in Nat, NEW n \in Nat,
         m <= n, n <= Len(q), NEW r \in WState, Resumes(End(k, q, m), r)
  PROVE  Adds(End(k, q, m), Walks(k, r, SubSeq(q, m + 1, n)), End(k, q, n))
<1> DEFINE p == SubSeq(q, m + 1, n)
<1>1. p \in Seq(Frame) /\ Len(p) = n - m /\ \A i \in 1..(n - m) : p[i] = q[m + i]
  BY PartFacts
<1> HIDE DEF p
<1>2. PICK F : IsRun(k, Fresh, q, F)
  BY FoldRuns, FreshType
<1>3. PICK G : IsRun(k, r, p, G)
  BY <1>1, FoldRuns
<1>4. m \in 0..Len(q) /\ n \in 0..Len(q) /\ n - m \in Nat /\ m + (n - m) = n /\ m + 0 = m
  OBVIOUS
<1>5. End(k, q, m) = F[m]
  BY <1>2, <1>4, WalkOfPrefix, FreshType DEF End
<1>6. End(k, q, n) = F[n]
  BY <1>2, <1>4, WalkOfPrefix, FreshType DEF End
<1>7. F[m] \in WState
  BY <1>2, <1>4, RunTyped, FreshType
<1> DEFINE P == {i \in Nat : i <= n - m => Adds(F[m], G[i], F[m + i])}
<1>8. 0 \in P
  <2>1. G[0] = r
    BY <1>3 DEF IsRun
  <2>2. F[m].last \in Int
    BY <1>7, LastIsInt
  <2>3. F[m].last <= F[m].last
    BY <2>2
  <2>4. Alike(F[m], r) /\ r.samples = {} /\ r.verdicts = {}
    BY <1>5 DEF Resumes
  <2>5. Adds(F[m], r, F[m])
    BY <2>3, <2>4 DEF Adds, Alike
  <2>6. QED BY <1>4, <2>1, <2>5
<1>9. ASSUME NEW i \in Nat, i \in P PROVE i + 1 \in P
  <2> SUFFICES ASSUME i + 1 <= n - m PROVE Adds(F[m], G[i + 1], F[m + (i + 1)])
    OBVIOUS
  <2>1. /\ i <= n - m /\ i + 1 \in 1..(n - m) /\ i \in 0..(n - m) /\ (i + 1) - 1 = i
        /\ m + i \in Nat /\ m + i \in 0..Len(q) /\ (m + i) + 1 \in 1..Len(q)
        /\ m + (i + 1) = (m + i) + 1 /\ ((m + i) + 1) - 1 = m + i
    BY <1>4
  <2> DEFINE f == q[(m + i) + 1]
  <2>2. f \in Frame
    BY <2>1
  <2>3. Adds(F[m], G[i], F[m + i])
    BY <1>9, <2>1
  <2>4. G[i] \in WState
    BY <1>1, <1>3, <2>1, RunTyped
  <2>5. F[m + i] \in WState
    BY <1>2, <2>1, RunTyped, FreshType
  <2>6. WalkInv(k, q, m + i, F[m + i])
    BY <1>2, <2>1, RunInv
  <2>7. F[m + i].live => F[m + i].last <= f.second - 1
    BY <2>1, <2>6, NoLaterThanNext
  <2>8. G[i + 1] = Turn(k, G[i], p[i + 1])
    BY <1>1, <1>3, <2>1 DEF IsRun
  <2>9. p[i + 1] = f
    BY <1>1, <2>1
  <2>10. F[(m + i) + 1] = Turn(k, F[m + i], f)
    BY <1>2, <2>1 DEF IsRun
  <2> HIDE DEF f
  <2>11. Adds(F[m], Turn(k, G[i], f), Turn(k, F[m + i], f))
    BY <1>7, <2>2, <2>3, <2>4, <2>5, <2>7, AddsStep
  <2>12. QED BY <2>1, <2>8, <2>9, <2>10, <2>11
<1>10. Nat \subseteq P
  <2> HIDE DEF P
  <2>1. QED BY <1>8, <1>9, SetInduction
<1>11. Adds(F[m], G[n - m], F[n])
  <2>1. n - m \in P /\ n - m <= n - m
    BY <1>4, <1>10
  <2>2. QED BY <1>4, <2>1
<1>12. Walks(k, r, p) = G[n - m]
  BY <1>1, <1>3 DEF IsRun
<1>13. QED BY <1>5, <1>6, <1>11, <1>12 DEF p

-----------------------------------------------------------------------------
(* The replay of a batch *)

StateMap(f) == DOMAIN f \subseteq Key /\ f \in [DOMAIN f -> State]
StateOf(w) == [book |-> w.book, ok |-> w.ok, last |-> w.last]

LEMMA Untouched ==
  ASSUME NEW k, NEW b \in WState, NEW p \in Seq(Frame), k \notin KeysIn(p)
  PROVE  Walks(k, b, p) = b
<1>1. PICK F : IsRun(k, b, p, F)
  BY FoldRuns
<1> DEFINE P == {i \in Nat : i <= Len(p) => F[i] = b}
<1>2. 0 \in P
  BY <1>1 DEF IsRun
<1>3. ASSUME NEW i \in Nat, i \in P PROVE i + 1 \in P
  <2> SUFFICES ASSUME i + 1 <= Len(p) PROVE F[i + 1] = b
    OBVIOUS
  <2>1. i + 1 \in 1..Len(p) /\ i <= Len(p) /\ (i + 1) - 1 = i
    OBVIOUS
  <2>2. F[i + 1] = Turn(k, b, p[i + 1])
    BY <1>1, <1>3, <2>1 DEF IsRun
  <2>3. p[i + 1] \in Range(p)
    BY <2>1 DEF Range
  <2>4. KeyOf(p[i + 1]) # k
    BY <2>3 DEF KeysIn
  <2>5. QED BY <2>2, <2>4 DEF Turn
<1>4. Nat \subseteq P
  <2> HIDE DEF P
  <2>1. QED BY <1>2, <1>3, SetInduction
<1>5. Len(p) \in Nat /\ Len(p) <= Len(p)
  OBVIOUS
<1>6. F[Len(p)] = b
  BY <1>4, <1>5
<1>7. QED BY <1>1, <1>6 DEF IsRun

LEMMA KeysTyped ==
  ASSUME NEW p \in Seq(Frame)
  PROVE  KeysIn(p) \subseteq Key
<1>1. \A f \in Range(p) : f \in Frame
  BY DEF Range
<1>2. \A f \in Frame : KeyOf(f) \in Key
  BY DEF Frame, KeyOf, Key
<1>3. QED BY <1>1, <1>2 DEF KeysIn

LEMMA ResumedType ==
  ASSUME NEW c, StateMap(c), NEW k
  PROVE  Resumed(k, c) \in WState
<1>1. CASE k \in DOMAIN c
  <2>1. c[k] \in State
    BY <1>1 DEF StateMap
  <2>2. c[k].book \in SUBSET Change /\ c[k].ok \in Verdict /\ c[k].last \in Second \cup {-1}
    BY <2>1 DEF State
  <2>3. Resumed(k, c) = [live |-> TRUE, unflushed |-> FALSE, book |-> c[k].book, ok |-> c[k].ok,
                         last |-> c[k].last, samples |-> {}, verdicts |-> {}]
    BY <1>1 DEF Resumed
  <2>4. {} \in SUBSET Sample /\ {} \in SUBSET (Change \X Verdict)
    OBVIOUS
  <2>5. QED BY <2>2, <2>3, <2>4 DEF WState
<1>2. CASE k \notin DOMAIN c
  <2>1. Resumed(k, c) = Fresh
    BY <1>2 DEF Resumed, Fresh
  <2>2. QED BY <2>1, FreshType
<1>3. QED BY <1>1, <1>2

LEMMA WalkedIsWalks ==
  ASSUME NEW k, NEW p, NEW c
  PROVE  Walked(k, p, c) = Walks(k, Resumed(k, c), p)
BY DEF Walked, Walks

LEMMA WalkedType ==
  ASSUME NEW c, StateMap(c), NEW k, NEW p \in Seq(Frame)
  PROVE  Walked(k, p, c) \in WState
BY ResumedType, WalksType, WalkedIsWalks

IsOutput(o) ==
  /\ o = [verdicts |-> o.verdicts, samples |-> o.samples, states |-> o.states]
  /\ o.verdicts \subseteq Change \X Verdict /\ o.samples \subseteq Sample /\ StateMap(o.states)

LEMMA ReplayParts ==
  ASSUME NEW c, NEW p
  PROVE  /\ Replay(p, c).verdicts = UNION {Walked(k, p, c).verdicts : k \in KeysIn(p)}
         /\ Replay(p, c).samples = UNION {Walked(k, p, c).samples : k \in KeysIn(p)}
         /\ DOMAIN Replay(p, c).states = {k \in KeysIn(p) : Walked(k, p, c).live}
         /\ \A k \in DOMAIN Replay(p, c).states : Replay(p, c).states[k] = StateOf(Walked(k, p, c))
         /\ Replay(p, c) = [verdicts |-> Replay(p, c).verdicts, samples |-> Replay(p, c).samples,
                            states |-> Replay(p, c).states]
BY DEF Replay, StateOf

LEMMA StateOfType ==
  ASSUME NEW w \in WState
  PROVE  StateOf(w) \in State
BY DEF WState, State, StateOf

LEMMA ReplayType ==
  ASSUME NEW c, StateMap(c), NEW p \in Seq(Frame)
  PROVE  IsOutput(Replay(p, c))
<1> DEFINE r == Replay(p, c)
<1>1. \A k \in KeysIn(p) : Walked(k, p, c) \in WState
  BY WalkedType
<1>2. \A k \in KeysIn(p) : Walked(k, p, c).verdicts \subseteq Change \X Verdict
                           /\ Walked(k, p, c).samples \subseteq Sample
  BY <1>1 DEF WState
<1>3. r.verdicts \subseteq Change \X Verdict /\ r.samples \subseteq Sample
  BY <1>2, ReplayParts
<1>4. DOMAIN r.states \subseteq KeysIn(p)
  BY ReplayParts
<1>5. \A k \in DOMAIN r.states : r.states[k] \in State
  BY <1>1, <1>4, StateOfType, ReplayParts
<1>6. r.states = [k \in DOMAIN r.states |-> r.states[k]]
  BY DEF Replay
<1>7. StateMap(r.states)
  <2> DEFINE s == r.states
  <2>1. DOMAIN s \subseteq Key
    BY <1>4, KeysTyped
  <2>2. s = [k \in DOMAIN s |-> s[k]] /\ \A k \in DOMAIN s : s[k] \in State
    BY <1>5, <1>6
  <2> HIDE DEF s
  <2>3. s \in [DOMAIN s -> State]
    BY <2>2
  <2>4. QED BY <2>1, <2>3 DEF StateMap, s
<1>8. r = [verdicts |-> r.verdicts, samples |-> r.samples, states |-> r.states]
  BY ReplayParts
<1>9. QED BY <1>3, <1>7, <1>8 DEF IsOutput

Carries(c, q, m) ==
  /\ DOMAIN c = {k \in Key : End(k, q, m).live}
  /\ \A k \in DOMAIN c : c[k] = StateOf(End(k, q, m))
AllSaid(q, m)  == UNION {End(k, q, m).verdicts : k \in Key}
AllShown(q, m) == UNION {End(k, q, m).samples : k \in Key}

LEMMA ResumesFromCarried ==
  ASSUME NEW k \in Key, NEW q \in Seq(Frame), InOrder(q), NEW m \in 0..Len(q),
         NEW c, StateMap(c), Carries(c, q, m)
  PROVE  Resumes(End(k, q, m), Resumed(k, c))
<1> DEFINE w == End(k, q, m)
<1>1. w \in WState /\ WalkInv(k, q, m, w)
  BY EndInv
<1>2. k \in DOMAIN c <=> w.live
  BY DEF Carries
<1>3. k \in DOMAIN c => c[k] = StateOf(w)
  BY DEF Carries
<1> HIDE DEF w
<1>4. w.live \in BOOLEAN
  BY <1>1 DEF WState
<1>5. CASE k \in DOMAIN c
  <2>1. Resumed(k, c) = [live |-> TRUE, unflushed |-> FALSE, book |-> c[k].book, ok |-> c[k].ok,
                         last |-> c[k].last, samples |-> {}, verdicts |-> {}]
    BY <1>5 DEF Resumed
  <2>2. c[k].book = w.book /\ c[k].ok = w.ok /\ c[k].last = w.last
    BY <1>3, <1>5 DEF StateOf
  <2>3. w.live = TRUE
    BY <1>2, <1>4, <1>5
  <2> DEFINE x == Resumed(k, c)
  <2>4. /\ x.live = TRUE /\ x.book = w.book /\ x.ok = w.ok /\ x.last = w.last
        /\ x.samples = {} /\ x.verdicts = {}
    BY <2>1, <2>2
  <2> HIDE DEF x
  <2>5. Resumes(w, x)
    BY <2>3, <2>4 DEF Resumes, Alike
  <2>6. QED BY <2>5 DEF w, x
<1>6. CASE k \notin DOMAIN c
  <2>1. Resumed(k, c) = Fresh
    BY <1>6 DEF Resumed, Fresh
  <2>2. ~w.live /\ w.book = {} /\ w.ok = Unverified /\ w.last = -1
    BY <1>1, <1>2, <1>6 DEF WalkInv
  <2>3. Resumes(w, Fresh)
    BY <1>4, <2>2 DEF Resumes, Alike, Fresh
  <2>4. QED BY <2>1, <2>3 DEF w
<1>7. QED BY <1>5, <1>6

\* What a batch, resumed from the states carried, adds to the walks of its keys.
LEMMA KeyGoesOn ==
  ASSUME NEW k \in Key, NEW q \in Seq(Frame), InOrder(q), NEW m \in Nat, NEW n \in Nat,
         m <= n, n <= Len(q), NEW c, StateMap(c), Carries(c, q, m)
  PROVE  /\ Adds(End(k, q, m), Walked(k, SubSeq(q, m + 1, n), c), End(k, q, n))
         /\ k \notin KeysIn(SubSeq(q, m + 1, n)) =>
              /\ End(k, q, n) = End(k, q, m)
              /\ Walked(k, SubSeq(q, m + 1, n), c).samples = {}
              /\ Walked(k, SubSeq(q, m + 1, n), c).verdicts = {}
<1> DEFINE p == SubSeq(q, m + 1, n)
           r == Resumed(k, c)
<1>1. m \in 0..Len(q)
  OBVIOUS
<1>2. Resumes(End(k, q, m), r)
  BY <1>1, ResumesFromCarried
<1>3. r \in WState
  BY ResumedType
<1>4. Walked(k, p, c) = Walks(k, r, p)
  BY WalkedIsWalks
<1>5. p \in Seq(Frame)
  BY PartFacts
<1>6. End(k, q, n) = Walks(k, End(k, q, m), p)
  BY FreshType, WalkSplits DEF End
<1>7. End(k, q, m) \in WState
  BY <1>1, EndInv
<1> HIDE DEF r
<1>8. Adds(End(k, q, m), Walks(k, r, p), End(k, q, n))
  BY <1>2, <1>3, Resuming
<1> HIDE DEF p
<1>9. ASSUME k \notin KeysIn(p)
      PROVE  End(k, q, n) = End(k, q, m) /\ Walked(k, p, c).samples = {} /\ Walked(k, p, c).verdicts = {}
  <2>1. Walks(k, r, p) = r
    BY <1>3, <1>5, <1>9, Untouched
  <2>2. Walks(k, End(k, q, m), p) = End(k, q, m)
    BY <1>5, <1>7, <1>9, Untouched
  <2>3. QED BY <1>2, <1>4, <1>6, <2>1, <2>2 DEF Resumes
<1>10. QED BY <1>4, <1>8, <1>9 DEF p

LEMMA OverType ==
  ASSUME NEW new, NEW old, StateMap(new), StateMap(old)
  PROVE  StateMap(Over(new, old))
<1> DEFINE s == Over(new, old)
<1>1. \A k \in DOMAIN new : new[k] \in State
  BY DEF StateMap
<1>2. \A k \in DOMAIN old : old[k] \in State
  BY DEF StateMap
<1>3. \A k \in DOMAIN s : s[k] \in State
  BY <1>1, <1>2 DEF Over
<1>4. DOMAIN s \subseteq Key
  BY DEF Over, StateMap
<1>5. s = [k \in DOMAIN s |-> s[k]]
  BY DEF Over
<1> HIDE DEF s
<1>6. s \in [DOMAIN s -> State]
  BY <1>3, <1>5
<1>7. QED BY <1>4, <1>6 DEF s, StateMap

LEMMA SameSample ==
  ASSUME NEW q, NEW m, NEW n, NEW k \in Key, NEW j \in Key, NEW w, NEW x, NEW a,
         WalkInv(k, q, m, w), WalkInv(j, q, n, x), a \in w.samples, a \in x.samples
  PROVE  k = j
BY DEF WalkInv

LEMMA BatchAdds ==
  ASSUME NEW q \in Seq(Frame), InOrder(q), NEW m \in Nat, NEW n \in Nat, m <= n, n <= Len(q),
         NEW c, StateMap(c), Carries(c, q, m), NEW o, o = Replay(SubSeq(q, m + 1, n), c)
  PROVE  /\ AllSaid(q, n) = AllSaid(q, m) \cup o.verdicts
         /\ AllShown(q, n) = AllShown(q, m) \cup o.samples
         /\ AllShown(q, m) \cap o.samples = {}
         /\ Carries(Over(o.states, c), q, n)
<1> DEFINE p == SubSeq(q, m + 1, n)
           E(k) == Walked(k, p, c)
           K == KeysIn(p)
<1>0. p \in Seq(Frame) /\ m \in 0..Len(q) /\ n \in 0..Len(q)
  <2>1. p \in Seq(Frame)
    BY PartFacts
  <2>2. QED BY <2>1
<1>1. K \subseteq Key
  BY <1>0, KeysTyped
<1>2. ASSUME NEW k \in Key
      PROVE  /\ Adds(End(k, q, m), E(k), End(k, q, n))
             /\ k \notin K => End(k, q, n) = End(k, q, m) /\ E(k).samples = {} /\ E(k).verdicts = {}
  BY KeyGoesOn
<1>3. /\ o.verdicts = UNION {E(k).verdicts : k \in K}
      /\ o.samples = UNION {E(k).samples : k \in K}
      /\ DOMAIN o.states = {k \in K : E(k).live}
      /\ \A k \in DOMAIN o.states : o.states[k] = StateOf(E(k))
  BY ReplayParts
<1>4. \A k \in Key : /\ WalkInv(k, q, m, End(k, q, m)) /\ WalkInv(k, q, n, End(k, q, n))
                     /\ End(k, q, m) \in WState /\ End(k, q, n) \in WState
  BY <1>0, EndInv
<1> HIDE DEF E, K
<1>5. \A k \in Key : /\ End(k, q, n).verdicts = End(k, q, m).verdicts \cup E(k).verdicts
                     /\ End(k, q, n).samples = End(k, q, m).samples \cup E(k).samples
                     /\ k \notin K => E(k).samples = {} /\ E(k).verdicts = {}
  BY <1>2 DEF Adds
<1>6. AllSaid(q, n) = AllSaid(q, m) \cup o.verdicts
  <2>1. ASSUME NEW r \in AllSaid(q, n) PROVE r \in AllSaid(q, m) \cup o.verdicts
    <3>1. PICK k \in Key : r \in End(k, q, n).verdicts
      BY DEF AllSaid
    <3>2. r \in End(k, q, m).verdicts \/ (r \in E(k).verdicts /\ k \in K)
      BY <1>5, <3>1
    <3>3. QED BY <1>3, <3>2 DEF AllSaid
  <2>2. ASSUME NEW r \in AllSaid(q, m) PROVE r \in AllSaid(q, n)
    BY <1>5 DEF AllSaid
  <2>3. ASSUME NEW r \in o.verdicts PROVE r \in AllSaid(q, n)
    <3>1. PICK k \in K : r \in E(k).verdicts
      BY <1>3
    <3>2. r \in End(k, q, n).verdicts /\ k \in Key
      BY <1>1, <1>5, <3>1
    <3>3. QED BY <3>2 DEF AllSaid
  <2>4. QED BY <2>1, <2>2, <2>3
<1>7. AllShown(q, n) = AllShown(q, m) \cup o.samples
  <2>1. ASSUME NEW r \in AllShown(q, n) PROVE r \in AllShown(q, m) \cup o.samples
    <3>1. PICK k \in Key : r \in End(k, q, n).samples
      BY DEF AllShown
    <3>2. r \in End(k, q, m).samples \/ (r \in E(k).samples /\ k \in K)
      BY <1>5, <3>1
    <3>3. QED BY <1>3, <3>2 DEF AllShown
  <2>2. ASSUME NEW r \in AllShown(q, m) PROVE r \in AllShown(q, n)
    BY <1>5 DEF AllShown
  <2>3. ASSUME NEW r \in o.samples PROVE r \in AllShown(q, n)
    <3>1. PICK k \in K : r \in E(k).samples
      BY <1>3
    <3>2. r \in End(k, q, n).samples /\ k \in Key
      BY <1>1, <1>5, <3>1
    <3>3. QED BY <3>2 DEF AllShown
  <2>4. QED BY <2>1, <2>2, <2>3
<1>8. ASSUME NEW a \in AllShown(q, m), a \in o.samples PROVE FALSE
  <2>1. PICK j \in Key : a \in End(j, q, m).samples
    BY DEF AllShown
  <2>2. PICK k \in K : a \in E(k).samples
    BY <1>3, <1>8
  <2>3. k \in Key
    BY <1>1
  <2>4. a \in End(k, q, n).samples
    BY <1>5, <2>2, <2>3
  <2>5. WalkInv(j, q, m, End(j, q, m)) /\ WalkInv(k, q, n, End(k, q, n))
    BY <1>4, <2>3
  <2>6. j = k
    BY <2>1, <2>3, <2>4, <2>5, SameSample
  <2> DEFINE w == End(k, q, m)
  <2>7. a \in w.samples /\ w \in WState /\ WalkInv(k, q, m, w) /\ Adds(w, E(k), End(k, q, n))
    BY <1>2, <1>4, <2>1, <2>3, <2>6
  <2> HIDE DEF w
  <2>8. w.live /\ a.second <= w.last
    BY <2>7 DEF WalkInv
  <2>9. w.last < a.second
    BY <2>2, <2>7, <2>8 DEF Adds
  <2>10. w.last \in Int
    BY <2>7, LastIsInt
  <2>11. a \in Sample
    BY <2>7 DEF WState
  <2>12. a.second \in Second
    BY <2>11 DEF Sample
  <2>13. a.second \in Nat
    BY <2>12, Constants
  <2>14. QED BY <2>8, <2>9, <2>10, <2>13
<1>9. Carries(Over(o.states, c), q, n)
  <2> DEFINE s == Over(o.states, c)
  <2>0. /\ DOMAIN s = DOMAIN o.states \cup DOMAIN c
        /\ \A k \in DOMAIN o.states : s[k] = o.states[k]
        /\ \A k \in DOMAIN c : k \notin DOMAIN o.states => s[k] = c[k]
    BY DEF Over
  <2> HIDE DEF s
  <2>1. DOMAIN s = {k \in K : E(k).live} \cup DOMAIN c
    BY <1>3, <2>0
  <2>2. \A k \in Key : Alike(End(k, q, n), E(k)) /\ (End(k, q, m).live => E(k).live)
    BY <1>2 DEF Adds
  <2>3. \A k \in Key : k \notin K => End(k, q, n) = End(k, q, m)
    BY <1>2
  <2>4. DOMAIN c = {k \in Key : End(k, q, m).live} /\ \A k \in DOMAIN c : c[k] = StateOf(End(k, q, m))
    BY DEF Carries
  <2>5. \A k \in Key : End(k, q, n).live = E(k).live /\ StateOf(End(k, q, n)) = StateOf(E(k))
    BY <2>2 DEF Alike, StateOf
  <2>6. DOMAIN s = {k \in Key : End(k, q, n).live}
    <3>1. \A k \in DOMAIN s : k \in Key /\ End(k, q, n).live
      BY <1>1, <2>1, <2>2, <2>4, <2>5
    <3>2. \A k \in Key : End(k, q, n).live => k \in DOMAIN s
      BY <2>1, <2>3, <2>4, <2>5
    <3>3. QED BY <3>1, <3>2
  <2>7. ASSUME NEW k \in DOMAIN s PROVE s[k] = StateOf(End(k, q, n))
    <3>0. k \in Key
      BY <2>6
    <3>1. CASE k \in DOMAIN o.states
      <4>1. s[k] = o.states[k]
        BY <2>0, <3>1
      <4>2. QED BY <1>3, <2>5, <3>0, <3>1, <4>1
    <3>2. CASE k \notin DOMAIN o.states
      <4>1. k \in DOMAIN c /\ k \notin K
        BY <1>3, <2>1, <2>2, <2>4, <3>0, <3>2
      <4>2. s[k] = c[k]
        BY <2>0, <3>2, <4>1
      <4>3. QED BY <2>3, <2>4, <3>0, <4>1, <4>2
    <3>3. QED BY <3>1, <3>2
  <2>8. Carries(s, q, n)
    BY <2>6, <2>7 DEF Carries
  <2>9. QED BY <2>8 DEF s
<1>10. QED BY <1>6, <1>7, <1>8, <1>9

-----------------------------------------------------------------------------
(* What the walks over the first frames of a list say of them *)

LEMMA SaidOfAll ==
  ASSUME NEW q \in Seq(Frame), InOrder(q), NEW m \in 0..Len(q)
  PROVE  Named(AllSaid(q, m)) = {q[j].n : j \in 1..m}
<1>1. \A k \in Key : Named(End(k, q, m).verdicts) = {q[j].n : j \in Own(k, q, m)}
  BY EndInv DEF WalkInv
<1>2. ASSUME NEW k \in Key, NEW r \in End(k, q, m).verdicts
      PROVE  r[1] \in {q[j].n : j \in 1..m}
  <2>1. r[1] \in Named(End(k, q, m).verdicts)
    BY DEF Named
  <2>2. r[1] \in {q[j].n : j \in Own(k, q, m)}
    BY <1>1, <2>1
  <2>3. QED BY <2>2 DEF Own
<1>3. ASSUME NEW j \in 1..m PROVE q[j].n \in Named(AllSaid(q, m))
  <2>1. j \in DOMAIN q /\ q[j] \in Frame
    OBVIOUS
  <2> DEFINE k == KeyOf(q[j])
  <2>2. k \in Key
    BY <2>1 DEF Frame, KeyOf, Key
  <2>3. j \in Own(k, q, m)
    BY DEF Own
  <2> HIDE DEF k
  <2>4. q[j].n \in Named(End(k, q, m).verdicts)
    BY <1>1, <2>2, <2>3
  <2>5. PICK r \in End(k, q, m).verdicts : r[1] = q[j].n
    BY <2>4 DEF Named
  <2>6. r \in AllSaid(q, m)
    BY <2>2 DEF AllSaid
  <2>7. QED BY <2>5, <2>6 DEF Named
<1>4. Named(AllSaid(q, m)) \subseteq {q[j].n : j \in 1..m}
  BY <1>2 DEF Named, AllSaid
<1>5. QED BY <1>3, <1>4

LEMMA ShownFacts ==
  ASSUME NEW q \in Seq(Frame), InOrder(q), NEW m \in 0..Len(q), NEW a \in AllShown(q, m)
  PROVE  \E k \in Key : /\ a \in End(k, q, m).samples /\ <<a.symbol, a.conn>> = k
                        /\ a \in Sample /\ a.second \in Nat
                        /\ \E l \in 1..m : \E j \in 1..m : Between(k, q, a, j, l)
<1>1. PICK k \in Key : a \in End(k, q, m).samples
  BY DEF AllShown
<1>2. End(k, q, m) \in WState /\ WalkInv(k, q, m, End(k, q, m))
  BY EndInv
<1>3. a \in Sample
  BY <1>1, <1>2 DEF WState
<1>4. a.second \in Second
  BY <1>3 DEF Sample
<1>5. a.second \in Nat
  BY <1>4, Constants
<1>6. <<a.symbol, a.conn>> = k /\ Shown(k, q, m, a)
  BY <1>1, <1>2 DEF WalkInv
<1>7. QED BY <1>1, <1>3, <1>5, <1>6 DEF Shown

LEMMA FrameNumbers ==
  ASSUME NEW f \in Frame
  PROVE  f.n \in Nat /\ f.second \in Nat /\ f.conn \in Nat
<1>1. f.n \in Change /\ f.second \in Second /\ f.conn \in Conn
  BY DEF Frame
<1>2. QED BY <1>1, Constants

LEMMA ConnsApart ==
  ASSUME NEW q \in Seq(Frame), InOrder(q), NEW i \in DOMAIN q, NEW j \in DOMAIN q,
         q[i].conn < q[j].conn
  PROVE  i < j /\ q[i].second <= q[j].second
<1>1. i \in Int /\ j \in Int /\ q[i] \in Frame /\ q[j] \in Frame
  OBVIOUS
<1>2. q[i].conn \in Nat /\ q[j].conn \in Nat
  BY <1>1, FrameNumbers
<1>3. ~(j < i)
  BY <1>2 DEF InOrder
<1>4. i # j
  BY <1>2
<1>5. i < j
  BY <1>1, <1>3, <1>4
<1>6. QED BY <1>5 DEF InOrder

LEMMA NoSecondOfTwoConns ==
  ASSUME NEW q \in Seq(Frame), InOrder(q), NEW m \in 0..Len(q),
         NEW k, NEW h, NEW a, NEW b, NEW i \in 1..m, NEW j \in 1..m, NEW l \in 1..m, NEW o \in 1..m,
         Between(k, q, a, j, i), Between(h, q, b, o, l), a.second \in Nat, b.second \in Nat,
         a.second = b.second
  PROVE  ~(k[2] < h[2])
<1> SUFFICES ASSUME k[2] < h[2] PROVE FALSE
  OBVIOUS
<1>1. KeyOf(q[i]) = k /\ a.second < q[i].second
  BY DEF Between
<1>2. KeyOf(q[o]) = h /\ q[o].second <= b.second
  BY DEF Between, LastOwn
<1>3. i \in DOMAIN q /\ o \in DOMAIN q
  OBVIOUS
<1>4. q[i].conn = k[2] /\ q[o].conn = h[2]
  BY <1>1, <1>2 DEF KeyOf
<1>5. q[i].second <= q[o].second
  BY <1>3, <1>4, ConnsApart
<1>6. q[i].second \in Nat /\ q[o].second \in Nat
  BY <1>3, FrameNumbers
<1>7. QED BY <1>1, <1>2, <1>5, <1>6

LEMMA OneShownPerSecond ==
  ASSUME NEW q \in Seq(Frame), InOrder(q), NEW m \in 0..Len(q),
         NEW a \in AllShown(q, m), NEW b \in AllShown(q, m),
         a.symbol = b.symbol, a.second = b.second
  PROVE  a = b
<1>1. PICK k \in Key : /\ a \in End(k, q, m).samples /\ <<a.symbol, a.conn>> = k
                       /\ a \in Sample /\ a.second \in Nat
                       /\ \E l \in 1..m : \E j \in 1..m : Between(k, q, a, j, l)
  BY ShownFacts
<1>2. PICK h \in Key : /\ b \in End(h, q, m).samples /\ <<b.symbol, b.conn>> = h
                       /\ b \in Sample /\ b.second \in Nat
                       /\ \E l \in 1..m : \E j \in 1..m : Between(h, q, b, j, l)
  BY ShownFacts
<1>3. CASE k = h
  <2>1. WalkInv(k, q, m, End(k, q, m))
    BY EndInv
  <2>2. QED BY <1>1, <1>2, <1>3, <2>1 DEF WalkInv
<1>4. CASE k # h
  <2>1. k[2] = a.conn /\ h[2] = b.conn /\ a.conn # b.conn
    BY <1>1, <1>2, <1>4
  <2>2. a.conn \in Conn /\ b.conn \in Conn
    BY <1>1, <1>2 DEF Sample
  <2>3. a.conn \in Nat /\ b.conn \in Nat
    BY <2>2, Constants
  <2>4. k[2] < h[2] \/ h[2] < k[2]
    BY <2>1, <2>3
  <2>5. ~(k[2] < h[2]) /\ ~(h[2] < k[2])
    BY <1>1, <1>2, NoSecondOfTwoConns
  <2>6. QED BY <2>4, <2>5
<1>5. QED BY <1>3, <1>4

\* A sample and the frame heard last.
LEMMA ShownIsLastHeard ==
  ASSUME NEW q \in Seq(Frame), InOrder(q), NEW m \in 0..Len(q),
         NEW a \in AllShown(q, m), a.ok = "true"
  PROVE  \E i \in DOMAIN q :
           /\ KeyOf(q[i]) = <<a.symbol, a.conn>> /\ q[i].second <= a.second /\ TopTen(a.book) = TopTen(q[i].truth)
           /\ \A j \in DOMAIN q : KeyOf(q[j]) = <<a.symbol, a.conn>> /\ q[j].second <= a.second
                => q[j].n <= q[i].n
<1>1. PICK k \in Key : /\ <<a.symbol, a.conn>> = k /\ a.second \in Nat
                       /\ \E l \in 1..m : \E j \in 1..m : Between(k, q, a, j, l)
  BY ShownFacts
<1>2. PICK l \in 1..m, i \in 1..m : Between(k, q, a, i, l)
  BY <1>1
<1>3. /\ i \in 1..(l - 1) /\ KeyOf(q[i]) = k /\ q[i].second <= a.second /\ a.second < q[l].second
      /\ TopTen(a.book) = TopTen(q[i].truth) /\ \A j \in 1..(l - 1) : KeyOf(q[j]) = k => j <= i
  BY <1>2 DEF Between, LastOwn
<1>4. i \in DOMAIN q /\ l \in DOMAIN q
  OBVIOUS
<1>5. ASSUME NEW j \in DOMAIN q, KeyOf(q[j]) = k, q[j].second <= a.second
      PROVE  q[j].n <= q[i].n
  <2>1. j \in 1..Len(q) /\ j \in Nat /\ i \in Nat /\ l \in Nat
    OBVIOUS
  <2>2. q[j].second \in Nat /\ q[l].second \in Nat /\ q[i].n \in Nat /\ q[j].n \in Nat
    BY <1>4, FrameNumbers
  <2>3. j # l /\ ~(l < j)
    <3>1. ~(q[l].second <= q[j].second)
      <4>1. a.second \in Nat /\ a.second < q[l].second
        BY <1>1, <1>3
      <4>2. q[j].second <= a.second
        BY <1>5
      <4>3. QED BY <2>2, <4>1, <4>2
    <3>2. q[l].second <= q[l].second
      BY <2>2
    <3>3. QED BY <1>4, <3>1, <3>2 DEF InOrder
  <2>4. j \in 1..(l - 1)
    BY <2>1, <2>3
  <2>5. j <= i
    BY <1>3, <1>5, <2>4
  <2>6. j = i \/ j < i
    BY <2>1, <2>5
  <2>7. j < i => q[j].n < q[i].n
    BY <1>4 DEF InOrder
  <2>8. QED BY <2>2, <2>6, <2>7
<1>6. QED BY <1>1, <1>3, <1>4, <1>5

-----------------------------------------------------------------------------
(* The last frames of seconds, and the frames of a day *)

\* No day lies on both sides of m.
DayBreak(q, m) == \A i, j \in DOMAIN q : i <= m /\ m < j => DayOf(q[i]) < DayOf(q[j])

LEMMA LastOfSecondSplits ==
  ASSUME NEW q \in Seq(Frame), NEW m \in Nat, NEW n \in Nat, m <= n, n <= Len(q)
  PROVE  LastOfSecond(SubSeq(q, 1, n)) \subseteq
           LastOfSecond(SubSeq(q, 1, m)) \cup LastOfSecond(SubSeq(q, m + 1, n))
<1> DEFINE a == SubSeq(q, 1, m)
           p == SubSeq(q, m + 1, n)
           b == SubSeq(q, 1, n)
           Alone(s, j) == \A k \in j + 1 .. Len(s) : s[k].symbol # s[j].symbol \/ s[k].second # s[j].second
           Row(f) == [symbol |-> f.symbol, conn |-> f.conn, second |-> f.second,
                      book |-> {f.n}, ok |-> Unverified]
<1>1. m \in 0..Len(q) /\ n \in 0..Len(q)
  OBVIOUS
<1>2. Len(a) = m /\ DOMAIN a = 1..m /\ \A i \in 1..m : a[i] = q[i]
  BY <1>1, PrefixFacts
<1>3. Len(b) = n /\ DOMAIN b = 1..n /\ \A i \in 1..n : b[i] = q[i]
  BY <1>1, PrefixFacts
<1>4. Len(p) = n - m /\ DOMAIN p = 1..(n - m) /\ \A i \in 1..(n - m) : p[i] = q[m + i]
  BY PartFacts
<1>5. \A s : \A x : x \in LastOfSecond(s) <=> \E i \in DOMAIN s : Alone(s, i) /\ x = Row(s[i])
  BY DEF LastOfSecond
<1> HIDE DEF a, b, p, Row
<1> SUFFICES ASSUME NEW x \in LastOfSecond(b) PROVE x \in LastOfSecond(a) \cup LastOfSecond(p)
  BY DEF a, b, p
<1>6. PICK i \in 1..n : Alone(b, i) /\ x = Row(b[i])
  BY <1>3, <1>5
<1>7. CASE i <= m
  <2>1. i \in 1..m /\ b[i] = a[i]
    BY <1>2, <1>3, <1>7
  <2>2. \A k \in i + 1 .. m : k \in i + 1 .. n /\ b[k] = a[k]
    BY <1>2, <1>3
  <2>3. Alone(a, i)
    BY <1>2, <1>3, <1>6, <2>1, <2>2
  <2>4. QED BY <1>2, <1>5, <1>6, <2>1, <2>3
<1>8. CASE m < i
  <2> DEFINE j == i - m
  <2>1. j \in 1..(n - m) /\ m + j = i
    BY <1>8
  <2>2. b[i] = p[j]
    BY <1>3, <1>4, <2>1
  <2>3. \A k \in j + 1 .. n - m : m + k \in i + 1 .. n /\ b[m + k] = p[k]
    <3> TAKE k \in j + 1 .. n - m
    <3>1. k \in 1..(n - m) /\ m + k \in i + 1 .. n /\ m + k \in 1..n
      BY <2>1
    <3>2. QED BY <1>3, <1>4, <3>1
  <2> HIDE DEF j
  <2>4. Alone(p, j)
    <3> SUFFICES ASSUME NEW k \in j + 1 .. Len(p)
                 PROVE  p[k].symbol # p[j].symbol \/ p[k].second # p[j].second
      OBVIOUS
    <3>1. m + k \in i + 1 .. Len(b) /\ b[m + k] = p[k]
      BY <1>3, <1>4, <2>3
    <3>2. b[m + k].symbol # b[i].symbol \/ b[m + k].second # b[i].second
      BY <1>6, <3>1
    <3>3. QED BY <2>2, <3>1, <3>2
  <2>5. QED BY <1>4, <1>5, <1>6, <2>1, <2>2, <2>4
<1>9. QED BY <1>7, <1>8

DayTurn(d, s, f) == IF DayOf(f) = d THEN Append(s, f) ELSE s
DayFold(d, q) == FoldLeft(LAMBDA s, f : DayTurn(d, s, f), <<>>, q)

IsDayFold(d, q, G) ==
  G = [S \in SUBSET DOMAIN q |-> IF S = {} THEN <<>> ELSE DayTurn(d, G[S \ {Max(S)}], q[Max(S)])]

IsDayRun(d, q, F) ==
  /\ F[0] = <<>>
  /\ \A i \in 1..Len(q) : F[i] = DayTurn(d, F[i - 1], q[i])
  /\ DayFold(d, q) = F[Len(q)]

LEMMA DayRuns ==
  ASSUME NEW d, NEW q \in Seq(Frame)
  PROVE  \E F : IsDayRun(d, q, F)
<1> DEFINE N == Len(q)
           A == Seq(Frame)
           step == [p \in (1..N) \X A |-> DayTurn(d, p[2], q[p[1]])]
<1>1. N \in Nat /\ DOMAIN q = 1..N /\ <<>> \in A
  OBVIOUS
<1>2. \A i \in 1..N : q[i] \in Frame
  OBVIOUS
<1> HIDE DEF N
<1>3. ASSUME NEW i \in 1..N, NEW a \in A
      PROVE  step[<<i, a>>] = DayTurn(d, a, q[i]) /\ step[<<i, a>>] \in A
  <2>1. Append(a, q[i]) \in A
    BY <1>2
  <2> HIDE DEF A
  <2>2. step[<<i, a>>] = DayTurn(d, a, q[i])
    OBVIOUS
  <2>3. QED BY <2>1, <2>2 DEF DayTurn
<1> HIDE DEF step, A
<1>4. PICK G \in [SUBSET (1..N) -> A] : Steps(N, <<>>, step, G)
  <2>1. HasFold(N, A, <<>>, step)
    BY <1>1, <1>3, FoldExists
  <2>2. QED BY <2>1 DEF HasFold
<1>5. IsDayFold(d, q, G)
  <2>1. ASSUME NEW S \in SUBSET (1..N)
        PROVE  G[S] = IF S = {} THEN <<>> ELSE DayTurn(d, G[S \ {Max(S)}], q[Max(S)])
    <3>1. CASE S = {}
      BY <1>4, <3>1 DEF Steps
    <3>2. CASE S # {}
      <4>1. Max(S) \in 1..N
        BY <1>1, <3>2, Maximum
      <4>2. G[S \ {Max(S)}] \in A
        BY <1>4
      <4>3. G[S] = step[<<Max(S), G[S \ {Max(S)}]>>]
        BY <1>4, <3>2 DEF Steps
      <4>4. QED BY <1>3, <3>2, <4>1, <4>2, <4>3
    <3>3. QED BY <3>1, <3>2
  <2>2. QED BY <1>1, <1>4, <2>1 DEF IsDayFold
<1>6. PICK H : H = CHOOSE K : IsDayFold(d, q, K)
  OBVIOUS
<1>7. IsDayFold(d, q, H)
  BY <1>5, <1>6
<1>8. DayFold(d, q) = H[DOMAIN q]
  BY <1>6 DEF FoldLeft, MapThenFoldSet, DayFold, IsDayFold
<1>9. \A S \in SUBSET (1..N) : H[S] = IF S = {} THEN <<>> ELSE DayTurn(d, H[S \ {Max(S)}], q[Max(S)])
  BY <1>1, <1>7 DEF IsDayFold
<1> DEFINE F == [i \in 0..N |-> H[1..i]]
<1>10. F[0] = <<>>
  <2>1. 1..0 = {} /\ 0 \in 0..N
    BY <1>1
  <2>2. H[{}] = <<>>
    BY <1>9
  <2>3. QED BY <2>1, <2>2
<1>11. ASSUME NEW i \in 1..N PROVE F[i] = DayTurn(d, F[i - 1], q[i])
  <2>1. i \in Nat \ {0} /\ i \in 0..N /\ i - 1 \in 0..N
    BY <1>1
  <2>2. Max(1..i) = i /\ (1..i) \ {i} = 1..(i - 1)
    BY <2>1, MaximumOfRange
  <2>3. 1..i \in SUBSET (1..N) /\ 1..i # {}
    <3>1. i \in 1..i /\ \A x \in 1..i : x \in 1..N
      BY <1>1, <2>1
    <3>2. QED BY <3>1
  <2>4. H[1..i] = DayTurn(d, H[1..(i - 1)], q[i])
    BY <1>9, <2>2, <2>3
  <2>5. QED BY <2>1, <2>4
<1>12. F[N] = H[DOMAIN q]
  BY <1>1
<1> HIDE DEF F
<1>13. QED BY <1>8, <1>10, <1>11, <1>12 DEF N, IsDayRun

LEMMA OfDayFolds ==
  ASSUME NEW v, NEW d
  PROVE  OfDay(v, d) = DayFold(d, bronze[v])
BY DEF OfDay, DayFold, DayTurn

LEMMA DaysInOrder ==
  ASSUME NEW q \in Seq(Frame), InOrder(q)
  PROVE  /\ \A i \in DOMAIN q : DayOf(q[i]) \in Nat
         /\ \A i, j \in DOMAIN q : i < j => DayOf(q[i]) <= DayOf(q[j])
<1>1. \A i \in DOMAIN q : q[i].second \in Nat
  <2>1. \A i \in DOMAIN q : q[i] \in Frame
    OBVIOUS
  <2>2. QED BY <2>1, FrameNumbers
<1>2. DaySeconds \in Nat \ {0}
  BY Constants
<1>3. \A x, y \in Nat : x \div DaySeconds \in Nat /\ (x <= y => x \div DaySeconds <= y \div DaySeconds)
  BY <1>2, SMTT(30)
<1>4. \A i, j \in DOMAIN q : i < j => q[i].second <= q[j].second
  BY DEF InOrder
<1>5. QED BY <1>1, <1>3, <1>4 DEF DayOf

LEMMA EmptyPart ==
  ASSUME NEW q, NEW m \in Nat
  PROVE  SubSeq(q, m + 1, m) = <<>>
OBVIOUS

LEMMA PartGrows ==
  ASSUME NEW A, NEW q \in Seq(A), NEW m \in Nat, NEW i \in Nat, m <= i, i + 1 <= Len(q)
  PROVE  SubSeq(q, m + 1, i + 1) = Append(SubSeq(q, m + 1, i), q[i + 1])
<1> DEFINE s == SubSeq(q, m + 1, i)
           u == SubSeq(q, m + 1, i + 1)
<1>1. s \in Seq(A) /\ Len(s) = i - m /\ \A j \in 1..(i - m) : s[j] = q[m + j]
  <2>1. i <= Len(q)
    OBVIOUS
  <2>2. QED BY <2>1, PartFacts
<1>2. u \in Seq(A) /\ Len(u) = (i + 1) - m /\ \A j \in 1..((i + 1) - m) : u[j] = q[m + j]
  <2> DEFINE n == i + 1
  <2>1. n \in Nat /\ m <= n /\ n <= Len(q)
    OBVIOUS
  <2> HIDE DEF n
  <2>2. LET p == SubSeq(q, m + 1, n) IN
          p \in Seq(A) /\ Len(p) = n - m /\ \A j \in 1..(n - m) : p[j] = q[m + j]
    BY <2>1, PartFacts
  <2>3. QED BY <2>2 DEF n
<1>3. q[i + 1] \in A
  OBVIOUS
<1> HIDE DEF s, u
<1> DEFINE t == Append(s, q[i + 1])
<1>4. t \in Seq(A) /\ Len(t) = Len(s) + 1 /\ (\A j \in 1..Len(s) : t[j] = s[j]) /\ t[Len(s) + 1] = q[i + 1]
  BY <1>1, <1>3, AppendFacts
<1> HIDE DEF t
<1>5. (i + 1) - m = (i - m) + 1 /\ m + ((i - m) + 1) = i + 1
      /\ \A j \in 1..((i - m) + 1) : j \in 1..(i - m) \/ j = (i - m) + 1
  OBVIOUS
<1>6. \A j \in 1..((i - m) + 1) : u[j] = t[j]
  BY <1>1, <1>2, <1>4, <1>5
<1>7. u = t
  BY <1>1, <1>2, <1>4, <1>5, <1>6, SameList
<1>8. QED BY <1>7 DEF s, t, u

\* The frames of a day are those from the first to the last of it.
LEMMA DayIsPart ==
  ASSUME NEW q \in Seq(Frame), NEW d, NEW m \in Nat, NEW n \in Nat, m < n, n <= Len(q),
         \A i \in DOMAIN q : DayOf(q[i]) = d <=> (m < i /\ i <= n)
  PROVE  DayFold(d, q) = SubSeq(q, m + 1, n)
<1>1. PICK F : IsDayRun(d, q, F)
  BY DayRuns
<1> DEFINE Upto(i) == SubSeq(q, m + 1, i)
           P == {i \in Nat : i <= Len(q) =>
                   F[i] = IF i <= m THEN <<>> ELSE IF i <= n THEN Upto(i) ELSE Upto(n)}
<1>2. DOMAIN q = 1..Len(q) /\ Len(q) \in Nat
  OBVIOUS
<1>3. ASSUME NEW i \in Nat, m <= i, i + 1 <= n
      PROVE  Upto(i + 1) = Append(IF i <= m THEN <<>> ELSE Upto(i), q[i + 1])
  <2>1. i + 1 <= Len(q)
    BY <1>3
  <2>2. Upto(i + 1) = Append(Upto(i), q[i + 1])
    BY <1>3, <2>1, PartGrows
  <2>3. i <= m => i = m
    BY <1>3
  <2>4. Upto(m) = <<>>
    BY EmptyPart
  <2>5. QED BY <2>2, <2>3, <2>4
<1>4. 0 \in P
  BY <1>1 DEF IsDayRun
<1> HIDE DEF Upto
<1>5. ASSUME NEW i \in Nat, i \in P PROVE i + 1 \in P
  <2> SUFFICES ASSUME i + 1 <= Len(q)
               PROVE  F[i + 1] = IF i + 1 <= m THEN <<>> ELSE IF i + 1 <= n THEN Upto(i + 1) ELSE Upto(n)
    OBVIOUS
  <2>1. i + 1 \in 1..Len(q) /\ i + 1 \in DOMAIN q /\ (i + 1) - 1 = i /\ i <= Len(q)
    BY <1>2
  <2>2. F[i + 1] = DayTurn(d, F[i], q[i + 1])
    BY <1>1, <2>1 DEF IsDayRun
  <2>3. F[i] = IF i <= m THEN <<>> ELSE IF i <= n THEN Upto(i) ELSE Upto(n)
    BY <1>5, <2>1
  <2>4. CASE i + 1 <= m
    <3>1. DayOf(q[i + 1]) # d /\ i <= m
      BY <2>1, <2>4
    <3>2. QED BY <2>2, <2>3, <2>4, <3>1 DEF DayTurn
  <2>5. CASE m < i + 1 /\ i + 1 <= n
    <3>1. DayOf(q[i + 1]) = d
      BY <2>1, <2>5
    <3>2. F[i + 1] = Append(F[i], q[i + 1])
      BY <2>2, <3>1 DEF DayTurn
    <3>3. Upto(i + 1) = Append(IF i <= m THEN <<>> ELSE Upto(i), q[i + 1])
      <4>1. m <= i /\ i + 1 <= n
        BY <2>5
      <4>2. QED BY <1>3, <4>1
    <3>4. F[i] = IF i <= m THEN <<>> ELSE Upto(i)
      BY <2>3, <2>5
    <3>5. F[i + 1] = Upto(i + 1)
      BY <3>2, <3>3, <3>4
    <3>6. QED BY <2>5, <3>5
  <2>6. CASE n < i + 1
    <3>1. DayOf(q[i + 1]) # d
      BY <2>1, <2>6
    <3>2. F[i + 1] = F[i]
      BY <2>2, <3>1 DEF DayTurn
    <3>4. CASE i <= n
      <4>1. i = n /\ ~(i <= m)
        BY <2>6, <3>4
      <4>2. QED BY <2>3, <2>6, <3>2, <4>1
    <3>5. CASE n < i
      BY <2>3, <2>6, <3>2, <3>5
    <3>6. QED BY <3>4, <3>5
  <2>7. QED BY <2>4, <2>5, <2>6
<1>6. Nat \subseteq P
  <2> HIDE DEF P
  <2>1. QED BY <1>4, <1>5, SetInduction
<1>7. F[Len(q)] = Upto(n)
  <2>1. Len(q) \in P /\ Len(q) <= Len(q) /\ ~(Len(q) <= m)
    BY <1>2, <1>6
  <2>2. CASE Len(q) <= n
    <3>1. Len(q) = n
      BY <2>2
    <3>2. QED BY <2>1, <3>1
  <2>3. CASE ~(Len(q) <= n)
    BY <2>1, <2>3
  <2>4. QED BY <2>2, <2>3
<1>8. QED BY <1>1, <1>7 DEF IsDayRun, Upto

\* What a rebuild has left of a venue of which the first m frames are typed.
LEMMA LeftFrames ==
  ASSUME NEW v, NEW q \in Seq(Frame), q = bronze[v], InOrder(q), NEW m \in 0..Len(q),
         Named(silver[v].rows) = {q[i].n : i \in 1..m}
  PROVE  \A d : d \in DaysLeft(v) <=> \E i \in DOMAIN q : m < i /\ d = DayOf(q[i])
<1>1. \A i \in DOMAIN q : i \in Nat /\ q[i].n \in Nat
  <2>1. \A i \in DOMAIN q : i \in Nat /\ q[i] \in Frame
    OBVIOUS
  <2>2. QED BY <2>1, FrameNumbers
<1>2. \A i, j \in DOMAIN q : q[i].n = q[j].n => i = j
  <2> SUFFICES ASSUME NEW i \in DOMAIN q, NEW j \in DOMAIN q, q[i].n = q[j].n, i # j PROVE FALSE
    OBVIOUS
  <2>1. i < j \/ j < i
    BY <1>1
  <2>2. q[i].n < q[j].n \/ q[j].n < q[i].n
    BY <2>1 DEF InOrder
  <2>3. QED BY <1>1, <2>2
<1>3. \A i \in DOMAIN q : (\E r \in silver[v].rows : r[1] = q[i].n) <=> i <= m
  <2> TAKE i \in DOMAIN q
  <2>1. (\E r \in silver[v].rows : r[1] = q[i].n) <=> q[i].n \in Named(silver[v].rows)
    BY DEF Named
  <2>2. \A j \in 1..m : j \in DOMAIN q
    OBVIOUS
  <2>3. q[i].n \in {q[j].n : j \in 1..m} <=> i \in 1..m
    BY <1>2, <2>2
  <2>4. i \in 1..m <=> i <= m
    OBVIOUS
  <2>5. QED BY <2>1, <2>3, <2>4
<1>4. \A f : f \in Range(q) \ Typed(v) <=> \E i \in DOMAIN q : ~(i <= m) /\ f = q[i]
  <2>1. \A f : f \in Range(q) <=> \E i \in DOMAIN q : f = q[i]
    BY DEF Range
  <2>2. \A f \in Range(q) : f \in Typed(v) <=> \E r \in silver[v].rows : r[1] = f.n
    BY DEF Typed
  <2>3. QED BY <1>3, <2>1, <2>2
<1>5. \A i \in DOMAIN q : ~(i <= m) <=> m < i
  BY <1>1
<1>6. DaysLeft(v) = {DayOf(f) : f \in Range(q) \ Typed(v)}
  BY DEF DaysLeft
<1>7. QED BY <1>4, <1>5, <1>6

LEMMA NoneLeft ==
  ASSUME NEW v, NEW q \in Seq(Frame), q = bronze[v], InOrder(q), NEW m \in 0..Len(q),
         Named(silver[v].rows) = {q[i].n : i \in 1..m}
  PROVE  DaysLeft(v) = {} <=> m = Len(q)
<1>1. DaysLeft(v) = {} <=> \A i \in DOMAIN q : ~(m < i)
  <2>1. \A d : d \in DaysLeft(v) <=> \E i \in DOMAIN q : m < i /\ d = DayOf(q[i])
    BY LeftFrames
  <2>2. QED BY <2>1
<1>2. DOMAIN q = 1..Len(q) /\ Len(q) \in Nat /\ m \in Nat /\ m <= Len(q)
  OBVIOUS
<1>3. m # Len(q) => Len(q) \in DOMAIN q /\ m < Len(q)
  BY <1>2
<1>4. m = Len(q) => \A i \in DOMAIN q : ~(m < i)
  BY <1>2
<1>5. QED BY <1>1, <1>3, <1>4

LEMMA NextDay ==
  ASSUME NEW v, NEW q \in Seq(Frame), q = bronze[v], InOrder(q), NEW m \in 0..Len(q),
         Named(silver[v].rows) = {q[i].n : i \in 1..m}, DayBreak(q, m), DaysLeft(v) # {}
  PROVE  \E n \in Nat : /\ m < n /\ n <= Len(q) /\ DayBreak(q, n)
                        /\ NextDayOf(v) = SubSeq(q, m + 1, n)
<1>1. \A d : d \in DaysLeft(v) <=> \E i \in DOMAIN q : m < i /\ d = DayOf(q[i])
  BY LeftFrames
<1>2. /\ DOMAIN q = 1..Len(q) /\ Len(q) \in Nat /\ m \in Nat /\ \A i \in DOMAIN q : i \in Nat
  OBVIOUS
<1>3. m # Len(q)
  BY NoneLeft
<1>4. m + 1 \in DOMAIN q /\ m < m + 1 /\ m <= Len(q)
  BY <1>2, <1>3
<1>5. /\ \A i \in DOMAIN q : DayOf(q[i]) \in Nat
      /\ \A i, j \in DOMAIN q : i < j => DayOf(q[i]) <= DayOf(q[j])
  BY DaysInOrder
<1> DEFINE d == DayOf(q[m + 1])
<1>6. d \in DaysLeft(v)
  BY <1>1, <1>4
<1>7. \A i \in DOMAIN q : m < i => d <= DayOf(q[i])
  <2> TAKE i \in DOMAIN q
  <2>1. m < i => m + 1 < i \/ i = m + 1
    BY <1>2
  <2>2. QED BY <1>4, <1>5, <2>1
<1>8. \A e \in DaysLeft(v) : d <= e /\ e \in Nat
  BY <1>1, <1>5, <1>7
<1>9. d \in Nat
  BY <1>4, <1>5
<1> HIDE DEF d
<1>10. (CHOOSE c \in DaysLeft(v) : \A e \in DaysLeft(v) : c <= e) = d
  <2>1. PICK c : c = CHOOSE x \in DaysLeft(v) : \A e \in DaysLeft(v) : x <= e
    OBVIOUS
  <2>2. c \in DaysLeft(v) /\ \A e \in DaysLeft(v) : c <= e
    BY <1>6, <1>8, <2>1
  <2>3. c <= d /\ d <= c /\ c \in Nat
    BY <1>6, <1>8, <2>2
  <2>4. QED BY <1>9, <2>1, <2>3
<1> DEFINE S == {i \in 1..Len(q) : DayOf(q[i]) = d}
           n == Max(S)
<1>11. n \in S /\ \A i \in S : i <= n
  <2>1. m + 1 \in S
    BY <1>2, <1>4 DEF d
  <2>2. S \in SUBSET (1..Len(q)) /\ S # {}
    BY <2>1
  <2> HIDE DEF S
  <2>3. QED BY <1>2, <2>2, Maximum
<1> HIDE DEF n
<1>12. n \in DOMAIN q /\ n \in Nat /\ n <= Len(q) /\ DayOf(q[n]) = d
  BY <1>2, <1>11
<1>13. \A i \in DOMAIN q : DayOf(q[i]) = d => i <= n
  BY <1>2, <1>11
<1>14. m < n
  <2>1. m + 1 <= n
    BY <1>4, <1>13 DEF d
  <2>2. QED BY <1>2, <1>12, <2>1
<1>15. ASSUME NEW i \in DOMAIN q PROVE DayOf(q[i]) = d <=> (m < i /\ i <= n)
  <2>1. CASE i <= m
    <3>1. DayOf(q[i]) < d
      BY <1>4, <2>1 DEF DayBreak, d
    <3>2. QED BY <1>2, <1>5, <1>9, <2>1, <3>1
  <2>2. CASE m < i /\ i <= n
    <3>1. d <= DayOf(q[i])
      BY <1>7, <2>2
    <3>2. i < n \/ i = n
      BY <1>2, <1>12, <2>2
    <3>3. DayOf(q[i]) <= d
      BY <1>5, <1>9, <1>12, <3>2
    <3>4. QED BY <1>5, <1>9, <2>2, <3>1, <3>3
  <2>3. CASE n < i
    BY <1>2, <1>12, <1>13, <2>3
  <2>4. QED BY <1>2, <1>12, <2>1, <2>2, <2>3
<1>16. DayFold(d, q) = SubSeq(q, m + 1, n)
  BY <1>2, <1>12, <1>14, <1>15, DayIsPart
<1>17. NextDayOf(v) = SubSeq(q, m + 1, n)
  BY <1>10, <1>16, OfDayFolds DEF NextDayOf
<1>18. DayBreak(q, n)
  <2> SUFFICES ASSUME NEW i \in DOMAIN q, NEW j \in DOMAIN q, i <= n, n < j
               PROVE  DayOf(q[i]) < DayOf(q[j])
    BY DEF DayBreak
  <2>1. DayOf(q[i]) <= d
    <3>1. i < n \/ i = n
      BY <1>2, <1>12
    <3>2. QED BY <1>5, <1>9, <1>12, <3>1
  <2>2. d <= DayOf(q[j]) /\ DayOf(q[j]) # d
    BY <1>2, <1>5, <1>12, <1>13
  <2>3. QED BY <1>5, <1>9, <2>1, <2>2
<1>19. QED BY <1>12, <1>14, <1>17, <1>18

-----------------------------------------------------------------------------
(* The invariant *)

\* The frames are archived in the order in which they come about.
WorldInv ==
  /\ venueBook \in [Venue -> [Symbols -> SUBSET (1..events)]]
  /\ now \in 0..events /\ conn \in [Venue -> 0..events] /\ events \in 0..MaxEvents
  /\ bronze \in [Venue -> Seq(Frame)]
  /\ \A v \in Venue :
       /\ InOrder(bronze[v])
       /\ \A i \in DOMAIN bronze[v] :
            bronze[v][i].n <= events /\ bronze[v][i].second <= now /\ bronze[v][i].conn <= conn[v]

TablesInv ==
  /\ silver \in [Venue -> [rows : SUBSET (Change \X Verdict), at : Nat]]
  /\ samples \in [Venue -> Seq(SUBSET Sample)] /\ bbo \in [Venue -> Seq(SUBSET Sample)]
  /\ carried = [v \in Venue |-> carried[v]] /\ \A v \in Venue : StateMap(carried[v])
  /\ IsOutput(out)
  /\ gone \in BOOLEAN /\ torn \subseteq Venue /\ todo \in Seq(Job)
  /\ \A v \in Venue : silver[v].at <= Len(bronze[v])

\* A list of jobs: each is one venue's, or drops or creates tables of several, and
\* of two jobs the earlier and the later fit together.
Write(job) == job.do \in {"sample", "project", "carry"}
Rank(job)  == CASE job.do = "sample" -> 1 [] job.do = "project" -> 2 [] OTHER -> 3
OneVenues(a) == a.do \in {"drop", "create"} \/ \E v \in Venue : a = On(a.do, v)
Fits(a, b) ==
  /\ Write(b) => Write(a) /\ a.on = b.on /\ Rank(a) < Rank(b)
  /\ ~(a.do = "type" /\ b.do = "replay") /\ ~(a.do = "replay" /\ b.do = "type")
  /\ b.do # "drop"
  /\ a.do = "replay" => a # b
  /\ a.do = "drop" /\ b.do = "replay" => b.on \subseteq a.on
IsPlan(t) ==
  /\ t \in Seq(Job)
  /\ \A i \in DOMAIN t : OneVenues(t[i])
  /\ \A i, j \in DOMAIN t : i < j => Fits(t[i], t[j])

Has(t, job) == \E i \in DOMAIN t : t[i] = job
Drops(t)    == t # <<>> /\ Head(t).do = "drop"
Redoing(t, v) == Has(t, On("replay", v)) /\ ~Drops(t)
WritesOf(a, v) == Write(a) /\ a.on = {v}
\* A replay of v waits for something else than what a day of v has to write.
Awaits(t, v) == \E i, j \in DOMAIN t : j < i /\ t[i] = On("replay", v) /\ ~WritesOf(t[j], v)

PlanInv ==
  /\ IsPlan(todo)
  /\ \A v \in Venue : Awaits(todo, v) /\ ~Drops(todo) => silver[v].at = 0
  /\ \A v \in Venue : Has(todo, On("project", v)) => Has(todo, On("sample", v)) \/ samples[v] # <<>>

\* The tables as they will be when what is written last has been written.
FullSamples(v) ==
  IF Has(todo, On("sample", v)) THEN Append(samples[v], out.samples) ELSE samples[v]
FullBbo(v) ==
  IF Has(todo, On("project", v)) THEN Append(bbo[v], Last(FullSamples(v))) ELSE bbo[v]
FullCarried(v) ==
  IF Has(todo, On("carry", v)) THEN Over(out.states, carried[v]) ELSE carried[v]

Disjoint(s) == \A i, j \in DOMAIN s : i # j => s[i] \cap s[j] = {}

\* The tables of v hold what one walk over the first m frames writes.
Holds(v, q, m, rows, s, b, c) ==
  /\ b = s
  /\ Named(rows) = {q[i].n : i \in 1..m}
  /\ IF v \in Replayed
     THEN /\ rows = AllSaid(q, m) /\ UNION Range(s) = AllShown(q, m)
          /\ Disjoint(s) /\ Carries(c, q, m)
     ELSE LastOfSecond(SubSeq(q, 1, m)) \subseteq UNION Range(s)

\* The frames covered are those up to the position, but of a rebuild those of its days.
Reach(redo, at, q, m) ==
  IF redo /\ at # 0 THEN at = Len(q) /\ DayBreak(q, m) ELSE m = at

Done(v) ==
  \E m \in 0..Len(bronze[v]) :
    /\ Reach(Redoing(todo, v), silver[v].at, bronze[v], m)
    /\ Holds(v, bronze[v], m, silver[v].rows, FullSamples(v), FullBbo(v), FullCarried(v))

DoneInv == \A v \in Venue \ torn : Done(v)

IInv == WorldInv /\ TablesInv /\ PlanInv /\ DoneInv

-----------------------------------------------------------------------------
(* Lists of jobs *)

LEMMA OnFacts ==
  ASSUME NEW what, NEW v
  PROVE  On(what, v).do = what /\ On(what, v).on = {v}
BY DEF On

LEMMA OnIsOne ==
  ASSUME NEW what, NEW v, NEW other, NEW x, On(what, v) = On(other, x)
  PROVE  what = other /\ v = x
<1>1. On(what, v).do = what /\ On(what, v).on = {v} /\ On(other, x).do = other /\ On(other, x).on = {x}
  BY OnFacts
<1>2. what = other /\ {v} = {x}
  BY <1>1
<1>3. QED BY <1>2

LEMMA OnType ==
  ASSUME NEW what \in {"type", "sample", "project", "carry", "replay"}, NEW v \in Venue
  PROVE  On(what, v) \in Job
<1>1. {v} \in SUBSET Venue
  OBVIOUS
<1>2. QED BY <1>1 DEF On, Job

LEMMA EmptyPlan == IsPlan(<<>>) /\ (\A job : ~Has(<<>>, job)) /\ ~Drops(<<>>) /\ \A v : ~Awaits(<<>>, v)
BY DEF IsPlan, Has, Drops, Awaits

LEMMA PlanTail ==
  ASSUME NEW t, IsPlan(t), t # <<>>
  PROVE  /\ IsPlan(Tail(t)) /\ Head(t) \in Job /\ OneVenues(Head(t)) /\ t \in Seq(Job)
         /\ \A job : Has(t, job) <=> job = Head(t) \/ Has(Tail(t), job)
         /\ \A job : Has(Tail(t), job) => Fits(Head(t), job)
         /\ ~Drops(Tail(t))
         /\ \A v : Awaits(Tail(t), v) => Awaits(t, v)
<1>0. t \in Seq(Job)
  BY DEF IsPlan
<1>1. /\ Tail(t) \in Seq(Job) /\ Head(t) = t[1] /\ Len(Tail(t)) = Len(t) - 1
      /\ 1 \in DOMAIN t /\ DOMAIN t = 1..Len(t) /\ DOMAIN Tail(t) = 1..(Len(t) - 1)
      /\ Len(t) \in Nat /\ Len(t) >= 1
      /\ \A i \in 1..(Len(t) - 1) : Tail(t)[i] = t[i + 1] /\ i + 1 \in DOMAIN t
  BY <1>0, TailFacts
<1> DEFINE s == Tail(t)
<1>2. \A i \in DOMAIN s : s[i] = t[i + 1] /\ i + 1 \in DOMAIN t /\ 1 < i + 1 /\ i \in Nat
  BY <1>1
<1>3. \A i \in DOMAIN t : i = 1 \/ (i - 1 \in DOMAIN s /\ s[i - 1] = t[i])
  <2> TAKE i \in DOMAIN t
  <2>1. i = 1 \/ (i - 1 \in 1..(Len(t) - 1) /\ (i - 1) + 1 = i)
    BY <1>1
  <2>2. QED BY <1>1, <2>1
<1> HIDE DEF s
<1>4. \A i, j \in DOMAIN s : i < j => i + 1 < j + 1
  BY <1>2
<1>5. IsPlan(s)
  <2>1. \A i \in DOMAIN s : OneVenues(s[i])
    BY <1>2 DEF IsPlan
  <2>2. \A i, j \in DOMAIN s : i < j => Fits(s[i], s[j])
    BY <1>2, <1>4 DEF IsPlan
  <2>3. QED BY <1>1, <2>1, <2>2 DEF IsPlan, s
<1>6. \A job : Has(t, job) <=> job = Head(t) \/ Has(s, job)
  BY <1>1, <1>2, <1>3 DEF Has
<1>7. \A job : Has(s, job) => Fits(Head(t), job)
  BY <1>1, <1>2 DEF Has, IsPlan
<1>8. ~Drops(s)
  <2> SUFFICES ASSUME s # <<>> PROVE Head(s).do # "drop"
    BY DEF Drops
  <2>1. s \in Seq(Job)
    BY <1>1 DEF s
  <2>2. Head(s) = s[1] /\ 1 \in DOMAIN s
    BY <2>1, TailFacts
  <2>3. Has(s, Head(s))
    BY <2>2 DEF Has
  <2>4. QED BY <1>7, <2>3 DEF Fits
<1>9. \A v : Awaits(s, v) => Awaits(t, v)
  BY <1>2, <1>4 DEF Awaits
<1>10. Head(t) \in Job /\ OneVenues(Head(t))
  BY <1>0, <1>1 DEF IsPlan
<1>11. QED BY <1>0, <1>5, <1>6, <1>7, <1>8, <1>9, <1>10 DEF s

LEMMA PlanConcat ==
  ASSUME NEW p, NEW s, IsPlan(p), IsPlan(s),
         \A a, b : Has(p, a) /\ Has(s, b) => Fits(a, b)
  PROVE  /\ IsPlan(p \o s)
         /\ \A job : Has(p \o s, job) <=> Has(p, job) \/ Has(s, job)
<1>1. p \in Seq(Job) /\ s \in Seq(Job)
  BY DEF IsPlan
<1> DEFINE t == p \o s
<1>2. /\ t \in Seq(Job) /\ Len(p) \in Nat /\ Len(s) \in Nat
      /\ DOMAIN p = 1..Len(p) /\ DOMAIN s = 1..Len(s)
      /\ DOMAIN t = 1..(Len(p) + Len(s))
      /\ \A i \in DOMAIN t : \/ i \in DOMAIN p /\ t[i] = p[i]
                             \/ i > Len(p) /\ i - Len(p) \in DOMAIN s /\ t[i] = s[i - Len(p)]
      /\ Range(t) = Range(p) \cup Range(s)
  BY <1>1, ConcatFacts
<1> HIDE DEF t
<1>3. \A i \in DOMAIN t : OneVenues(t[i])
  BY <1>2 DEF IsPlan
<1>4. ASSUME NEW i \in DOMAIN t, NEW j \in DOMAIN t, i < j PROVE Fits(t[i], t[j])
  <2>0. i \in Nat /\ j \in Nat
    BY <1>2
  <2>1. CASE i \in DOMAIN p /\ t[i] = p[i]
    <3>1. CASE j \in DOMAIN p /\ t[j] = p[j]
      BY <1>4, <2>1, <3>1 DEF IsPlan
    <3>2. CASE j > Len(p) /\ j - Len(p) \in DOMAIN s /\ t[j] = s[j - Len(p)]
      BY <2>1, <3>2 DEF Has
    <3>3. QED BY <1>2, <3>1, <3>2
  <2>2. CASE i > Len(p) /\ i - Len(p) \in DOMAIN s /\ t[i] = s[i - Len(p)]
    <3>1. j - Len(p) \in DOMAIN s /\ t[j] = s[j - Len(p)]
      <4>1. j > Len(p)
        BY <1>2, <1>4, <2>0, <2>2
      <4>2. j \notin DOMAIN p
        BY <1>2, <2>0, <4>1
      <4>3. QED BY <1>2, <4>2
    <3>2. i - Len(p) < j - Len(p)
      BY <1>2, <1>4, <2>0
    <3>3. QED BY <2>2, <3>1, <3>2 DEF IsPlan
  <2>3. QED BY <1>2, <2>1, <2>2
<1>5. IsPlan(t)
  BY <1>2, <1>3, <1>4 DEF IsPlan
<1>6. \A job, q : Has(q, job) <=> job \in Range(q)
  BY DEF Has, Range
<1>7. \A job : Has(t, job) <=> Has(p, job) \/ Has(s, job)
  BY <1>2, <1>6
<1>8. QED BY <1>5, <1>7 DEF t

\* The jobs a batch of v leaves to do.
LEMMA WritesPlan ==
  ASSUME NEW v \in Venue
  PROVE  /\ IsPlan(Writes(v)) /\ Writes(v) \in Seq(Job) /\ Len(Writes(v)) = 3
         /\ \A job : Has(Writes(v), job) <=> \E what \in {"sample", "project", "carry"} : job = On(what, v)
         /\ \A i \in 1..3 : WritesOf(Writes(v)[i], v)
<1> DEFINE a == On("sample", v)
           b == On("project", v)
           c == On("carry", v)
           t == <<a, b, c>>
<1>1. a \in Job /\ b \in Job /\ c \in Job
  BY OnType
<1>2. a.do = "sample" /\ b.do = "project" /\ c.do = "carry" /\ a.on = {v} /\ b.on = {v} /\ c.on = {v}
  BY OnFacts
<1>3. OneVenues(a) /\ OneVenues(b) /\ OneVenues(c)
  BY <1>2 DEF OneVenues
<1>4. Writes(v) = t
  BY DEF Writes
<1>5. Rank(a) = 1 /\ Rank(b) = 2 /\ Rank(c) = 3 /\ Write(a) /\ Write(b) /\ Write(c)
  BY <1>2 DEF Rank, Write
<1>6. Fits(a, b) /\ Fits(a, c) /\ Fits(b, c)
  <2> HIDE DEF a, b, c
  <2>1. QED BY <1>2, <1>5 DEF Fits
<1>7. \A job : (\E what \in {"sample", "project", "carry"} : job = On(what, v)) <=> job = a \/ job = b \/ job = c
  OBVIOUS
<1> HIDE DEF a, b, c
<1>8. t \in Seq(Job) /\ Len(t) = 3 /\ DOMAIN t = 1..3 /\ t[1] = a /\ t[2] = b /\ t[3] = c
  BY <1>1
<1> HIDE DEF t
<1>9. \A i \in 1..3 : i = 1 \/ i = 2 \/ i = 3
  OBVIOUS
<1>10. \A job : Has(t, job) <=> job = a \/ job = b \/ job = c
  <2>1. 1 \in 1..3 /\ 2 \in 1..3 /\ 3 \in 1..3
    OBVIOUS
  <2>2. QED BY <1>8, <1>9, <2>1 DEF Has
<1>11. IsPlan(t)
  <2>1. \A i \in DOMAIN t : OneVenues(t[i])
    BY <1>3, <1>8, <1>9
  <2>2. \A i, j \in DOMAIN t : i < j => (i = 1 /\ j = 2) \/ (i = 1 /\ j = 3) \/ (i = 2 /\ j = 3)
    BY <1>8
  <2>3. \A i, j \in DOMAIN t : i < j => Fits(t[i], t[j])
    BY <1>6, <1>8, <2>2
  <2>4. QED BY <1>8, <2>1, <2>3 DEF IsPlan
<1>12. \A i \in 1..3 : WritesOf(t[i], v)
  BY <1>2, <1>5, <1>8, <1>9 DEF WritesOf
<1>13. QED BY <1>4, <1>7, <1>8, <1>10, <1>11, <1>12

LEMMA HasAwaits ==
  ASSUME NEW t, NEW x, Awaits(t, x)
  PROVE  Has(t, On("replay", x))
BY DEF Awaits, Has

\* A batch of v in front of other jobs.
LEMMA BatchPlan ==
  ASSUME NEW v \in Venue, NEW s, IsPlan(s), \A a : Has(s, a) => ~Write(a) /\ a.do # "drop",
         NEW t, t = Writes(v) \o s
  PROVE  /\ IsPlan(t) /\ ~Drops(t) /\ t # <<>>
         /\ \A job : Has(t, job) <=> (\E what \in {"sample", "project", "carry"} : job = On(what, v)) \/ Has(s, job)
         /\ \A x : Awaits(t, x) => Has(s, On("replay", x))
         /\ Awaits(t, v) => Awaits(s, v)
<1> DEFINE p == Writes(v)
<1>1. /\ IsPlan(p) /\ p \in Seq(Job) /\ Len(p) = 3
      /\ \A job : Has(p, job) <=> \E what \in {"sample", "project", "carry"} : job = On(what, v)
      /\ \A i \in 1..3 : WritesOf(p[i], v)
  BY WritesPlan
<1> HIDE DEF p
<1>2. \A a : Has(p, a) => a.do \in {"sample", "project", "carry"} /\ Write(a)
  <2>1. \A what : On(what, v).do = what
    BY OnFacts
  <2>2. QED BY <1>1, <2>1 DEF Write
<1>3. \A a, b : Has(p, a) /\ Has(s, b) => Fits(a, b)
  BY <1>2 DEF Fits
<1>4. /\ IsPlan(t)
      /\ \A job : Has(t, job) <=> Has(p, job) \/ Has(s, job)
  BY <1>1, <1>3, PlanConcat DEF p
<1>5. s \in Seq(Job)
  BY DEF IsPlan
<1>6. t = p \o s
  BY DEF p
<1>7. /\ t \in Seq(Job) /\ Len(s) \in Nat
      /\ DOMAIN p = 1..3 /\ DOMAIN s = 1..Len(s) /\ DOMAIN t = 1..(3 + Len(s))
      /\ \A i \in DOMAIN t : \/ i \in DOMAIN p /\ t[i] = p[i]
                             \/ i > 3 /\ i - 3 \in DOMAIN s /\ t[i] = s[i - 3]
  <2>1. /\ p \o s \in Seq(Job) /\ Len(s) \in Nat
        /\ DOMAIN p = 1..Len(p) /\ DOMAIN s = 1..Len(s) /\ DOMAIN (p \o s) = 1..(Len(p) + Len(s))
        /\ \A i \in DOMAIN (p \o s) :
             \/ i \in DOMAIN p /\ (p \o s)[i] = p[i]
             \/ i > Len(p) /\ i - Len(p) \in DOMAIN s /\ (p \o s)[i] = s[i - Len(p)]
    <3>1. p \in Seq(Job) /\ s \in Seq(Job)
      BY <1>1, <1>5
    <3>2. QED BY <3>1, ConcatFacts
  <2>2. Len(p) = 3
    BY <1>1
  <2>3. QED BY <1>6, <2>1, <2>2
<1>8. t # <<>> /\ Head(t) = p[1] /\ 1 \in DOMAIN p
  <2>1. 1 \in DOMAIN t /\ ~(1 > 3)
    BY <1>7
  <2>2. t # <<>>
    BY <2>1
  <2>3. Head(t) = t[1]
    BY <1>7, <2>2, TailFacts
  <2>4. t[1] = p[1] /\ 1 \in DOMAIN p
    BY <1>7, <2>1
  <2>5. QED BY <2>2, <2>3, <2>4
<1>9. ~Drops(t)
  <2>1. Has(p, p[1])
    BY <1>8 DEF Has
  <2>2. p[1].do # "drop"
    BY <1>2, <2>1
  <2>3. QED BY <1>8, <2>2 DEF Drops
<1>10. ASSUME NEW x, Awaits(t, x) PROVE Has(s, On("replay", x))
  <2>1. Has(t, On("replay", x))
    BY <1>10, HasAwaits
  <2>2. On("replay", x).do = "replay"
    BY OnFacts
  <2>3. ~Has(p, On("replay", x))
    BY <1>2, <2>2
  <2>4. QED BY <1>4, <2>1, <2>3
<1>11. ASSUME Awaits(t, v) PROVE Awaits(s, v)
  <2>1. PICK i \in DOMAIN t, j \in DOMAIN t : j < i /\ t[i] = On("replay", v) /\ ~WritesOf(t[j], v)
    BY <1>11 DEF Awaits
  <2>2. j \notin DOMAIN p
    <3>1. j \in DOMAIN p => t[j] = p[j] /\ WritesOf(p[j], v)
      BY <1>1, <1>7
    <3>2. QED BY <2>1, <3>1
  <2>3. j > 3 /\ j - 3 \in DOMAIN s /\ t[j] = s[j - 3]
    BY <1>7, <2>2
  <2>4. i \in Nat /\ j \in Nat
    BY <1>7
  <2>5. i \notin DOMAIN p
    BY <1>7, <2>1, <2>3, <2>4
  <2>6. i - 3 \in DOMAIN s /\ t[i] = s[i - 3]
    BY <1>7, <2>5
  <2>7. j - 3 < i - 3
    BY <2>1, <2>4
  <2>8. QED BY <2>1, <2>3, <2>6, <2>7 DEF Awaits
<1>12. QED BY <1>1, <1>4, <1>8, <1>9, <1>10, <1>11

LEMMA HeadReplay ==
  ASSUME NEW t, IsPlan(t), t # <<>>, NEW v, Head(t) = On("replay", v)
  PROVE  /\ ~Awaits(t, v) /\ ~Has(Tail(t), On("replay", v))
         /\ \A x : x # v /\ Has(t, On("replay", x)) => Awaits(t, x)
         /\ \A a : Has(t, a) => ~Write(a) /\ a.do # "drop" /\ a.do # "type"
<1>1. t \in Seq(Job) /\ \A i, j \in DOMAIN t : i < j => Fits(t[i], t[j])
  BY DEF IsPlan
<1>2. Head(t) = t[1] /\ 1 \in DOMAIN t /\ DOMAIN t = 1..Len(t) /\ Len(t) \in Nat
  BY <1>1, TailFacts
<1>3. \A i \in DOMAIN t : i # 1 => 1 < i
  BY <1>2
<1>4. t[1].do = "replay" /\ ~Write(t[1])
  BY <1>2, OnFacts DEF Write
<1>5. \A i \in DOMAIN t : i # 1 => t[i] # On("replay", v)
  BY <1>1, <1>2, <1>3, <1>4 DEF Fits
<1>6. ~Awaits(t, v)
  <2>1. \A i, j \in DOMAIN t : j < i => i # 1
    BY <1>2
  <2>2. QED BY <1>5, <2>1 DEF Awaits
<1>7. ~Has(Tail(t), On("replay", v))
  <2> SUFFICES ASSUME Has(Tail(t), On("replay", v)) PROVE FALSE
    OBVIOUS
  <2>1. Fits(Head(t), On("replay", v))
    BY PlanTail
  <2>2. QED BY <1>2, <1>4, <2>1 DEF Fits
<1>8. ASSUME NEW x, x # v, Has(t, On("replay", x)) PROVE Awaits(t, x)
  <2>1. PICK i \in DOMAIN t : t[i] = On("replay", x)
    BY <1>8 DEF Has
  <2>2. i # 1
    BY <1>2, <1>8, <2>1, OnIsOne
  <2>3. ~WritesOf(t[1], x)
    BY <1>4 DEF WritesOf
  <2>4. QED BY <1>2, <1>3, <2>1, <2>2, <2>3 DEF Awaits
<1>9. ASSUME NEW a, Has(t, a) PROVE ~Write(a) /\ a.do # "drop" /\ a.do # "type"
  <2>1. PICK i \in DOMAIN t : t[i] = a
    BY <1>9 DEF Has
  <2>2. CASE i = 1
    BY <1>4, <2>1, <2>2
  <2>3. CASE i # 1
    <3>1. Fits(t[1], a)
      BY <1>1, <1>2, <1>3, <2>1, <2>3
    <3>2. QED BY <1>4, <3>1 DEF Fits
  <2>4. QED BY <2>2, <2>3
<1>10. QED BY <1>6, <1>7, <1>8, <1>9

\* One job for each venue of a list.
LEMMA ForEachPlan ==
  ASSUME NEW what \in {"type", "replay"}, NEW vs \in Seq(Venue),
         \A i, j \in DOMAIN vs : vs[i] = vs[j] => i = j, NEW t, t = ForEach(what, vs)
  PROVE  /\ IsPlan(t)
         /\ \A job : Has(t, job) <=> \E i \in DOMAIN vs : job = On(what, vs[i])
         /\ \A job : Has(t, job) => job.do = what /\ \E v \in Range(vs) : job.on = {v}
         /\ ~Drops(t)
<1>1. DOMAIN vs = 1..Len(vs) /\ Len(vs) \in Nat /\ \A i \in DOMAIN vs : vs[i] \in Venue
  OBVIOUS
<1>2. DOMAIN t = DOMAIN vs /\ \A i \in DOMAIN vs : t[i] = On(what, vs[i])
  BY DEF ForEach
<1>3. \A i \in DOMAIN vs : t[i] \in Job /\ t[i].do = what /\ t[i].on = {vs[i]}
  BY <1>1, <1>2, OnFacts, OnType
<1>4. t \in Seq(Job)
  <2>1. t = [i \in 1..Len(vs) |-> t[i]] /\ \A i \in 1..Len(vs) : t[i] \in Job
    BY <1>1, <1>2, <1>3 DEF ForEach
  <2>2. t \in [1..Len(vs) -> Job]
    BY <2>1
  <2>3. QED BY <1>1, <2>2
<1>5. \A i \in DOMAIN t : OneVenues(t[i])
  BY <1>1, <1>2, OnFacts DEF OneVenues
<1>6. \A i, j \in DOMAIN t : i < j => Fits(t[i], t[j])
  <2> SUFFICES ASSUME NEW i \in DOMAIN t, NEW j \in DOMAIN t, i < j PROVE Fits(t[i], t[j])
    OBVIOUS
  <2>1. i # j
    BY <1>1, <1>2
  <2>2. vs[i] # vs[j]
    BY <1>2, <2>1
  <2>3. t[i] # t[j]
    BY <1>2, <2>2, OnIsOne
  <2>4. t[i].do = what /\ t[j].do = what
    BY <1>2, <1>3
  <2>5. QED BY <2>3, <2>4 DEF Fits, Write
<1>7. IsPlan(t)
  BY <1>4, <1>5, <1>6 DEF IsPlan
<1>8. \A job : Has(t, job) <=> \E i \in DOMAIN vs : job = On(what, vs[i])
  BY <1>2 DEF Has
<1>9. \A job : Has(t, job) => job.do = what /\ \E v \in Range(vs) : job.on = {v}
  <2> SUFFICES ASSUME NEW job, Has(t, job)
               PROVE  job.do = what /\ \E v \in Range(vs) : job.on = {v}
    OBVIOUS
  <2>1. PICK i \in DOMAIN vs : job = t[i]
    BY <1>2 DEF Has
  <2>2. vs[i] \in Range(vs)
    BY DEF Range
  <2>3. QED BY <1>3, <2>1, <2>2
<1>10. ~Drops(t)
  <2> SUFFICES ASSUME t # <<>> PROVE Head(t).do # "drop"
    BY DEF Drops
  <2>1. Head(t) = t[1] /\ 1 \in DOMAIN t
    BY <1>4, TailFacts
  <2>2. QED BY <1>2, <1>3, <2>1
<1>11. QED BY <1>7, <1>8, <1>9, <1>10

LEMMA RebuildPlan ==
  ASSUME NEW vs \in Seq(Venue), \A i, j \in DOMAIN vs : vs[i] = vs[j] => i = j, NEW t,
         t = <<[do |-> "drop", on |-> Range(vs)], [do |-> "create", on |-> Range(vs)]>>
               \o ForEach("replay", vs)
  PROVE  IsPlan(t) /\ Drops(t) /\ \A job : Has(t, job) => ~Write(job)
<1> DEFINE d == [do |-> "drop", on |-> Range(vs)]
           c == [do |-> "create", on |-> Range(vs)]
           p == <<d, c>>
           s == ForEach("replay", vs)
<1>1. d.do = "drop" /\ d.on = Range(vs) /\ c.do = "create" /\ c.on = Range(vs)
  OBVIOUS
<1>2. d \in Job /\ c \in Job
  <2>1. Range(vs) \in SUBSET Venue
    BY DEF Range
  <2>2. QED BY <2>1 DEF Job
<1>3. t = p \o s
  OBVIOUS
<1> HIDE DEF d, c
<1>4. p \in Seq(Job) /\ Len(p) = 2 /\ DOMAIN p = 1..2 /\ p[1] = d /\ p[2] = c
  BY <1>2
<1> HIDE DEF p
<1>5. \A job : Has(p, job) <=> job = d \/ job = c
  <2>1. \A i \in 1..2 : i = 1 \/ i = 2
    OBVIOUS
  <2>2. 1 \in 1..2 /\ 2 \in 1..2
    OBVIOUS
  <2>3. QED BY <1>4, <2>1, <2>2 DEF Has
<1>6. IsPlan(p)
  <2>1. \A i \in 1..2 : i = 1 \/ i = 2
    OBVIOUS
  <2>2. \A i \in DOMAIN p : OneVenues(p[i])
    BY <1>1, <1>4, <2>1 DEF OneVenues
  <2>3. Fits(d, c)
    BY <1>1 DEF Fits, Write
  <2>4. \A i, j \in DOMAIN p : i < j => i = 1 /\ j = 2
    BY <1>4
  <2>5. QED BY <1>4, <2>2, <2>3, <2>4 DEF IsPlan
<1>7. /\ IsPlan(s) /\ \A job : Has(s, job) => job.do = "replay" /\ \E v \in Range(vs) : job.on = {v}
  BY ForEachPlan
<1> HIDE DEF s
<1>8. \A a, b : Has(p, a) /\ Has(s, b) => Fits(a, b)
  <2> SUFFICES ASSUME NEW a, NEW b, a = d \/ a = c, Has(s, b) PROVE Fits(a, b)
    BY <1>5
  <2>1. b.do = "replay" /\ \E v \in Range(vs) : b.on = {v}
    BY <1>7
  <2>2. a.do \in {"drop", "create"} /\ a.on = Range(vs)
    BY <1>1
  <2>3. b.on \subseteq a.on
    BY <2>1, <2>2
  <2>4. QED BY <2>1, <2>2, <2>3 DEF Fits, Write
<1>9. IsPlan(t) /\ \A job : Has(t, job) <=> Has(p, job) \/ Has(s, job)
  <2>1. IsPlan(p) /\ IsPlan(s)
    BY <1>6, <1>7
  <2>2. IsPlan(p \o s) /\ \A job : Has(p \o s, job) <=> Has(p, job) \/ Has(s, job)
    BY <1>8, <2>1, PlanConcat
  <2>3. QED BY <1>3, <2>2
<1>10. \A job : Has(t, job) => ~Write(job)
  <2> SUFFICES ASSUME NEW job, Has(t, job) PROVE ~Write(job)
    OBVIOUS
  <2>1. job = d \/ job = c \/ Has(s, job)
    BY <1>5, <1>9
  <2>2. job.do \in {"drop", "create", "replay"}
    BY <1>1, <1>7, <2>1
  <2>3. QED BY <2>2 DEF Write
<1>11. Drops(t)
  <2>1. p \in Seq(Job) /\ s \in Seq(Job)
    BY <1>4, <1>7 DEF IsPlan
  <2>2. Has(t, d)
    BY <1>5, <1>9
  <2>3. t # <<>> /\ t \in Seq(Job)
    BY <1>9, <2>2 DEF Has, IsPlan
  <2>4. Head(t) = t[1] /\ 1 \in DOMAIN t
    BY <2>3, TailFacts
  <2>5. t[1] = d
    <3>1. t[1] = IF 1 <= Len(p) THEN p[1] ELSE s[1 - Len(p)]
      BY <1>3, <2>1, <2>4
    <3>2. QED BY <1>4, <3>1
  <2>6. QED BY <1>1, <2>3, <2>4, <2>5 DEF Drops
<1>12. QED BY <1>9, <1>10, <1>11

-----------------------------------------------------------------------------
(* What the tables hold, batch by batch *)

LEMMA EndOfNone ==
  ASSUME NEW k, NEW q \in Seq(Frame)
  PROVE  End(k, q, 0) = Fresh
<1>1. SubSeq(q, 1, 0) = <<>> /\ <<>> \in Seq(Frame) /\ Range(<<>>) = {}
  BY DEF Range
<1>2. k \notin KeysIn(<<>>)
  BY <1>1 DEF KeysIn
<1>3. QED BY <1>1, <1>2, Untouched, FreshType DEF End

LEMMA HoldsNothing ==
  ASSUME NEW v, NEW q \in Seq(Frame)
  PROVE  Holds(v, q, 0, {}, <<>>, <<>>, <<>>)
<1>1. \A k : End(k, q, 0).live = FALSE /\ End(k, q, 0).samples = {} /\ End(k, q, 0).verdicts = {}
  BY EndOfNone DEF Fresh
<1>2. AllSaid(q, 0) = {} /\ AllShown(q, 0) = {}
  BY <1>1 DEF AllSaid, AllShown
<1>3. Carries(<<>>, q, 0)
  BY <1>1 DEF Carries
<1>4. UNION Range(<<>>) = {} /\ Disjoint(<<>>)
  BY DEF Range, Disjoint
<1>5. Named({}) = {q[i].n : i \in 1..0}
  BY DEF Named
<1>6. LastOfSecond(SubSeq(q, 1, 0)) = {}
  <2>1. SubSeq(q, 1, 0) = <<>>
    OBVIOUS
  <2>2. LastOfSecond(<<>>) = {}
    BY DEF LastOfSecond
  <2>3. QED BY <2>1, <2>2
<1>7. QED BY <1>2, <1>3, <1>4, <1>5, <1>6 DEF Holds

\* Frames archived later change nothing of what is said of earlier ones.
LEMMA HoldsStill ==
  ASSUME NEW v, NEW q \in Seq(Frame), NEW f \in Frame, NEW m \in 0..Len(q),
         NEW rows, NEW s, NEW b, NEW c, Holds(v, q, m, rows, s, b, c)
  PROVE  Holds(v, Append(q, f), m, rows, s, b, c)
<1> DEFINE p == Append(q, f)
<1>1. p \in Seq(Frame) /\ Len(p) = Len(q) + 1 /\ \A i \in 1..Len(q) : p[i] = q[i]
  BY AppendFacts
<1> HIDE DEF p
<1>2. m \in 0..Len(p) /\ \A i \in 1..m : p[i] = q[i]
  BY <1>1
<1>3. SubSeq(p, 1, m) = SubSeq(q, 1, m)
  <2>1. SubSeq(p, 1, m) \in Seq(Frame) /\ Len(SubSeq(p, 1, m)) = m /\ \A i \in 1..m : SubSeq(p, 1, m)[i] = p[i]
    BY <1>1, <1>2, PrefixFacts
  <2>2. SubSeq(q, 1, m) \in Seq(Frame) /\ Len(SubSeq(q, 1, m)) = m /\ \A i \in 1..m : SubSeq(q, 1, m)[i] = q[i]
    BY PrefixFacts
  <2>3. QED BY <1>2, <2>1, <2>2, SameList
<1>4. \A k : End(k, p, m) = End(k, q, m)
  BY <1>3 DEF End
<1>5. AllSaid(p, m) = AllSaid(q, m) /\ AllShown(p, m) = AllShown(q, m)
  BY <1>4 DEF AllSaid, AllShown
<1>6. Carries(c, q, m) => Carries(c, p, m)
  BY <1>4 DEF Carries
<1>7. {p[i].n : i \in 1..m} = {q[i].n : i \in 1..m}
  BY <1>2
<1>8. Holds(v, p, m, rows, s, b, c)
  BY <1>3, <1>5, <1>6, <1>7 DEF Holds
<1>9. QED BY <1>8 DEF p

LEMMA AppendCommit ==
  ASSUME NEW s \in Seq(SUBSET Sample), NEW x \in SUBSET Sample
  PROVE  /\ UNION Range(Append(s, x)) = (UNION Range(s)) \cup x
         /\ Disjoint(s) /\ (UNION Range(s)) \cap x = {} => Disjoint(Append(s, x))
<1> DEFINE t == Append(s, x)
<1>1. /\ Len(s) \in Nat /\ DOMAIN t = 1..(Len(s) + 1) /\ DOMAIN s = 1..Len(s)
      /\ \A i \in 1..Len(s) : t[i] = s[i]
      /\ t[Len(s) + 1] = x
      /\ Range(t) = Range(s) \cup {x}
  BY AppendFacts
<1> HIDE DEF t
<1>2. UNION Range(t) = (UNION Range(s)) \cup x
  BY <1>1
<1>3. ASSUME Disjoint(s), (UNION Range(s)) \cap x = {} PROVE Disjoint(t)
  <2> SUFFICES ASSUME NEW i \in DOMAIN t, NEW j \in DOMAIN t, i # j PROVE t[i] \cap t[j] = {}
    BY DEF Disjoint
  <2>1. \A n \in DOMAIN t : n \in DOMAIN s \/ n = Len(s) + 1
    BY <1>1
  <2>2. \A n \in DOMAIN s : t[n] = s[n] /\ s[n] \cap x = {}
    <3>1. \A n \in DOMAIN s : s[n] \in Range(s)
      BY DEF Range
    <3>2. QED BY <1>1, <1>3, <3>1
  <2>3. CASE i \in DOMAIN s /\ j \in DOMAIN s
    BY <1>3, <2>2, <2>3 DEF Disjoint
  <2>4. CASE i \in DOMAIN s /\ j = Len(s) + 1
    BY <1>1, <2>2, <2>4
  <2>5. CASE i = Len(s) + 1 /\ j \in DOMAIN s
    BY <1>1, <2>2, <2>5
  <2>6. QED BY <2>1, <2>3, <2>4, <2>5
<1>4. QED BY <1>2, <1>3 DEF t

ResultOf(v, batch, c) ==
  IF v \in Replayed THEN Replay(batch, c)
  ELSE [verdicts |-> {<<f.n, Unverified>> : f \in Range(batch)},
        samples  |-> LastOfSecond(batch), states |-> <<>>]

LEMMA EmptyStates == StateMap(<<>>)
BY DEF StateMap

LEMMA LastOfSecondType ==
  ASSUME NEW p \in Seq(Frame)
  PROVE  LastOfSecond(p) \subseteq Sample
<1>1. \A i \in DOMAIN p : p[i] \in Frame
  OBVIOUS
<1>2. ASSUME NEW f \in Frame
      PROVE  [symbol |-> f.symbol, conn |-> f.conn, second |-> f.second,
              book |-> {f.n}, ok |-> Unverified] \in Sample
  <2>1. f.second \in Second /\ {f.n} \in SUBSET Change /\ Unverified \in Verdict
    BY DEF Frame, Verdict
  <2>2. QED BY <2>1, SampleIntro
<1>3. QED BY <1>1, <1>2 DEF LastOfSecond

LEMMA ResultType ==
  ASSUME NEW v, NEW c, StateMap(c), NEW p \in Seq(Frame)
  PROVE  IsOutput(ResultOf(v, p, c))
<1>1. CASE v \in Replayed
  BY <1>1, ReplayType DEF ResultOf
<1>2. CASE v \notin Replayed
  <2> DEFINE V == {<<f.n, Unverified>> : f \in Range(p)}
             L == LastOfSecond(p)
             o == [verdicts |-> V, samples |-> L, states |-> <<>>]
  <2>1. V \subseteq Change \X Verdict
    <3>1. \A f \in Range(p) : f \in Frame
      BY DEF Range
    <3>2. \A f \in Range(p) : f.n \in Change /\ Unverified \in Verdict
      BY <3>1 DEF Frame, Verdict
    <3>3. QED BY <3>2
  <2>2. L \subseteq Sample
    BY LastOfSecondType
  <2>3. ResultOf(v, p, c) = o
    BY <1>2 DEF ResultOf
  <2> HIDE DEF V, L
  <2>4. IsOutput(o)
    BY <2>1, <2>2, EmptyStates DEF IsOutput
  <2>5. QED BY <2>3, <2>4
<1>3. QED BY <1>1, <1>2

LEMMA NamesOfBoth ==
  ASSUME NEW r, NEW s
  PROVE  Named(r \cup s) = Named(r) \cup Named(s)
BY DEF Named

LEMMA NamesOfFrames ==
  ASSUME NEW S
  PROVE  Named({<<f.n, Unverified>> : f \in S}) = {f.n : f \in S}
<1>1. \A f : <<f.n, Unverified>>[1] = f.n
  OBVIOUS
<1>2. QED BY <1>1 DEF Named

LEMMA BatchHolds ==
  ASSUME NEW v, NEW q \in Seq(Frame), InOrder(q), NEW m \in Nat, NEW n \in Nat, m <= n, n <= Len(q),
         NEW rows, NEW s \in Seq(SUBSET Sample), NEW b, NEW c, StateMap(c),
         Holds(v, q, m, rows, s, b, c), NEW o, o = ResultOf(v, SubSeq(q, m + 1, n), c)
  PROVE  Holds(v, q, n, rows \cup o.verdicts, Append(s, o.samples), Append(b, o.samples),
               Over(o.states, c))
<1> DEFINE p == SubSeq(q, m + 1, n)
           t == Append(s, o.samples)
           d == Over(o.states, c)
<1>1. p \in Seq(Frame) /\ DOMAIN p = 1..(n - m) /\ \A i \in 1..(n - m) : p[i] = q[m + i]
  BY PartFacts
<1>2. o.samples \in SUBSET Sample
  <2>1. IsOutput(o)
    BY <1>1, ResultType
  <2>2. QED BY <2>1 DEF IsOutput
<1>3. /\ UNION Range(t) = (UNION Range(s)) \cup o.samples
      /\ Disjoint(s) /\ (UNION Range(s)) \cap o.samples = {} => Disjoint(t)
  BY <1>2, AppendCommit
<1>4. b = s
  BY DEF Holds
<1>5. m \in 0..Len(q) /\ n \in 0..Len(q)
  OBVIOUS
<1> HIDE DEF t
<1>6. CASE v \in Replayed
  <2>1. o = Replay(p, c)
    BY <1>6 DEF ResultOf
  <2>2. rows = AllSaid(q, m) /\ UNION Range(s) = AllShown(q, m) /\ Disjoint(s) /\ Carries(c, q, m)
    BY <1>6 DEF Holds
  <2>3. /\ AllSaid(q, n) = AllSaid(q, m) \cup o.verdicts
        /\ AllShown(q, n) = AllShown(q, m) \cup o.samples
        /\ AllShown(q, m) \cap o.samples = {}
        /\ Carries(d, q, n)
    BY <2>1, <2>2, BatchAdds
  <2> HIDE DEF d, p
  <2>4. Named(rows \cup o.verdicts) = {q[i].n : i \in 1..n}
    BY <1>5, <2>2, <2>3, SaidOfAll
  <2>5. UNION Range(t) = AllShown(q, n) /\ Disjoint(t) /\ rows \cup o.verdicts = AllSaid(q, n)
    BY <1>3, <2>2, <2>3
  <2>6. Holds(v, q, n, rows \cup o.verdicts, t, t, d)
    BY <1>6, <2>3, <2>4, <2>5 DEF Holds
  <2>7. QED BY <1>4, <2>6 DEF t, d
<1>7. CASE v \notin Replayed
  <2>1. o.verdicts = {<<f.n, Unverified>> : f \in Range(p)} /\ o.samples = LastOfSecond(p)
    BY <1>7 DEF ResultOf
  <2>2. LastOfSecond(SubSeq(q, 1, m)) \subseteq UNION Range(s) /\ Named(rows) = {q[i].n : i \in 1..m}
    BY <1>7 DEF Holds
  <2>3. LastOfSecond(SubSeq(q, 1, n)) \subseteq LastOfSecond(SubSeq(q, 1, m)) \cup LastOfSecond(p)
    BY LastOfSecondSplits
  <2>4. LastOfSecond(SubSeq(q, 1, n)) \subseteq UNION Range(t)
    BY <1>3, <2>1, <2>2, <2>3
  <2>5. \A x : x \in Named(o.verdicts) <=> \E i \in (m + 1)..n : x = q[i].n
    <3>1. Named(o.verdicts) = {f.n : f \in Range(p)}
      BY <2>1, NamesOfFrames
    <3>2. \A f : f \in Range(p) <=> \E i \in 1..(n - m) : f = p[i]
      BY <1>1 DEF Range
    <3> HIDE DEF p
    <3>3. \A i \in 1..(n - m) : m + i \in (m + 1)..n
      OBVIOUS
    <3>4. \A i \in (m + 1)..n : i - m \in 1..(n - m) /\ m + (i - m) = i
      OBVIOUS
    <3>5. \A f : f \in Range(p) <=> \E i \in (m + 1)..n : f = q[i]
      <4>1. \A i \in 1..(n - m) : p[i] = q[m + i]
        BY <1>1
      <4>2. \A f : (\E i \in 1..(n - m) : f = q[m + i]) <=> \E i \in (m + 1)..n : f = q[i]
        BY <3>3, <3>4
      <4>3. \A f : f \in Range(p) <=> \E i \in 1..(n - m) : f = q[m + i]
        BY <3>2, <4>1
      <4>4. QED BY <4>2, <4>3
    <3>6. QED BY <3>1, <3>5
  <2>6. \A i : i \in 1..n <=> i \in 1..m \/ i \in (m + 1)..n
    OBVIOUS
  <2>7. \A x : x \in Named(rows \cup o.verdicts) <=> \E i \in 1..n : x = q[i].n
    <3>1. Named(rows \cup o.verdicts) = Named(rows) \cup Named(o.verdicts)
      BY NamesOfBoth
    <3>2. \A x : x \in Named(rows) <=> \E i \in 1..m : x = q[i].n
      BY <2>2
    <3>3. QED BY <2>5, <2>6, <3>1, <3>2
  <2>8. Named(rows \cup o.verdicts) = {q[i].n : i \in 1..n}
    BY <2>7
  <2> HIDE DEF d
  <2>9. Holds(v, q, n, rows \cup o.verdicts, t, t, d)
    BY <1>7, <2>4, <2>8 DEF Holds
  <2>10. QED BY <1>4, <2>9 DEF t, d
<1>8. QED BY <1>6, <1>7

-----------------------------------------------------------------------------
(* The venues *)

Ticks == events' = events \/ (events < MaxEvents /\ events' = events + 1)

LEMMA TicksFacts ==
  ASSUME WorldInv, Ticks
  PROVE  events' \in 0..MaxEvents /\ events \in Nat /\ events' \in Nat /\ events <= events'
<1>1. events \in 0..MaxEvents /\ MaxEvents \in Nat
  BY Constants DEF WorldInv
<1>2. QED BY <1>1 DEF Ticks

LEMMA SameWorld ==
  ASSUME WorldInv, Ticks, UNCHANGED world
  PROVE  WorldInv'
<1>1. /\ venueBook' = venueBook /\ conn' = conn /\ now' = now /\ bronze' = bronze
  BY DEF world
<1>2. events' \in 0..MaxEvents /\ events \in Nat /\ events' \in Nat /\ events <= events'
  BY TicksFacts
<1>3. 0..events \subseteq 0..events' /\ 1..events \subseteq 1..events'
  BY <1>2
<1>4. venueBook' \in [Venue -> [Symbols -> SUBSET (1..events')]]
  <2>1. \A v \in Venue : venueBook[v] \in [Symbols -> SUBSET (1..events')]
    BY <1>3 DEF WorldInv
  <2>2. QED BY <1>1, <2>1 DEF WorldInv
<1>5. now' \in 0..events' /\ conn' \in [Venue -> 0..events']
  BY <1>1, <1>3 DEF WorldInv
<1>6. ASSUME NEW v \in Venue
      PROVE  \A i \in DOMAIN bronze[v] : bronze[v][i].n <= events'
  <2> SUFFICES ASSUME NEW i \in DOMAIN bronze[v] PROVE bronze[v][i].n <= events'
    OBVIOUS
  <2>1. bronze[v] \in Seq(Frame) /\ bronze[v][i].n <= events
    BY DEF WorldInv
  <2>2. bronze[v][i].n \in Nat
    BY <2>1, FrameNumbers
  <2>3. QED BY <1>2, <2>1, <2>2
<1>7. QED BY <1>1, <1>2, <1>4, <1>5, <1>6 DEF WorldInv

LEMMA InOrderMore ==
  ASSUME NEW q \in Seq(Frame), InOrder(q), NEW f \in Frame,
         \A i \in DOMAIN q : q[i].n < f.n /\ q[i].second <= f.second /\ q[i].conn <= f.conn
  PROVE  InOrder(Append(q, f))
<1> DEFINE p == Append(q, f)
<1>1. /\ DOMAIN p = 1..(Len(q) + 1) /\ DOMAIN q = 1..Len(q) /\ Len(q) \in Nat
      /\ \A i \in 1..Len(q) : p[i] = q[i]
      /\ p[Len(q) + 1] = f
  BY AppendFacts
<1> HIDE DEF p
<1>2. ASSUME NEW i \in DOMAIN p, NEW j \in DOMAIN p, i < j
      PROVE  p[i].n < p[j].n /\ p[i].second <= p[j].second /\ p[i].conn <= p[j].conn
  <2>1. i \in DOMAIN q /\ p[i] = q[i]
    BY <1>1, <1>2
  <2>2. CASE j \in DOMAIN q
    BY <1>1, <1>2, <2>1, <2>2 DEF InOrder
  <2>3. CASE j = Len(q) + 1
    BY <1>1, <2>1, <2>3
  <2>4. QED BY <1>1, <2>2, <2>3
<1>3. InOrder(p)
  BY <1>2 DEF InOrder
<1>4. QED BY <1>3 DEF p

LEMMA PublishWorld ==
  ASSUME WorldInv, NEW v \in Venue, NEW s \in Symbols, NEW snapshot \in BOOLEAN, NEW dropped \in BOOLEAN,
         Publish(v, s, snapshot, dropped)
  PROVE  /\ WorldInv'
         /\ bronze' = bronze \/ \E f \in Frame : bronze' = [bronze EXCEPT ![v] = Append(@, f)]
<1> DEFINE book == IF snapshot THEN {events'} ELSE venueBook[v][s] \cup {events'}
           f == [n |-> events', symbol |-> s, conn |-> conn[v],
                 snapshot |-> snapshot, second |-> now, truth |-> book]
           q == bronze[v]
<1>1. /\ events < MaxEvents /\ events' = events + 1 /\ conn' = conn /\ now' = now
      /\ venueBook' = [venueBook EXCEPT ![v][s] = book]
      /\ bronze' = IF dropped THEN bronze ELSE [bronze EXCEPT ![v] = Append(@, f)]
  BY DEF Publish, Event
<1>2. events' \in 0..MaxEvents /\ events \in Nat /\ events' \in Nat /\ events <= events' /\ MaxEvents \in Nat
  BY <1>1, TicksFacts, Constants DEF Ticks
<1>3. 0..events \subseteq 0..events' /\ 1..events \subseteq 1..events' /\ events' \in 1..events'
      /\ 1..events' \subseteq 1..MaxEvents /\ 0..events' \subseteq 0..MaxEvents
  BY <1>1, <1>2
<1>4. book \in SUBSET (1..events')
  <2>1. venueBook[v][s] \in SUBSET (1..events)
    BY DEF WorldInv
  <2>2. QED BY <1>3, <2>1
<1> HIDE DEF book
<1>5. now \in 0..events' /\ conn \in [Venue -> 0..events']
  BY <1>3 DEF WorldInv
<1>6. f \in Frame
  <2>1. events' \in Change /\ conn[v] \in Conn /\ now \in Second /\ book \in SUBSET Change
    BY <1>3, <1>4, <1>5 DEF Change, Conn, Second
  <2>2. QED BY <2>1 DEF Frame
<1>7. f.n = events' /\ f.second = now /\ f.conn = conn[v]
  OBVIOUS
<1> HIDE DEF f
<1>8. q \in Seq(Frame) /\ InOrder(q) /\ \A i \in DOMAIN q : q[i].n <= events /\ q[i].second <= now /\ q[i].conn <= conn[v]
  BY DEF WorldInv
<1>9. \A i \in DOMAIN q : q[i].n \in Nat
  BY <1>8, FrameNumbers
<1>10. \A i \in DOMAIN q : q[i].n < f.n /\ q[i].n <= events'
  BY <1>1, <1>2, <1>7, <1>8, <1>9
<1> DEFINE p == Append(q, f)
<1>11. InOrder(p)
  BY <1>6, <1>7, <1>8, <1>10, InOrderMore
<1>12. p \in Seq(Frame) /\ \A i \in DOMAIN p : (i \in DOMAIN q /\ p[i] = q[i]) \/ p[i] = f
  <2>1. /\ p \in Seq(Frame) /\ DOMAIN p = 1..(Len(q) + 1) /\ DOMAIN q = 1..Len(q) /\ Len(q) \in Nat
        /\ \A i \in 1..Len(q) : p[i] = q[i]
        /\ p[Len(q) + 1] = f
    BY <1>6, <1>8, AppendFacts
  <2> HIDE DEF p
  <2>2. \A i \in 1..(Len(q) + 1) : i \in 1..Len(q) \/ i = Len(q) + 1
    BY <2>1
  <2>3. QED BY <2>1, <2>2
<1> HIDE DEF p
<1>13. \A i \in DOMAIN p : p[i].n <= events' /\ p[i].second <= now /\ p[i].conn <= conn[v]
  <2>1. now <= now /\ conn[v] <= conn[v] /\ events' <= events'
    <3>1. now \in Nat /\ conn[v] \in Nat
      BY <1>5
    <3>2. QED BY <1>2, <3>1
  <2>2. QED BY <1>7, <1>8, <1>10, <1>12, <2>1
<1>14. \A x \in Venue : \A i \in DOMAIN bronze[x] : bronze[x][i].n <= events'
  <2> SUFFICES ASSUME NEW x \in Venue, NEW i \in DOMAIN bronze[x] PROVE bronze[x][i].n <= events'
    OBVIOUS
  <2>1. bronze[x] \in Seq(Frame) /\ bronze[x][i].n <= events
    BY DEF WorldInv
  <2>2. bronze[x][i].n \in Nat
    BY <2>1, FrameNumbers
  <2>3. QED BY <1>2, <2>1, <2>2
<1>15. venueBook' \in [Venue -> [Symbols -> SUBSET (1..events')]]
  <2>1. venueBook \in [Venue -> [Symbols -> SUBSET (1..events')]]
    <3>1. \A x \in Venue : venueBook[x] \in [Symbols -> SUBSET (1..events')]
      BY <1>3 DEF WorldInv
    <3>2. QED BY <3>1 DEF WorldInv
  <2>2. QED BY <1>1, <1>4, <2>1
<1>16. bronze' = bronze \/ bronze' = [bronze EXCEPT ![v] = p]
  BY <1>1 DEF p
<1>17. /\ bronze' \in [Venue -> Seq(Frame)]
       /\ \A x \in Venue : bronze'[x] = bronze[x] \/ (x = v /\ bronze'[x] = p)
  BY <1>12, <1>16 DEF WorldInv
<1>18. \A x \in Venue :
         /\ InOrder(bronze'[x])
         /\ \A i \in DOMAIN bronze'[x] :
              bronze'[x][i].n <= events' /\ bronze'[x][i].second <= now /\ bronze'[x][i].conn <= conn[x]
  <2> TAKE x \in Venue
  <2>1. CASE bronze'[x] = bronze[x]
    BY <1>14, <2>1 DEF WorldInv
  <2>2. CASE x = v /\ bronze'[x] = p
    BY <1>11, <1>13, <2>2
  <2>3. QED BY <1>17, <2>1, <2>2
<1>19. WorldInv'
  BY <1>1, <1>2, <1>5, <1>15, <1>17, <1>18 DEF WorldInv
<1>20. QED BY <1>1, <1>6, <1>19

LEMMA ReconnectWorld ==
  ASSUME WorldInv, NEW v \in Venue, Reconnect(v)
  PROVE  WorldInv'
<1>1. /\ events < MaxEvents /\ events' = events + 1 /\ now' = now /\ bronze' = bronze
      /\ conn' = [conn EXCEPT ![v] = @ + 1]
      /\ venueBook' = [venueBook EXCEPT ![v] = [s \in Symbols |-> {}]]
  BY DEF Reconnect, Event
<1>2. events' \in 0..MaxEvents /\ events \in Nat /\ events' \in Nat /\ events <= events'
  BY <1>1, TicksFacts DEF Ticks
<1>3. 0..events \subseteq 0..events' /\ 1..events \subseteq 1..events' /\ \A n \in 0..events : n + 1 \in 0..events'
  BY <1>1, <1>2
<1>4. conn \in [Venue -> 0..events] /\ conn' \in [Venue -> 0..events'] /\ \A x \in Venue : conn[x] <= conn'[x]
  <2>1. conn \in [Venue -> 0..events]
    BY DEF WorldInv
  <2>2. \A x \in Venue : conn[x] \in 0..events'
    BY <1>3, <2>1
  <2>3. \A x \in Venue : conn'[x] = conn[x] \/ conn'[x] = conn[x] + 1
    BY <1>1, <2>1
  <2>4. \A x \in Venue : conn'[x] \in 0..events'
    BY <1>3, <2>1, <2>2, <2>3
  <2>5. \A x \in Venue : conn[x] \in Nat
    BY <2>1
  <2>6. \A x \in Venue : conn[x] <= conn'[x]
    BY <2>3, <2>5
  <2>7. conn' = [x \in Venue |-> conn'[x]]
    BY <1>1, <2>1
  <2>8. QED BY <2>1, <2>4, <2>6, <2>7
<1>5. venueBook' \in [Venue -> [Symbols -> SUBSET (1..events')]]
  <2>1. \A x \in Venue : venueBook[x] \in [Symbols -> SUBSET (1..events')]
    BY <1>3 DEF WorldInv
  <2>2. [s \in Symbols |-> {}] \in [Symbols -> SUBSET (1..events')]
    OBVIOUS
  <2>3. QED BY <1>1, <2>1, <2>2 DEF WorldInv
<1>6. now' \in 0..events'
  BY <1>1, <1>3 DEF WorldInv
<1>7. ASSUME NEW x \in Venue, NEW i \in DOMAIN bronze[x]
      PROVE  bronze[x][i].n <= events' /\ bronze[x][i].second <= now /\ bronze[x][i].conn <= conn'[x]
  <2>1. bronze[x] \in Seq(Frame) /\ bronze[x][i].n <= events /\ bronze[x][i].second <= now
        /\ bronze[x][i].conn <= conn[x]
    BY DEF WorldInv
  <2>2. bronze[x][i].n \in Nat /\ bronze[x][i].conn \in Nat
    BY <2>1, FrameNumbers
  <2>3. conn[x] \in Nat /\ conn'[x] \in Nat
    BY <1>4
  <2>4. QED BY <1>2, <1>4, <2>1, <2>2, <2>3
<1>8. QED BY <1>1, <1>2, <1>4, <1>5, <1>6, <1>7 DEF WorldInv

LEMMA SecondWorld ==
  ASSUME WorldInv, NextSecond
  PROVE  WorldInv'
<1>1. /\ events < MaxEvents /\ events' = events + 1 /\ now' = now + 1 /\ bronze' = bronze
      /\ conn' = conn /\ venueBook' = venueBook
  BY DEF NextSecond, Event
<1>2. events' \in 0..MaxEvents /\ events \in Nat /\ events' \in Nat /\ events <= events'
  BY <1>1, TicksFacts DEF Ticks
<1>3. 0..events \subseteq 0..events' /\ 1..events \subseteq 1..events'
  BY <1>2
<1>4. now \in 0..events /\ now' \in 0..events' /\ now <= now' /\ now \in Nat /\ now' \in Nat
  <2>1. now \in 0..events
    BY DEF WorldInv
  <2>2. QED BY <1>1, <1>2, <2>1
<1>5. venueBook' \in [Venue -> [Symbols -> SUBSET (1..events')]]
  <2>1. \A x \in Venue : venueBook[x] \in [Symbols -> SUBSET (1..events')]
    BY <1>3 DEF WorldInv
  <2>2. QED BY <1>1, <2>1 DEF WorldInv
<1>6. conn' \in [Venue -> 0..events']
  BY <1>1, <1>3 DEF WorldInv
<1>7. ASSUME NEW x \in Venue, NEW i \in DOMAIN bronze[x]
      PROVE  bronze[x][i].n <= events' /\ bronze[x][i].second <= now' /\ bronze[x][i].conn <= conn[x]
  <2>1. bronze[x] \in Seq(Frame) /\ bronze[x][i].n <= events /\ bronze[x][i].second <= now
        /\ bronze[x][i].conn <= conn[x]
    BY DEF WorldInv
  <2>2. bronze[x][i].n \in Nat /\ bronze[x][i].second \in Nat
    BY <2>1, FrameNumbers
  <2>3. QED BY <1>2, <1>4, <2>1, <2>2
<1>8. QED BY <1>1, <1>2, <1>4, <1>5, <1>6, <1>7 DEF WorldInv

-----------------------------------------------------------------------------
(* The tables as they will be *)

NoWrites(t, v) == \A what \in {"sample", "project", "carry"} : ~Has(t, On(what, v))

LEMMA Written ==
  ASSUME NEW v, NoWrites(todo, v)
  PROVE  FullSamples(v) = samples[v] /\ FullBbo(v) = bbo[v] /\ FullCarried(v) = carried[v]
BY DEF NoWrites, FullSamples, FullBbo, FullCarried

LEMMA WrittenNext ==
  ASSUME NEW v, NoWrites(todo', v)
  PROVE  FullSamples(v)' = samples'[v] /\ FullBbo(v)' = bbo'[v] /\ FullCarried(v)' = carried'[v]
BY DEF NoWrites, FullSamples, FullBbo, FullCarried

LEMMA NoneWrites ==
  ASSUME NEW t, \A a : Has(t, a) => ~Write(a), NEW v
  PROVE  NoWrites(t, v)
<1>1. \A what : On(what, v).do = what
  BY OnFacts
<1>2. QED BY <1>1 DEF NoWrites, Write

\* The tables of v stay what they will be.
Keeps(v) ==
  /\ FullSamples(v)' = FullSamples(v) /\ FullBbo(v)' = FullBbo(v)
  /\ FullCarried(v)' = FullCarried(v) /\ silver'[v] = silver[v]

LEMMA KeptDone ==
  ASSUME NEW v, Keeps(v), bronze'[v] = bronze[v], Redoing(todo', v) <=> Redoing(todo, v), Done(v)
  PROVE  Done(v)'
<1>1. PICK m \in 0..Len(bronze[v]) :
        /\ Reach(Redoing(todo, v), silver[v].at, bronze[v], m)
        /\ Holds(v, bronze[v], m, silver[v].rows, FullSamples(v), FullBbo(v), FullCarried(v))
  BY DEF Done
<1>2. Reach(Redoing(todo', v), silver'[v].at, bronze'[v], m)
  BY <1>1 DEF Reach, Keeps
<1>3. Holds(v, bronze'[v], m, silver'[v].rows, FullSamples(v)', FullBbo(v)', FullCarried(v)')
  BY <1>1 DEF Keeps
<1>4. QED BY <1>2, <1>3 DEF Done

\* Outside of a rebuild the frames covered are those up to the position.
LEMMA PlainDone ==
  ASSUME NEW v, Done(v), ~Redoing(todo, v)
  PROVE  /\ silver[v].at \in 0..Len(bronze[v])
         /\ Holds(v, bronze[v], silver[v].at, silver[v].rows, FullSamples(v), FullBbo(v), FullCarried(v))
BY DEF Done, Reach

LEMMA IntroDone ==
  ASSUME NEW v, NEW m \in 0..Len(bronze'[v]), Reach(Redoing(todo', v), silver'[v].at, bronze'[v], m),
         Holds(v, bronze'[v], m, silver'[v].rows, FullSamples(v)', FullBbo(v)', FullCarried(v)')
  PROVE  Done(v)'
BY DEF Done

-----------------------------------------------------------------------------
(* Every step preserves the invariant *)

LEMMA InitIInv == Init => IInv
<1> SUFFICES ASSUME Init PROVE IInv
  OBVIOUS
<1>1. MaxEvents \in Nat /\ 0 \in 0..MaxEvents /\ 0 \in 0..0
  BY Constants
<1>2. \A v \in Venue : bronze[v] = <<>> /\ silver[v] = [rows |-> {}, at |-> 0] /\ samples[v] = <<>>
                        /\ bbo[v] = <<>> /\ carried[v] = <<>>
  BY DEF Init, Empty
<1>3. <<>> \in Seq(Frame) /\ DOMAIN <<>> = {} /\ Len(<<>>) = 0
  OBVIOUS
<1>4. WorldInv
  <2>1. /\ venueBook \in [Venue -> [Symbols -> SUBSET (1..events)]]
        /\ now \in 0..events /\ conn \in [Venue -> 0..events] /\ events \in 0..MaxEvents
        /\ bronze \in [Venue -> Seq(Frame)]
    BY <1>1, <1>3 DEF Init
  <2>2. \A v \in Venue : InOrder(bronze[v]) /\ DOMAIN bronze[v] = {}
    BY <1>2, <1>3 DEF InOrder
  <2>3. QED BY <2>1, <2>2 DEF WorldInv
<1>5. TablesInv
  <2>1. silver \in [Venue -> [rows : SUBSET (Change \X Verdict), at : Nat]]
    BY DEF Init, Empty
  <2>2. samples \in [Venue -> Seq(SUBSET Sample)] /\ bbo \in [Venue -> Seq(SUBSET Sample)]
    BY DEF Init
  <2>3. carried = [v \in Venue |-> carried[v]] /\ \A v \in Venue : StateMap(carried[v])
    BY <1>2, EmptyStates DEF Init
  <2>4. IsOutput(out)
    <3>1. out = [verdicts |-> {}, samples |-> {}, states |-> <<>>]
      BY DEF Init, NoOutput
    <3>2. QED BY <3>1, EmptyStates DEF IsOutput
  <2>5. gone \in BOOLEAN /\ torn \subseteq Venue /\ todo \in Seq(Job)
    <3>1. gone = FALSE /\ torn = {} /\ todo = <<>>
      BY DEF Init
    <3>2. gone \in BOOLEAN
      BY <3>1
    <3>3. todo \in Seq(Job)
      BY <3>1
    <3>4. QED BY <3>1, <3>2, <3>3
  <2>6. \A v \in Venue : silver[v].at <= Len(bronze[v])
    BY <1>2, <1>3
  <2>7. QED BY <2>1, <2>2, <2>3, <2>4, <2>5, <2>6 DEF TablesInv
<1>6. todo = <<>>
  BY DEF Init
<1>7. PlanInv
  BY <1>6, EmptyPlan DEF PlanInv
<1>8. ASSUME NEW v \in Venue
      PROVE  Done(v)
  <2>1. NoWrites(todo, v) /\ ~Redoing(todo, v)
    BY <1>6, EmptyPlan DEF NoWrites, Redoing
  <2>2. Holds(v, bronze[v], 0, silver[v].rows, FullSamples(v), FullBbo(v), FullCarried(v))
    <3>1. Holds(v, bronze[v], 0, {}, <<>>, <<>>, <<>>)
      BY <1>2, <1>3, HoldsNothing
    <3>2. FullSamples(v) = <<>> /\ FullBbo(v) = <<>> /\ FullCarried(v) = <<>> /\ silver[v].rows = {}
      BY <1>2, <2>1, Written
    <3>3. QED BY <3>1, <3>2
  <2>3. Reach(Redoing(todo, v), silver[v].at, bronze[v], 0)
    BY <1>2, <2>1 DEF Reach
  <2>4. 0 \in 0..Len(bronze[v])
    BY <1>2, <1>3
  <2>5. QED BY <2>2, <2>3, <2>4 DEF Done
<1>9. QED BY <1>4, <1>5, <1>7, <1>8 DEF IInv, DoneInv

\* While no process runs, the archive grows.
LEMMA IdleStep ==
  ASSUME IInv, WorldInv', Idle, UNCHANGED <<tables, gone, todo, out, torn>>,
         \A v \in Venue : bronze'[v] = bronze[v] \/ \E f \in Frame : bronze'[v] = Append(bronze[v], f)
  PROVE  IInv'
<1>1. /\ silver' = silver /\ samples' = samples /\ bbo' = bbo /\ carried' = carried /\ gone' = gone
      /\ todo' = todo /\ out' = out /\ torn' = torn /\ todo = <<>>
  BY DEF tables, Idle
<1>2. WorldInv /\ TablesInv /\ PlanInv /\ DoneInv
  BY DEF IInv
<1>3. \A v \in Venue : bronze[v] \in Seq(Frame) /\ Len(bronze[v]) \in Nat /\ bronze'[v] \in Seq(Frame)
  BY <1>2 DEF WorldInv
<1>4. \A v \in Venue : Len(bronze'[v]) \in Nat /\ Len(bronze[v]) <= Len(bronze'[v])
  <2> TAKE v \in Venue
  <2>1. \A f \in Frame : Len(Append(bronze[v], f)) = Len(bronze[v]) + 1
    BY <1>3
  <2>2. CASE bronze'[v] = bronze[v]
    BY <1>3, <2>2
  <2>3. CASE \E f \in Frame : bronze'[v] = Append(bronze[v], f)
    BY <1>3, <2>1, <2>3
  <2>4. QED BY <2>2, <2>3
<1>5. TablesInv'
  <2>1. \A v \in Venue : silver[v].at \in Nat /\ silver[v].at <= Len(bronze[v])
    BY <1>2 DEF TablesInv
  <2>2. \A v \in Venue : silver[v].at <= Len(bronze'[v])
    BY <1>3, <1>4, <2>1
  <2>3. QED BY <1>1, <1>2, <2>2 DEF TablesInv
<1>6. PlanInv'
  BY <1>1, EmptyPlan DEF PlanInv
<1>7. ASSUME NEW v \in Venue \ torn
      PROVE  Done(v)'
  <2>1. NoWrites(todo, v) /\ NoWrites(todo', v) /\ ~Redoing(todo, v) /\ ~Redoing(todo', v)
    BY <1>1, EmptyPlan DEF NoWrites, Redoing
  <2>2. /\ FullSamples(v)' = FullSamples(v) /\ FullBbo(v)' = FullBbo(v)
        /\ FullCarried(v)' = FullCarried(v)
    BY <1>1, <2>1, Written, WrittenNext
  <2> DEFINE m == silver[v].at
  <2>3. m \in 0..Len(bronze[v])
         /\ Holds(v, bronze[v], m, silver[v].rows, FullSamples(v), FullBbo(v), FullCarried(v))
    BY <1>2, <2>1, PlainDone DEF DoneInv
  <2>4. Holds(v, bronze'[v], m, silver[v].rows, FullSamples(v), FullBbo(v), FullCarried(v))
    <3>1. CASE bronze'[v] = bronze[v]
      BY <2>3, <3>1
    <3>2. CASE \E f \in Frame : bronze'[v] = Append(bronze[v], f)
      BY <1>3, <2>3, <3>2, HoldsStill
    <3>3. QED BY <3>1, <3>2
  <2>5. m \in 0..Len(bronze'[v])
    BY <1>3, <1>4, <2>3
  <2>6. Reach(Redoing(todo', v), silver'[v].at, bronze'[v], m)
    BY <1>1, <2>1 DEF Reach
  <2>7. Holds(v, bronze'[v], m, silver'[v].rows, FullSamples(v)', FullBbo(v)', FullCarried(v)')
    BY <1>1, <2>2, <2>4
  <2> HIDE DEF m
  <2>8. QED BY <2>5, <2>6, <2>7, IntroDone
<1>8. QED BY <1>1, <1>2, <1>5, <1>6, <1>7 DEF IInv, DoneInv

\* A process begins with a list that writes nothing yet.
LEMMA StartStep ==
  ASSUME IInv, WorldInv', NEW t, Begin(t), IsPlan(t), \A a : Has(t, a) => ~Write(a),
         Drops(t) \/ \A v : ~Has(t, On("replay", v))
  PROVE  IInv'
<1>1. /\ silver' = silver /\ samples' = samples /\ bbo' = bbo /\ carried' = carried /\ gone' = gone
      /\ todo' = t /\ out' = out /\ torn' = torn /\ todo = <<>> /\ bronze' = bronze
  BY DEF Begin, tables, world, Idle
<1>2. WorldInv /\ TablesInv /\ PlanInv /\ DoneInv
  BY DEF IInv
<1>3. TablesInv'
  BY <1>1, <1>2 DEF TablesInv, IsPlan
<1>4. \A v : NoWrites(t, v) /\ ~Redoing(t, v)
  BY NoneWrites DEF Redoing
<1>5. PlanInv'
  <2>1. \A v \in Venue : ~(Awaits(t, v) /\ ~Drops(t))
    BY HasAwaits
  <2>2. \A v : ~Has(t, On("project", v))
    BY <1>4 DEF NoWrites
  <2>3. QED BY <1>1, <2>1, <2>2 DEF PlanInv
<1>6. ASSUME NEW v \in Venue \ torn
      PROVE  Done(v)'
  <2>1. NoWrites(todo, v) /\ ~Redoing(todo, v)
    BY <1>1, EmptyPlan DEF NoWrites, Redoing
  <2>2. Keeps(v)
    BY <1>1, <1>4, <2>1, Written, WrittenNext DEF Keeps
  <2>3. Done(v)
    BY <1>2 DEF DoneInv
  <2>4. Redoing(todo', v) <=> Redoing(todo, v)
    BY <1>1, <1>4, <2>1
  <2>5. bronze'[v] = bronze[v]
    BY <1>1
  <2>6. QED BY <2>2, <2>3, <2>4, <2>5, KeptDone
<1>7. QED BY <1>1, <1>2, <1>3, <1>5, <1>6 DEF IInv, DoneInv

\* A job that has nothing to write is dropped from the list.
LEMMA SkipStep ==
  ASSUME IInv, todo # <<>>, Rest, UNCHANGED <<world, tables, out, torn, events>>, gone' \in BOOLEAN,
         ~Write(Head(todo)), ~Drops(todo),
         \A v \in Venue : Head(todo) = On("replay", v) => DaysLeft(v) = {}
  PROVE  IInv'
<1>1. /\ silver' = silver /\ samples' = samples /\ bbo' = bbo /\ carried' = carried
      /\ todo' = Tail(todo) /\ out' = out /\ torn' = torn /\ bronze' = bronze
  BY DEF tables, world, Rest
<1>2. WorldInv /\ TablesInv /\ PlanInv /\ DoneInv
  BY DEF IInv
<1>3. WorldInv'
  BY <1>2, SameWorld DEF Ticks
<1>4. IsPlan(todo)
  BY <1>2 DEF PlanInv
<1> DEFINE t == Tail(todo)
           h == Head(todo)
<1>5. /\ IsPlan(t) /\ ~Drops(t)
      /\ \A job : Has(todo, job) <=> job = h \/ Has(t, job)
      /\ \A job : Has(t, job) => Fits(h, job)
      /\ \A v : Awaits(t, v) => Awaits(todo, v)
  BY <1>4, PlanTail
<1> HIDE DEF t, h
<1>6. ~Write(h) /\ todo' = t
  BY <1>1 DEF h, t
<1>7. TablesInv'
  BY <1>1, <1>2, <1>5, <1>6 DEF TablesInv, IsPlan
<1>8. \A job : Has(t, job) => ~Write(job)
  BY <1>5, <1>6 DEF Fits
<1>9. \A job : Has(todo, job) => ~Write(job)
  BY <1>5, <1>6, <1>8
<1>10. \A v : NoWrites(todo, v) /\ NoWrites(t, v)
  BY <1>8, <1>9, NoneWrites
<1>11. PlanInv'
  <2>1. \A v \in Venue : Awaits(t, v) => silver'[v].at = 0
    BY <1>1, <1>2, <1>5 DEF PlanInv
  <2>2. \A v : ~Has(t, On("project", v))
    BY <1>10 DEF NoWrites
  <2>3. QED BY <1>5, <1>6, <2>1, <2>2 DEF PlanInv
<1>12. ASSUME NEW v \in Venue \ torn
       PROVE  Done(v)'
  <2>1. Done(v) /\ bronze'[v] = bronze[v] /\ silver'[v] = silver[v]
    BY <1>1, <1>2 DEF DoneInv
  <2>2. /\ FullSamples(v)' = FullSamples(v) /\ FullBbo(v)' = FullBbo(v)
        /\ FullCarried(v)' = FullCarried(v)
    BY <1>1, <1>6, <1>10, Written, WrittenNext
  <2>3. CASE h # On("replay", v)
    <3>1. Redoing(todo', v) <=> Redoing(todo, v)
      BY <1>5, <1>6, <2>3 DEF Redoing
    <3>2. Keeps(v)
      BY <2>1, <2>2 DEF Keeps
    <3>3. QED BY <2>1, <3>1, <3>2, KeptDone
  <2>4. CASE h = On("replay", v)
    <3>1. ~Redoing(todo', v)
      <4>1. ~Has(t, On("replay", v))
        BY <1>4, <2>4, HeadReplay DEF h, t
      <4>2. QED BY <1>6, <4>1 DEF Redoing
    <3>2. PICK m \in 0..Len(bronze[v]) :
            /\ Reach(Redoing(todo, v), silver[v].at, bronze[v], m)
            /\ Holds(v, bronze[v], m, silver[v].rows, FullSamples(v), FullBbo(v), FullCarried(v))
      BY <2>1 DEF Done
    <3>3. m = Len(bronze[v])
      <4>1. bronze[v] \in Seq(Frame) /\ InOrder(bronze[v])
        BY <1>2 DEF WorldInv
      <4>2. Named(silver[v].rows) = {bronze[v][i].n : i \in 1..m}
        BY <3>2 DEF Holds
      <4>3. DaysLeft(v) = {}
        BY <2>4 DEF h
      <4>4. QED BY <4>1, <4>2, <4>3, NoneLeft
    <3>4. m = silver[v].at
      BY <3>2, <3>3 DEF Reach
    <3>5. Reach(Redoing(todo', v), silver'[v].at, bronze'[v], m)
      BY <2>1, <3>1, <3>4 DEF Reach
    <3>6. Holds(v, bronze'[v], m, silver'[v].rows, FullSamples(v)', FullBbo(v)', FullCarried(v)')
      BY <2>1, <2>2, <3>2
    <3>7. m \in 0..Len(bronze'[v])
      BY <2>1
    <3>8. QED BY <3>5, <3>6, <3>7, IntroDone
  <2>5. QED BY <2>3, <2>4
<1>13. QED BY <1>1, <1>2, <1>3, <1>7, <1>11, <1>12 DEF IInv, DoneInv

LEMMA LastAppended ==
  ASSUME NEW S, NEW s \in Seq(S), NEW x
  PROVE  Last(Append(s, x)) = x
<1>1. Len(Append(s, x)) = Len(s) + 1 /\ Append(s, x)[Len(s) + 1] = x
  OBVIOUS
<1>2. QED BY <1>1 DEF Last

\* The silver commit of a batch, with the writes that follow it ahead.
LEMMA BatchStep ==
  ASSUME IInv, NEW v \in Venue, NEW batch \in Seq(Frame), NEW s,
         TypeBatch(v, batch, Len(bronze[v])), UNCHANGED <<world, gone, torn, events>>,
         todo' = Writes(v) \o s, IsPlan(s), \A a : Has(s, a) => ~Write(a) /\ a.do # "drop",
         \A a : Has(todo, a) => ~Write(a), ~Drops(todo),
         \A x \in Venue : x # v => (Has(s, On("replay", x)) <=> Has(todo, On("replay", x))),
         \A x \in Venue : Has(s, On("replay", x)) /\ (x = v => Awaits(s, v)) => x # v /\ silver[x].at = 0,
         v \notin torn =>
           \E m \in Nat, n \in Nat :
             /\ m <= n /\ n <= Len(bronze[v]) /\ batch = SubSeq(bronze[v], m + 1, n)
             /\ Holds(v, bronze[v], m, silver[v].rows, samples[v], bbo[v], carried[v])
             /\ Reach(Has(s, On("replay", v)), Len(bronze[v]), bronze[v], n)
  PROVE  IInv'
<1> DEFINE t == Writes(v) \o s
           o == ResultOf(v, batch, carried[v])
<1>1. /\ out' = o /\ samples' = samples /\ bbo' = bbo /\ carried' = carried
      /\ silver' = [silver EXCEPT ![v] = [rows |-> silver[v].rows \cup o.verdicts, at |-> Len(bronze[v])]]
      /\ todo' = t /\ torn' = torn /\ gone' = gone /\ bronze' = bronze
  BY DEF TypeBatch, Result, ResultOf, world
<1>2. WorldInv /\ TablesInv /\ PlanInv /\ DoneInv
  BY DEF IInv
<1>3. WorldInv'
  BY <1>2, SameWorld DEF Ticks
<1>4. /\ IsPlan(t) /\ ~Drops(t)
      /\ \A job : Has(t, job) <=> (\E what \in {"sample", "project", "carry"} : job = On(what, v)) \/ Has(s, job)
      /\ \A x : Awaits(t, x) => Has(s, On("replay", x))
      /\ Awaits(t, v) => Awaits(s, v)
  BY BatchPlan
<1> HIDE DEF t
<1>5. IsOutput(o)
  <2>1. StateMap(carried[v])
    BY <1>2 DEF TablesInv
  <2>2. QED BY <2>1, ResultType
<1> HIDE DEF o
<1>6. /\ bronze[v] \in Seq(Frame) /\ InOrder(bronze[v]) /\ Len(bronze[v]) \in Nat
      /\ samples[v] \in Seq(SUBSET Sample) /\ bbo[v] \in Seq(SUBSET Sample) /\ StateMap(carried[v])
      /\ silver \in [Venue -> [rows : SUBSET (Change \X Verdict), at : Nat]]
  <2>1. bronze[v] \in Seq(Frame) /\ InOrder(bronze[v])
    BY <1>2 DEF WorldInv
  <2>2. QED BY <1>2, <2>1 DEF TablesInv
<1>7. /\ silver' \in [Venue -> [rows : SUBSET (Change \X Verdict), at : Nat]]
      /\ silver'[v].rows = silver[v].rows \cup o.verdicts /\ silver'[v].at = Len(bronze[v])
      /\ \A x \in Venue : x # v => silver'[x] = silver[x]
  <2>1. silver[v].rows \cup o.verdicts \in SUBSET (Change \X Verdict)
    <3>1. o.verdicts \subseteq Change \X Verdict
      BY <1>5 DEF IsOutput
    <3>2. silver[v].rows \subseteq Change \X Verdict
      BY <1>6
    <3>3. QED BY <3>1, <3>2
  <2>2. QED BY <1>1, <1>6, <2>1
<1>8. TablesInv'
  <2>1. \A x \in Venue : silver'[x].at <= Len(bronze[x])
    <3> TAKE x \in Venue
    <3>1. CASE x = v
      BY <1>6, <1>7, <3>1
    <3>2. CASE x # v
      BY <1>2, <1>7, <3>2 DEF TablesInv
    <3>3. QED BY <3>1, <3>2
  <2>2. t \in Seq(Job)
    BY <1>4 DEF IsPlan
  <2>3. QED BY <1>1, <1>2, <1>5, <1>7, <2>1, <2>2 DEF TablesInv
<1>9. \A what \in {"sample", "project", "carry"} : Has(t, On(what, v))
  BY <1>4
<1>10. \A x : NoWrites(todo, x) /\ (x # v => NoWrites(t, x))
  <2>1. \A x : NoWrites(todo, x) /\ NoWrites(s, x)
    BY NoneWrites
  <2>2. ASSUME NEW x, x # v PROVE NoWrites(t, x)
    <3>1. \A what, other : On(what, x) # On(other, v)
      BY <2>2, OnIsOne
    <3>2. QED BY <1>4, <2>1, <3>1 DEF NoWrites
  <2>3. QED BY <2>1, <2>2
<1>11. PlanInv'
  <2>1. \A x \in Venue : Awaits(t, x) => silver'[x].at = 0
    BY <1>4, <1>7
  <2>2. \A x \in Venue : Has(t, On("project", x)) => Has(t, On("sample", x))
    BY <1>9, <1>10 DEF NoWrites
  <2>3. QED BY <1>1, <1>4, <2>1, <2>2 DEF PlanInv
<1>12. ASSUME NEW x \in Venue \ torn, x # v
       PROVE  Done(x)'
  <2>1. Done(x) /\ bronze'[x] = bronze[x] /\ silver'[x] = silver[x]
    BY <1>1, <1>2, <1>7, <1>12 DEF DoneInv
  <2>2. NoWrites(todo, x) /\ NoWrites(todo', x)
    BY <1>1, <1>10, <1>12
  <2>3. Keeps(x)
    BY <1>1, <2>1, <2>2, Written, WrittenNext DEF Keeps
  <2>4. Has(t, On("replay", x)) <=> Has(todo, On("replay", x))
    <3>1. \A what \in {"sample", "project", "carry"} : On("replay", x) # On(what, v)
      BY OnIsOne
    <3>2. QED BY <1>4, <1>12, <3>1
  <2>5. Redoing(todo', x) <=> Redoing(todo, x)
    BY <1>1, <1>4, <2>4 DEF Redoing
  <2>6. QED BY <2>1, <2>3, <2>5, KeptDone
<1>13. ASSUME v \notin torn
       PROVE  Done(v)'
  <2>1. PICK m \in Nat, n \in Nat :
             /\ m <= n /\ n <= Len(bronze[v]) /\ batch = SubSeq(bronze[v], m + 1, n)
             /\ Holds(v, bronze[v], m, silver[v].rows, samples[v], bbo[v], carried[v])
             /\ Reach(Has(s, On("replay", v)), Len(bronze[v]), bronze[v], n)
    BY <1>13
  <2>2. o = ResultOf(v, SubSeq(bronze[v], m + 1, n), carried[v])
    BY <2>1 DEF o
  <2>3. Holds(v, bronze[v], n, silver[v].rows \cup o.verdicts, Append(samples[v], o.samples),
              Append(bbo[v], o.samples), Over(o.states, carried[v]))
    BY <1>6, <2>1, <2>2, BatchHolds
  <2>4. FullSamples(v)' = Append(samples[v], o.samples)
    BY <1>1, <1>9 DEF FullSamples
  <2>5. FullBbo(v)' = Append(bbo[v], o.samples)
    <3>1. FullBbo(v)' = Append(bbo'[v], Last(FullSamples(v)'))
      BY <1>1, <1>9 DEF FullBbo
    <3>2. Last(Append(samples[v], o.samples)) = o.samples
      BY <1>6, LastAppended
    <3>3. QED BY <1>1, <2>4, <3>1, <3>2
  <2>6. FullCarried(v)' = Over(o.states, carried[v])
    BY <1>1, <1>9 DEF FullCarried
  <2>7. Holds(v, bronze'[v], n, silver'[v].rows, FullSamples(v)', FullBbo(v)', FullCarried(v)')
    BY <1>1, <1>7, <2>3, <2>4, <2>5, <2>6
  <2>8. Has(t, On("replay", v)) <=> Has(s, On("replay", v))
    <3>1. \A what \in {"sample", "project", "carry"} : On("replay", v) # On(what, v)
      BY OnIsOne
    <3>2. QED BY <1>4, <3>1
  <2>9. Reach(Redoing(todo', v), silver'[v].at, bronze'[v], n)
    BY <1>1, <1>4, <1>7, <2>1, <2>8 DEF Redoing, Reach
  <2>10. n \in 0..Len(bronze'[v])
    BY <1>1, <1>6, <2>1
  <2>11. QED BY <2>7, <2>9, <2>10, IntroDone
<1>14. QED BY <1>1, <1>2, <1>3, <1>8, <1>11, <1>12, <1>13 DEF IInv, DoneInv

\* What is due is the first of v's writes; the others of the list are v's, too.
LEMMA WriteDue ==
  ASSUME IsPlan(todo), todo # <<>>, NEW what \in {"sample", "project", "carry"}, NEW v \in Venue,
         Head(todo) = On(what, v)
  PROVE  /\ IsPlan(Tail(todo)) /\ ~Drops(todo) /\ ~Drops(Tail(todo))
         /\ \A x : Awaits(Tail(todo), x) => Awaits(todo, x)
         /\ \A x : x # v => NoWrites(todo, x) /\ NoWrites(Tail(todo), x)
         /\ \A x : Redoing(Tail(todo), x) <=> Redoing(todo, x)
         /\ Has(todo, On(what, v)) /\ ~Has(Tail(todo), On(what, v))
         /\ \A other \in {"sample", "project", "carry"} : other # what =>
              (Has(Tail(todo), On(other, v)) <=> Has(todo, On(other, v)))
         /\ what \in {"project", "carry"} => ~Has(todo, On("sample", v))
         /\ what = "carry" => ~Has(todo, On("project", v))
<1> DEFINE t == Tail(todo)
           h == Head(todo)
<1>1. /\ IsPlan(t) /\ ~Drops(t)
      /\ \A job : Has(todo, job) <=> job = h \/ Has(t, job)
      /\ \A job : Has(t, job) => Fits(h, job)
      /\ \A x : Awaits(t, x) => Awaits(todo, x)
  BY PlanTail
<1>2. h = On(what, v)
  OBVIOUS
<1>3. ~Drops(todo)
  BY OnFacts DEF Drops
<1> HIDE DEF t, h
<1>4. h.do = what /\ h.on = {v} /\ Write(h)
  BY <1>2, OnFacts DEF Write
<1>5. \A other, x : On(other, x).do = other /\ On(other, x).on = {x}
  BY OnFacts
<1>6. \A other \in {"sample", "project", "carry"} : \A x : Write(On(other, x))
  BY <1>5 DEF Write
<1>7. ASSUME NEW other \in {"sample", "project", "carry"}, NEW x, Has(t, On(other, x))
      PROVE  x = v /\ Rank(h) < Rank(On(other, x))
  <2>1. Fits(h, On(other, x)) /\ Write(On(other, x))
    BY <1>1, <1>6, <1>7
  <2>2. h.on = On(other, x).on /\ Rank(h) < Rank(On(other, x))
    BY <2>1 DEF Fits
  <2>3. {v} = {x}
    BY <1>4, <1>5, <2>2
  <2>4. QED BY <2>2, <2>3
<1>8. \A x : /\ Rank(On("sample", x)) = 1 /\ Rank(On("project", x)) = 2
             /\ Rank(On("carry", x)) = 3
  BY <1>5 DEF Rank
<1>9. \A x : x # v => NoWrites(t, x)
  BY <1>7 DEF NoWrites
<1>10. \A x : x # v => NoWrites(todo, x)
  <2>1. \A other, x : x # v => On(other, x) # h
    BY <1>2, OnIsOne
  <2>2. QED BY <1>1, <1>9, <2>1 DEF NoWrites
<1>11. \A x : Redoing(t, x) <=> Redoing(todo, x)
  <2>1. \A x : On("replay", x) # h
    BY <1>4, <1>5 DEF Write
  <2>2. QED BY <1>1, <1>3, <2>1 DEF Redoing
<1>12. ~Has(t, On(what, v))
  <2>1. Rank(h) = 1 \/ Rank(h) = 2 \/ Rank(h) = 3
    BY <1>4 DEF Rank
  <2>2. ~(Rank(h) < Rank(h))
    BY <2>1
  <2>3. QED BY <1>2, <1>7, <2>2
<1>13. \A other \in {"sample", "project", "carry"} : other # what =>
              (Has(t, On(other, v)) <=> Has(todo, On(other, v)))
  <2>1. \A other : other # what => On(other, v) # h
    BY <1>2, OnIsOne
  <2>2. QED BY <1>1, <2>1
<1>14. what \in {"project", "carry"} => ~Has(todo, On("sample", v))
  <2>1. ASSUME what \in {"project", "carry"} PROVE ~Has(todo, On("sample", v))
    <3>1. Rank(h) = 2 \/ Rank(h) = 3
      BY <1>2, <1>8, <2>1
    <3>2. ~Has(t, On("sample", v))
      <4>1. ~(Rank(h) < 1)
        BY <3>1
      <4>2. QED BY <1>7, <1>8, <4>1
    <3>3. QED BY <1>13, <2>1, <3>2
  <2>2. QED BY <2>1
<1>15. what = "carry" => ~Has(todo, On("project", v))
  <2>1. ASSUME what = "carry" PROVE ~Has(todo, On("project", v))
    <3>1. ~Has(t, On("project", v))
      <4>1. ~(Rank(h) < 2)
        BY <1>2, <1>8, <2>1
      <4>2. QED BY <1>7, <1>8, <4>1
    <3>2. QED BY <1>13, <2>1, <3>1
  <2>2. QED BY <2>1
<1>16. Has(todo, On(what, v))
  BY <1>1, <1>2
<1>17. QED BY <1>1, <1>3, <1>9, <1>10, <1>11, <1>12, <1>13, <1>14, <1>15, <1>16 DEF t

\* A write of v leaves the tables as they will be.
LEMMA WriteStep ==
  ASSUME IInv, todo # <<>>, NEW what \in {"sample", "project", "carry"}, NEW v \in Venue,
         Head(todo) = On(what, v), Rest, UNCHANGED <<world, silver, gone, torn, events>>,
         samples' \in [Venue -> Seq(SUBSET Sample)], bbo' \in [Venue -> Seq(SUBSET Sample)],
         carried' = [x \in Venue |-> carried'[x]], StateMap(carried'[v]), IsOutput(out'),
         \A x \in Venue : x # v => samples'[x] = samples[x] /\ bbo'[x] = bbo[x] /\ carried'[x] = carried[x],
         Keeps(v), samples'[v] # <<>> \/ ~Has(todo', On("project", v))
  PROVE  IInv'
<1> DEFINE t == Tail(todo)
<1>1. silver' = silver /\ todo' = t /\ torn' = torn /\ gone' = gone /\ bronze' = bronze
  BY DEF Rest, world
<1>2. WorldInv /\ TablesInv /\ PlanInv /\ DoneInv
  BY DEF IInv
<1>3. WorldInv'
  BY <1>2, SameWorld DEF Ticks
<1>4. /\ IsPlan(t) /\ ~Drops(todo) /\ ~Drops(t)
      /\ \A x : Awaits(t, x) => Awaits(todo, x)
      /\ \A x : x # v => NoWrites(todo, x) /\ NoWrites(t, x)
      /\ \A x : Redoing(t, x) <=> Redoing(todo, x)
  <2>1. IsPlan(todo)
    BY <1>2 DEF PlanInv
  <2>2. QED BY <2>1, WriteDue
<1> HIDE DEF t
<1>5. TablesInv'
  <2>1. \A x \in Venue : StateMap(carried'[x])
    BY <1>2 DEF TablesInv
  <2>2. t \in Seq(Job)
    BY <1>4 DEF IsPlan
  <2>3. QED BY <1>1, <1>2, <2>1, <2>2 DEF TablesInv
<1>6. PlanInv'
  <2>1. \A x \in Venue : Awaits(t, x) => silver'[x].at = 0
    BY <1>1, <1>2, <1>4 DEF PlanInv
  <2>2. \A x \in Venue : Has(t, On("project", x)) => samples'[x] # <<>>
    BY <1>1, <1>4 DEF NoWrites
  <2>3. QED BY <1>1, <1>4, <2>1, <2>2 DEF PlanInv
<1>7. ASSUME NEW x \in Venue \ torn
      PROVE  Done(x)'
  <2>1. Done(x) /\ bronze'[x] = bronze[x] /\ (Redoing(todo', x) <=> Redoing(todo, x))
    BY <1>1, <1>2, <1>4 DEF DoneInv
  <2>2. CASE x = v
    BY <2>1, <2>2, KeptDone
  <2>3. CASE x # v
    <3>1. NoWrites(todo, x) /\ NoWrites(todo', x)
      BY <1>1, <1>4, <2>3
    <3>2. /\ samples'[x] = samples[x] /\ bbo'[x] = bbo[x] /\ carried'[x] = carried[x]
          /\ silver'[x] = silver[x]
      BY <1>1, <2>3
    <3>3. FullSamples(x) = samples[x] /\ FullBbo(x) = bbo[x] /\ FullCarried(x) = carried[x]
      BY <3>1, Written
    <3>4. FullSamples(x)' = samples'[x] /\ FullBbo(x)' = bbo'[x] /\ FullCarried(x)' = carried'[x]
      BY <3>1, WrittenNext
    <3>5. Keeps(x)
      BY <3>2, <3>3, <3>4 DEF Keeps
    <3>6. QED BY <2>1, <3>5, KeptDone
  <2>4. QED BY <2>2, <2>3
<1>8. QED BY <1>1, <1>2, <1>3, <1>5, <1>6, <1>7 DEF IInv, DoneInv

LEMMA SampleStep ==
  ASSUME IInv, NEW v \in Venue, AppendSamples(v)
  PROVE  IInv'
<1>1. /\ todo # <<>> /\ Head(todo) = On("sample", v) /\ todo' = Tail(todo) /\ Rest
      /\ samples' = [samples EXCEPT ![v] = Append(samples[v], out.samples)]
      /\ silver' = silver /\ bbo' = bbo /\ carried' = carried /\ out' = out
      /\ UNCHANGED <<world, silver, gone, torn, events>>
  BY DEF AppendSamples, Due, Idle, Rest
<1>2. TablesInv /\ PlanInv
  BY DEF IInv
<1>3. /\ Has(todo, On("sample", v)) /\ ~Has(todo', On("sample", v))
      /\ Has(todo', On("project", v)) <=> Has(todo, On("project", v))
      /\ Has(todo', On("carry", v)) <=> Has(todo, On("carry", v))
  <2>1. IsPlan(todo)
    BY <1>2 DEF PlanInv
  <2>2. QED BY <1>1, <2>1, WriteDue
<1>4. samples[v] \in Seq(SUBSET Sample) /\ out.samples \in SUBSET Sample
  BY <1>2 DEF TablesInv, IsOutput
<1>5. /\ Append(samples[v], out.samples) \in Seq(SUBSET Sample)
      /\ Append(samples[v], out.samples) # <<>>
  BY <1>4
<1>6. samples' \in [Venue -> Seq(SUBSET Sample)] /\ samples'[v] = Append(samples[v], out.samples)
  BY <1>1, <1>2, <1>5 DEF TablesInv
<1>7. Keeps(v)
  <2>1. FullSamples(v)' = FullSamples(v)
    BY <1>1, <1>3, <1>6 DEF FullSamples
  <2>2. FullBbo(v)' = FullBbo(v)
    BY <1>1, <1>3, <2>1 DEF FullBbo
  <2>3. FullCarried(v)' = FullCarried(v)
    BY <1>1, <1>3 DEF FullCarried
  <2>4. QED BY <1>1, <2>1, <2>2, <2>3 DEF Keeps
<1>8. \A x \in Venue : x # v => samples'[x] = samples[x]
  BY <1>1
<1>9. QED BY <1>1, <1>2, <1>5, <1>6, <1>7, <1>8, WriteStep DEF TablesInv

LEMMA BboStep ==
  ASSUME IInv, NEW v \in Venue, AppendBbo(v)
  PROVE  IInv'
<1>1. /\ todo # <<>> /\ Head(todo) = On("project", v) /\ todo' = Tail(todo) /\ Rest
      /\ bbo' = [bbo EXCEPT ![v] = Append(bbo[v], Last(samples[v]))]
      /\ silver' = silver /\ samples' = samples /\ carried' = carried /\ out' = out
      /\ UNCHANGED <<world, silver, gone, torn, events>>
  BY DEF AppendBbo, Due, Idle, Rest
<1>2. TablesInv /\ PlanInv
  BY DEF IInv
<1>3. /\ Has(todo, On("project", v)) /\ ~Has(todo', On("project", v)) /\ ~Has(todo, On("sample", v))
      /\ ~Has(todo', On("sample", v))
      /\ Has(todo', On("carry", v)) <=> Has(todo, On("carry", v))
  <2>1. IsPlan(todo)
    BY <1>2 DEF PlanInv
  <2>2. QED BY <1>1, <2>1, WriteDue
<1>4. samples[v] \in Seq(SUBSET Sample) /\ bbo[v] \in Seq(SUBSET Sample) /\ samples[v] # <<>>
  BY <1>2, <1>3 DEF TablesInv, PlanInv
<1>5. Last(samples[v]) \in SUBSET Sample
  <2>1. Len(samples[v]) \in DOMAIN samples[v]
    BY <1>4
  <2>2. QED BY <1>4, <2>1 DEF Last
<1>6. bbo' \in [Venue -> Seq(SUBSET Sample)] /\ bbo'[v] = Append(bbo[v], Last(samples[v]))
  <2>1. Append(bbo[v], Last(samples[v])) \in Seq(SUBSET Sample)
    BY <1>4, <1>5
  <2>2. QED BY <1>1, <1>2, <2>1 DEF TablesInv
<1>7. Keeps(v)
  <2>1. FullSamples(v)' = FullSamples(v) /\ FullSamples(v) = samples[v]
    BY <1>1, <1>3 DEF FullSamples
  <2>2. FullBbo(v)' = FullBbo(v)
    BY <1>1, <1>3, <1>6, <2>1 DEF FullBbo
  <2>3. FullCarried(v)' = FullCarried(v)
    BY <1>1, <1>3 DEF FullCarried
  <2>4. QED BY <1>1, <2>1, <2>2, <2>3 DEF Keeps
<1>8. \A x \in Venue : x # v => bbo'[x] = bbo[x]
  BY <1>1
<1>9. QED BY <1>1, <1>2, <1>3, <1>6, <1>7, <1>8, WriteStep DEF TablesInv

LEMMA CarryStep ==
  ASSUME IInv, NEW v \in Venue, MergeState(v)
  PROVE  IInv'
<1>1. /\ todo # <<>> /\ Head(todo) = On("carry", v) /\ todo' = Tail(todo) /\ Rest
      /\ carried' = [carried EXCEPT ![v] = Over(out.states, carried[v])]
      /\ silver' = silver /\ samples' = samples /\ bbo' = bbo /\ out' = NoOutput
      /\ UNCHANGED <<world, silver, gone, torn, events>>
  BY DEF MergeState, Merged, Due, Idle, Rest
<1>2. TablesInv /\ PlanInv
  BY DEF IInv
<1>3. /\ Has(todo, On("carry", v)) /\ ~Has(todo', On("carry", v)) /\ ~Has(todo, On("sample", v))
      /\ ~Has(todo', On("sample", v)) /\ ~Has(todo, On("project", v)) /\ ~Has(todo', On("project", v))
  <2>1. IsPlan(todo)
    BY <1>2 DEF PlanInv
  <2>2. QED BY <1>1, <2>1, WriteDue
<1>4. StateMap(out.states) /\ StateMap(carried[v]) /\ carried = [x \in Venue |-> carried[x]]
  BY <1>2 DEF TablesInv, IsOutput
<1>5. /\ carried' = [x \in Venue |-> carried'[x]] /\ carried'[v] = Over(out.states, carried[v])
      /\ \A x \in Venue : x # v => carried'[x] = carried[x]
  BY <1>1, <1>4
<1>6. StateMap(carried'[v])
  BY <1>4, <1>5, OverType
<1>7. IsOutput(out')
  <2>1. out' = [verdicts |-> {}, samples |-> {}, states |-> <<>>]
    BY <1>1 DEF NoOutput
  <2>2. QED BY <2>1, EmptyStates DEF IsOutput
<1>8. Keeps(v)
  <2>1. FullSamples(v)' = FullSamples(v)
    BY <1>1, <1>3 DEF FullSamples
  <2>2. FullBbo(v)' = FullBbo(v)
    BY <1>1, <1>3 DEF FullBbo
  <2>3. FullCarried(v)' = FullCarried(v)
    BY <1>3, <1>5 DEF FullCarried
  <2>4. QED BY <1>1, <2>1, <2>2, <2>3 DEF Keeps
<1>9. QED BY <1>1, <1>2, <1>3, <1>5, <1>6, <1>7, <1>8, WriteStep DEF TablesInv

\* The tables dropped are empty, and those of a venue that has nothing stay empty.
LEMMA DropStep ==
  ASSUME IInv, DropTables
  PROVE  IInv'
<1> DEFINE t == Tail(todo)
           h == Head(todo)
           dropped == Head(todo).on
<1>1. /\ todo # <<>> /\ h.do = "drop" /\ todo' = t
      /\ silver' = [v \in Venue |-> IF v \in dropped THEN Empty ELSE silver[v]]
      /\ torn' = {v \in Venue \ dropped : v \in torn \/ silver[v].at > 0}
      /\ samples' = [v \in Venue |-> <<>>] /\ bbo' = [v \in Venue |-> <<>>]
      /\ carried' = [v \in Venue |-> <<>>] /\ gone' = TRUE /\ out' = out
      /\ UNCHANGED world /\ bronze' = bronze /\ events' = events /\ dropped = h.on
  BY DEF DropTables, Idle, Rest, world
<1>2. WorldInv /\ TablesInv /\ PlanInv /\ DoneInv
  BY DEF IInv
<1>3. WorldInv'
  BY <1>1, <1>2, SameWorld DEF Ticks
<1>4. Drops(todo)
  BY <1>1 DEF Drops
<1>5. /\ IsPlan(t) /\ ~Drops(t)
      /\ \A job : Has(todo, job) <=> job = h \/ Has(t, job)
      /\ \A job : Has(t, job) => Fits(h, job)
  BY <1>1, <1>2, PlanTail DEF PlanInv
<1> HIDE DEF t, h, dropped
<1>6. ~Write(h)
  BY <1>1 DEF Write
<1>7. \A job : Has(t, job) => ~Write(job)
  BY <1>5, <1>6 DEF Fits
<1>8. \A job : Has(todo, job) => ~Write(job)
  BY <1>5, <1>6, <1>7
<1>9. \A v : NoWrites(todo, v) /\ NoWrites(t, v)
  BY <1>7, <1>8, NoneWrites
<1>10. ASSUME NEW v \in Venue, Has(t, On("replay", v))
       PROVE  silver'[v].at = 0 /\ silver'[v].rows = {}
  <2>1. Fits(h, On("replay", v)) /\ On("replay", v).do = "replay" /\ On("replay", v).on = {v}
    BY <1>5, <1>10, OnFacts
  <2>2. {v} \subseteq h.on
    BY <1>1, <2>1 DEF Fits
  <2>3. v \in dropped
    BY <1>1, <2>2
  <2>4. QED BY <1>1, <2>3 DEF Empty
<1>11. TablesInv'
  <2>1. Empty \in [rows : SUBSET (Change \X Verdict), at : Nat] /\ Empty.at = 0
    BY DEF Empty
  <2>2. \A v \in Venue : silver[v] \in [rows : SUBSET (Change \X Verdict), at : Nat]
                         /\ silver[v].at <= Len(bronze[v])
    BY <1>2 DEF TablesInv
  <2>3. silver' \in [Venue -> [rows : SUBSET (Change \X Verdict), at : Nat]]
    BY <1>1, <2>1, <2>2
  <2>4. \A v \in Venue : silver'[v].at <= Len(bronze'[v])
    <3> TAKE v \in Venue
    <3>1. bronze[v] \in Seq(Frame)
      BY <1>2 DEF WorldInv
    <3>2. 0 <= Len(bronze[v])
      BY <3>1
    <3>3. silver'[v] = Empty \/ silver'[v] = silver[v]
      BY <1>1
    <3>4. QED BY <1>1, <2>1, <2>2, <3>2, <3>3
  <2>5. samples' \in [Venue -> Seq(SUBSET Sample)] /\ bbo' \in [Venue -> Seq(SUBSET Sample)]
    BY <1>1
  <2>6. carried' = [v \in Venue |-> carried'[v]] /\ \A v \in Venue : StateMap(carried'[v])
    BY <1>1, EmptyStates
  <2>7. IsOutput(out') /\ gone' \in BOOLEAN /\ torn' \subseteq Venue
    BY <1>1, <1>2 DEF TablesInv
  <2>8. todo' \in Seq(Job)
    BY <1>1, <1>5 DEF IsPlan
  <2>9. QED BY <2>3, <2>4, <2>5, <2>6, <2>7, <2>8 DEF TablesInv
<1>12. PlanInv'
  <2>1. \A v \in Venue : Awaits(t, v) => silver'[v].at = 0
    BY <1>10, HasAwaits
  <2>2. \A v \in Venue : ~Has(t, On("project", v))
    BY <1>9 DEF NoWrites
  <2>3. QED BY <1>1, <1>5, <2>1, <2>2 DEF PlanInv
<1>13. ASSUME NEW v \in Venue \ torn'
       PROVE  Done(v)'
  <2>1. silver'[v].at = 0 /\ silver'[v].rows = {}
    <3>1. CASE v \in dropped
      BY <1>1, <3>1 DEF Empty
    <3>2. CASE v \notin dropped
      <4>1. v \notin torn /\ ~(silver[v].at > 0) /\ silver'[v] = silver[v]
        BY <1>1, <3>2
      <4>2. silver[v].at \in Nat
        BY <1>2 DEF TablesInv
      <4>3. silver[v].at = 0
        BY <4>1, <4>2
      <4>4. ~Redoing(todo, v) /\ Done(v)
        BY <1>2, <1>4, <4>1 DEF Redoing, DoneInv
      <4>5. Named(silver[v].rows) = {bronze[v][i].n : i \in 1..0}
        BY <4>3, <4>4, PlainDone DEF Holds
      <4>6. Named(silver[v].rows) = {}
        BY <4>5
      <4>7. silver[v].rows = {}
        BY <4>6 DEF Named
      <4>8. QED BY <4>1, <4>3, <4>7
    <3>3. QED BY <3>1, <3>2
  <2>2. /\ FullSamples(v)' = <<>> /\ FullBbo(v)' = <<>> /\ FullCarried(v)' = <<>>
    BY <1>1, <1>9, WrittenNext
  <2>3. bronze[v] \in Seq(Frame)
    BY <1>2 DEF WorldInv
  <2>4. Holds(v, bronze'[v], 0, silver'[v].rows, FullSamples(v)', FullBbo(v)', FullCarried(v)')
    <3>1. bronze'[v] \in Seq(Frame)
      BY <1>1, <2>3
    <3>2. Holds(v, bronze'[v], 0, {}, <<>>, <<>>, <<>>)
      BY <3>1, HoldsNothing
    <3>3. silver'[v].rows = {}
      BY <2>1
    <3>4. QED BY <2>2, <3>2, <3>3
  <2>5. Reach(Redoing(todo', v), silver'[v].at, bronze'[v], 0)
    BY <2>1 DEF Reach
  <2>6. 0 \in 0..Len(bronze'[v])
    BY <1>1, <2>3
  <2>7. QED BY <2>4, <2>5, <2>6, IntroDone
<1>14. torn' \subseteq Venue
  BY <1>1
<1>15. QED BY <1>3, <1>11, <1>12, <1>13 DEF IInv, DoneInv

\* What a process that is killed, or dies, leaves of the venues it did not tear.
LEMMA CutStep ==
  ASSUME IInv, Cut, Ticks
  PROVE  IInv'
<1>1. /\ todo' = <<>> /\ out' = NoOutput /\ UNCHANGED <<world, tables, gone>>
      /\ silver' = silver /\ samples' = samples /\ bbo' = bbo /\ carried' = carried
      /\ bronze' = bronze /\ gone' = gone
      /\ torn' = torn \cup {v \in Venue :
           \/ \E what \in {"sample", "project", "carry"} : On(what, v) \in Range(todo)
           \/ Due("replay", v) /\ silver[v].at > 0 /\ DaysLeft(v) # {}}
  BY DEF Cut, tables, world
<1>2. WorldInv /\ TablesInv /\ PlanInv /\ DoneInv
  BY DEF IInv
<1>3. WorldInv'
  BY <1>1, <1>2, SameWorld
<1>4. TablesInv'
  <2>1. IsOutput(out')
    <3>1. out' = [verdicts |-> {}, samples |-> {}, states |-> <<>>]
      BY <1>1 DEF NoOutput
    <3>2. QED BY <3>1, EmptyStates DEF IsOutput
  <2>2. torn' \subseteq Venue
    BY <1>1, <1>2 DEF TablesInv
  <2>3. todo' \in Seq(Job)
    BY <1>1
  <2>4. QED BY <1>1, <1>2, <2>1, <2>2, <2>3 DEF TablesInv
<1>5. PlanInv'
  BY <1>1, EmptyPlan DEF PlanInv
<1>6. \A v : NoWrites(todo', v) /\ ~Redoing(todo', v)
  BY <1>1, EmptyPlan DEF NoWrites, Redoing
<1>7. ASSUME NEW v \in Venue \ torn'
      PROVE  Done(v)'
  <2>1. /\ v \notin torn /\ \A what \in {"sample", "project", "carry"} : On(what, v) \notin Range(todo)
        /\ ~(Due("replay", v) /\ silver[v].at > 0 /\ DaysLeft(v) # {})
    BY <1>1
  <2>2. NoWrites(todo, v)
    BY <2>1 DEF NoWrites, Has, Range
  <2>3. Done(v)
    BY <1>2, <2>1 DEF DoneInv
  <2>4. Keeps(v)
    BY <1>1, <1>6, <2>2, Written, WrittenNext DEF Keeps
  <2>5. bronze'[v] = bronze[v]
    BY <1>1
  <2>6. CASE ~Redoing(todo, v)
    <3>1. Redoing(todo', v) <=> Redoing(todo, v)
      BY <1>6, <2>6
    <3>2. QED BY <2>3, <2>4, <2>5, <3>1, KeptDone
  <2>7. CASE Redoing(todo, v)
    <3>1. PICK m \in 0..Len(bronze[v]) :
            /\ Reach(Redoing(todo, v), silver[v].at, bronze[v], m)
            /\ Holds(v, bronze[v], m, silver[v].rows, FullSamples(v), FullBbo(v), FullCarried(v))
      BY <2>3 DEF Done
    <3>2. m = silver[v].at
      <4>1. CASE silver[v].at = 0
        BY <3>1, <4>1 DEF Reach
      <4>2. CASE silver[v].at # 0
        <5>1. ~Awaits(todo, v) /\ IsPlan(todo)
          BY <1>2, <2>7, <4>2 DEF PlanInv, Redoing
        <5>2. todo \in Seq(Job) /\ DOMAIN todo = 1..Len(todo) /\ Len(todo) \in Nat
          <6>1. todo \in Seq(Job)
            BY <5>1 DEF IsPlan
          <6>2. QED BY <6>1
        <5>3. PICK i \in DOMAIN todo : todo[i] = On("replay", v)
          BY <2>7 DEF Redoing, Has
        <5>4. 1 \in DOMAIN todo /\ todo # <<>> /\ Head(todo) = todo[1]
          BY <5>2, <5>3
        <5>5. todo[1] = On("replay", v)
          <6>1. CASE i = 1
            BY <5>3, <6>1
          <6>2. CASE i # 1
            <7>1. 1 < i
              BY <5>2, <6>2
            <7>2. WritesOf(todo[1], v)
              BY <5>1, <5>3, <5>4, <7>1 DEF Awaits
            <7>3. todo[1].do \in {"sample", "project", "carry"} /\ todo[1].on = {v}
              BY <7>2 DEF WritesOf, Write
            <7>4. OneVenues(todo[1])
              BY <5>1, <5>4 DEF IsPlan
            <7>5. PICK x \in Venue : todo[1] = On(todo[1].do, x)
              BY <7>3, <7>4 DEF OneVenues
            <7>6. todo[1].on = {x}
              BY <7>5, OnFacts
            <7>7. x = v
              BY <7>3, <7>6
            <7>8. QED BY <2>2, <5>4, <7>3, <7>5, <7>7 DEF NoWrites, Has
          <6>3. QED BY <6>1, <6>2
        <5>6. Due("replay", v)
          BY <5>4, <5>5 DEF Due, Idle
        <5>7. silver[v].at \in Nat
          BY <1>2 DEF TablesInv
        <5>8. DaysLeft(v) = {}
          BY <2>1, <4>2, <5>6, <5>7
        <5>9. bronze[v] \in Seq(Frame) /\ InOrder(bronze[v])
          BY <1>2 DEF WorldInv
        <5>10. Named(silver[v].rows) = {bronze[v][j].n : j \in 1..m}
          BY <3>1 DEF Holds
        <5>11. m = Len(bronze[v])
          BY <5>8, <5>9, <5>10, NoneLeft
        <5>12. QED BY <2>7, <3>1, <4>2, <5>11 DEF Reach
      <4>3. QED BY <4>1, <4>2
    <3>3. Reach(Redoing(todo', v), silver'[v].at, bronze'[v], m)
      BY <1>1, <1>6, <3>2 DEF Reach
    <3>4. Holds(v, bronze'[v], m, silver'[v].rows, FullSamples(v)', FullBbo(v)', FullCarried(v)')
      BY <2>4, <2>5, <3>1 DEF Keeps
    <3>5. m \in 0..Len(bronze'[v])
      BY <2>5, <3>1
    <3>6. QED BY <3>3, <3>4, <3>5, IntroDone
  <2>8. QED BY <2>6, <2>7
<1>8. QED BY <1>3, <1>4, <1>5, <1>7 DEF IInv, DoneInv

\* A run covers all that is new.
LEMMA TypeStep ==
  ASSUME IInv, NEW v \in Venue, TypeFrames(v)
  PROVE  IInv'
<1> DEFINE t == Tail(todo)
<1>1. /\ todo # <<>> /\ Head(todo) = On("type", v) /\ UNCHANGED <<world, gone, torn, events>>
  BY DEF TypeFrames, Due, Idle
<1>2. WorldInv /\ TablesInv /\ PlanInv /\ DoneInv
  BY DEF IInv
<1>3. Head(todo).do = "type" /\ ~Write(Head(todo)) /\ ~Drops(todo)
  BY <1>1, OnFacts DEF Write, Drops
<1>4. CASE New(v) = <<>>
  <2>1. Rest /\ UNCHANGED <<tables, out>> /\ gone' \in BOOLEAN
    BY <1>1, <1>2, <1>4 DEF TypeFrames, TablesInv
  <2>2. \A x \in Venue : Head(todo) # On("replay", x)
    BY <1>3, OnFacts
  <2>3. QED BY <1>1, <1>3, <2>1, <2>2, SkipStep
<1>5. CASE New(v) # <<>>
  <2>1. TypeBatch(v, New(v), Len(bronze[v])) /\ todo' = Writes(v) \o t
    BY <1>5 DEF TypeFrames
  <2>2. IsPlan(t) /\ (\A job : Has(todo, job) <=> job = Head(todo) \/ Has(t, job))
        /\ \A job : Has(t, job) => Fits(Head(todo), job)
    BY <1>1, <1>2, PlanTail DEF PlanInv
  <2> HIDE DEF t
  <2>3. \A a : Has(t, a) => ~Write(a) /\ a.do # "drop" /\ a.do # "replay"
    BY <1>3, <2>2 DEF Fits
  <2>4. \A a : Has(todo, a) => ~Write(a) /\ a.do # "replay"
    BY <1>3, <2>2, <2>3
  <2>5. \A x : ~Has(t, On("replay", x)) /\ ~Has(todo, On("replay", x))
    BY <2>3, <2>4, OnFacts
  <2>6. bronze[v] \in Seq(Frame) /\ Len(bronze[v]) \in Nat
    BY <1>2 DEF WorldInv
  <2>7. silver[v].at \in Nat /\ silver[v].at <= Len(bronze[v])
    BY <1>2 DEF TablesInv
  <2>8. New(v) \in Seq(Frame)
    BY <2>6, <2>7, PartFacts DEF New
  <2>9. v \notin torn =>
           \E m \in Nat, n \in Nat :
             /\ m <= n /\ n <= Len(bronze[v]) /\ New(v) = SubSeq(bronze[v], m + 1, n)
             /\ Holds(v, bronze[v], m, silver[v].rows, samples[v], bbo[v], carried[v])
             /\ Reach(Has(t, On("replay", v)), Len(bronze[v]), bronze[v], n)
    <3>1. ASSUME v \notin torn
          PROVE  Holds(v, bronze[v], silver[v].at, silver[v].rows, samples[v], bbo[v], carried[v])
      <4>1. Done(v) /\ ~Redoing(todo, v) /\ NoWrites(todo, v)
        BY <1>2, <2>4, <2>5, <3>1, NoneWrites DEF DoneInv, Redoing
      <4>2. QED BY <4>1, PlainDone, Written
    <3>2. New(v) = SubSeq(bronze[v], silver[v].at + 1, Len(bronze[v]))
      BY DEF New
    <3>3. Reach(Has(t, On("replay", v)), Len(bronze[v]), bronze[v], Len(bronze[v]))
      BY <2>5 DEF Reach
    <3>4. Len(bronze[v]) <= Len(bronze[v])
      BY <2>6
    <3>5. QED BY <2>6, <2>7, <3>1, <3>2, <3>3, <3>4
  <2>10. QED BY <1>1, <1>3, <2>1, <2>2, <2>3, <2>4, <2>5, <2>8, <2>9, BatchStep
<1>6. QED BY <1>4, <1>5

LEMMA NextDayType ==
  ASSUME NEW v, bronze[v] \in Seq(Frame)
  PROVE  NextDayOf(v) \in Seq(Frame)
<1>1. ASSUME NEW d PROVE OfDay(v, d) \in Seq(Frame)
  <2> DEFINE q == bronze[v]
  <2>1. PICK F : IsDayRun(d, q, F)
    BY DayRuns
  <2> DEFINE P == {i \in Nat : i <= Len(q) => F[i] \in Seq(Frame)}
  <2>2. DOMAIN q = 1..Len(q) /\ Len(q) \in Nat /\ \A i \in DOMAIN q : q[i] \in Frame
    OBVIOUS
  <2> HIDE DEF q
  <2>3. 0 \in P
    <3>1. F[0] = <<>> /\ <<>> \in Seq(Frame)
      BY <2>1 DEF IsDayRun
    <3>2. QED BY <3>1
  <2>4. ASSUME NEW i \in Nat, i \in P PROVE i + 1 \in P
    <3> SUFFICES ASSUME i + 1 <= Len(q) PROVE F[i + 1] \in Seq(Frame)
      OBVIOUS
    <3>1. i + 1 \in 1..Len(q) /\ (i + 1) - 1 = i /\ i <= Len(q)
      BY <2>2
    <3>2. F[i] \in Seq(Frame) /\ q[i + 1] \in Frame
      BY <2>2, <2>4, <3>1
    <3>3. F[i + 1] = DayTurn(d, F[i], q[i + 1])
      BY <2>1, <3>1 DEF IsDayRun
    <3>4. F[i + 1] = F[i] \/ F[i + 1] = Append(F[i], q[i + 1])
      BY <3>3 DEF DayTurn
    <3>5. \A l \in Seq(Frame), f \in Frame : Append(l, f) \in Seq(Frame)
      OBVIOUS
    <3>6. Append(F[i], q[i + 1]) \in Seq(Frame)
      BY <3>2, <3>5
    <3>7. QED BY <3>2, <3>4, <3>6
  <2> HIDE DEF P
  <2>5. Nat \subseteq P
    BY <2>3, <2>4, SetInduction
  <2>6. Len(q) \in P
    BY <2>2, <2>5
  <2>7. F[Len(q)] \in Seq(Frame)
    BY <2>2, <2>6 DEF P
  <2>8. QED BY <2>1, <2>7, OfDayFolds DEF IsDayRun, q
<1>2. QED BY <1>1 DEF NextDayOf

\* A rebuild covers the next day.
LEMMA ReplayStep ==
  ASSUME IInv, NEW v \in Venue, ReplayDay(v)
  PROVE  IInv'
<1>1. /\ todo # <<>> /\ Head(todo) = On("replay", v) /\ UNCHANGED <<world, gone, torn, events>>
  BY DEF ReplayDay, Due, Idle
<1>2. WorldInv /\ TablesInv /\ PlanInv /\ DoneInv
  BY DEF IInv
<1>3. Head(todo).do = "replay" /\ ~Write(Head(todo)) /\ ~Drops(todo)
  BY <1>1, OnFacts DEF Write, Drops
<1>4. CASE DaysLeft(v) = {}
  <2>1. Rest /\ UNCHANGED <<tables, out>> /\ gone' \in BOOLEAN
    BY <1>1, <1>2, <1>4 DEF ReplayDay, TablesInv
  <2>2. \A x \in Venue : Head(todo) = On("replay", x) => x = v
    BY <1>1, OnIsOne
  <2>3. QED BY <1>1, <1>3, <1>4, <2>1, <2>2, SkipStep
<1>5. CASE DaysLeft(v) # {}
  <2>1. TypeBatch(v, NextDayOf(v), Len(bronze[v])) /\ todo' = Writes(v) \o todo
    BY <1>5 DEF ReplayDay
  <2>2. IsPlan(todo)
    BY <1>2 DEF PlanInv
  <2>3. /\ ~Awaits(todo, v)
        /\ \A x : x # v /\ Has(todo, On("replay", x)) => Awaits(todo, x)
        /\ \A a : Has(todo, a) => ~Write(a) /\ a.do # "drop" /\ a.do # "type"
    BY <1>1, <2>2, HeadReplay
  <2>4. Has(todo, On("replay", v))
    BY <1>1, <2>2, PlanTail
  <2>5. \A x \in Venue : Has(todo, On("replay", x)) /\ (x = v => Awaits(todo, v)) => x # v /\ silver[x].at = 0
    BY <1>2, <1>3, <2>3 DEF PlanInv
  <2>6. bronze[v] \in Seq(Frame) /\ Len(bronze[v]) \in Nat /\ InOrder(bronze[v])
    BY <1>2 DEF WorldInv
  <2>7. NextDayOf(v) \in Seq(Frame)
    BY <2>6, NextDayType
  <2>8. v \notin torn =>
           \E m \in Nat, n \in Nat :
             /\ m <= n /\ n <= Len(bronze[v]) /\ NextDayOf(v) = SubSeq(bronze[v], m + 1, n)
             /\ Holds(v, bronze[v], m, silver[v].rows, samples[v], bbo[v], carried[v])
             /\ Reach(Has(todo, On("replay", v)), Len(bronze[v]), bronze[v], n)
    <3> SUFFICES ASSUME v \notin torn
                 PROVE  \E m \in Nat, n \in Nat :
                          /\ m <= n /\ n <= Len(bronze[v]) /\ NextDayOf(v) = SubSeq(bronze[v], m + 1, n)
                          /\ Holds(v, bronze[v], m, silver[v].rows, samples[v], bbo[v], carried[v])
                          /\ Reach(Has(todo, On("replay", v)), Len(bronze[v]), bronze[v], n)
      OBVIOUS
    <3>1. PICK m \in 0..Len(bronze[v]) :
            /\ Reach(Redoing(todo, v), silver[v].at, bronze[v], m)
            /\ Holds(v, bronze[v], m, silver[v].rows, FullSamples(v), FullBbo(v), FullCarried(v))
      BY <1>2 DEF DoneInv, Done
    <3>2. NoWrites(todo, v)
      BY <2>3, NoneWrites
    <3>3. Holds(v, bronze[v], m, silver[v].rows, samples[v], bbo[v], carried[v])
      BY <3>1, <3>2, Written
    <3>4. Named(silver[v].rows) = {bronze[v][i].n : i \in 1..m}
      BY <3>1 DEF Holds
    <3>5. DayBreak(bronze[v], m)
      <4>1. m = 0 => DayBreak(bronze[v], m)
        <5>1. \A i \in DOMAIN bronze[v] : ~(i <= 0)
          BY <2>6
        <5>2. QED BY <5>1 DEF DayBreak
      <4>2. Redoing(todo, v)
        BY <1>3, <2>4 DEF Redoing
      <4>3. silver[v].at = 0 => m = 0
        BY <3>1 DEF Reach
      <4>4. silver[v].at # 0 => DayBreak(bronze[v], m)
        BY <3>1, <4>2 DEF Reach
      <4>5. QED BY <4>1, <4>3, <4>4
    <3>6. PICK n \in Nat : /\ m < n /\ n <= Len(bronze[v]) /\ DayBreak(bronze[v], n)
                           /\ NextDayOf(v) = SubSeq(bronze[v], m + 1, n)
      BY <1>5, <2>6, <3>4, <3>5, NextDay
    <3>7. m \in Nat /\ m <= n /\ Len(bronze[v]) # 0
      BY <2>6, <3>6
    <3>8. Reach(Has(todo, On("replay", v)), Len(bronze[v]), bronze[v], n)
      BY <2>4, <3>6, <3>7 DEF Reach
    <3>9. QED BY <3>3, <3>6, <3>7, <3>8
  <2>9. QED BY <1>1, <1>3, <2>1, <2>2, <2>3, <2>5, <2>7, <2>8, BatchStep
<1>6. QED BY <1>4, <1>5

LEMMA PublishStep ==
  ASSUME IInv, NEW v \in Venue, NEW s \in Symbols, NEW snapshot \in BOOLEAN, NEW dropped \in BOOLEAN,
         Publish(v, s, snapshot, dropped)
  PROVE  IInv'
<1>1. Idle /\ UNCHANGED <<tables, gone, todo, out, torn>>
  BY DEF Publish
<1>2. WorldInv /\ bronze \in [Venue -> Seq(Frame)]
  BY DEF IInv, WorldInv
<1>3. WorldInv' /\ (bronze' = bronze \/ \E f \in Frame : bronze' = [bronze EXCEPT ![v] = Append(@, f)])
  BY <1>2, PublishWorld
<1>4. \A x \in Venue : bronze'[x] = bronze[x] \/ \E f \in Frame : bronze'[x] = Append(bronze[x], f)
  BY <1>2, <1>3
<1>5. QED BY <1>1, <1>3, <1>4, IdleStep

LEMMA StartIngestStep ==
  ASSUME IInv, StartIngest
  PROVE  IInv'
<1> DEFINE t == ForEach("type", Venues)
<1>1. Begin(t) /\ events' = events /\ UNCHANGED world
  BY DEF StartIngest, Begin
<1>2. Venues \in Seq(Venue) /\ \A i, j \in DOMAIN Venues : Venues[i] = Venues[j] => i = j
  BY Constants
<1>3. IsPlan(t) /\ \A job : Has(t, job) => job.do = "type"
  BY <1>2, ForEachPlan
<1> HIDE DEF t
<1>4. \A a : Has(t, a) => ~Write(a)
  BY <1>3 DEF Write
<1>5. \A v : ~Has(t, On("replay", v))
  BY <1>3, OnFacts
<1>6. WorldInv'
  BY <1>1, SameWorld DEF IInv, Ticks
<1>7. QED BY <1>1, <1>3, <1>4, <1>5, <1>6, StartStep

LEMMA StartRebuildStep ==
  ASSUME IInv, StartRebuild
  PROVE  IInv'
<1> DEFINE Jobs(vs) == <<[do |-> "drop", on |-> Range(vs)], [do |-> "create", on |-> Range(vs)]>>
                         \o ForEach("replay", vs)
<1>1. PICK vs \in {Venues} \cup {<<v>> : v \in Venue} : Begin(Jobs(vs))
  BY DEF StartRebuild
<1> DEFINE t == Jobs(vs)
<1>2. Ticks /\ UNCHANGED world
  BY <1>1 DEF StartRebuild, Event, Ticks, Begin
<1>3. vs \in Seq(Venue) /\ \A i, j \in DOMAIN vs : vs[i] = vs[j] => i = j
  <2>1. CASE vs = Venues
    BY <2>1, Constants
  <2>2. ASSUME NEW v \in Venue, vs = <<v>>
        PROVE  vs \in Seq(Venue) /\ \A i, j \in DOMAIN vs : vs[i] = vs[j] => i = j
    <3>1. DOMAIN <<v>> = {1} /\ <<v>> \in Seq(Venue)
      OBVIOUS
    <3>2. QED BY <2>2, <3>1
  <2>3. QED BY <2>1, <2>2
<1>4. IsPlan(t) /\ Drops(t) /\ \A job : Has(t, job) => ~Write(job)
  BY <1>3, RebuildPlan
<1>5. WorldInv'
  BY <1>2, SameWorld DEF IInv
<1>6. Begin(t)
  BY <1>1
<1> HIDE DEF t
<1>7. QED BY <1>4, <1>5, <1>6, StartStep

LEMMA CreateStep ==
  ASSUME IInv, CreateTables
  PROVE  IInv'
<1>1. /\ todo # <<>> /\ Head(todo).do = "create" /\ Rest /\ gone' = FALSE
      /\ UNCHANGED <<world, tables, out, torn, events>>
  BY DEF CreateTables, Idle
<1>2. ~Write(Head(todo)) /\ ~Drops(todo) /\ \A v \in Venue : Head(todo) # On("replay", v)
  BY <1>1, OnFacts DEF Write, Drops
<1>3. QED BY <1>1, <1>2, SkipStep

LEMMA NextIInv ==
  ASSUME IInv, [Next]_vars
  PROVE  IInv'
<1>1. ASSUME NEW v \in Venue, NEW s \in Symbols, NEW snapshot \in BOOLEAN, NEW dropped \in BOOLEAN,
             Publish(v, s, snapshot, dropped)
      PROVE  IInv'
  BY <1>1, PublishStep
<1>2. ASSUME NEW v \in Venue, Reconnect(v) PROVE IInv'
  <2>1. Idle /\ UNCHANGED <<tables, gone, todo, out, torn>> /\ bronze' = bronze
    BY <1>2 DEF Reconnect
  <2>2. WorldInv'
    BY <1>2, ReconnectWorld DEF IInv
  <2>3. QED BY <2>1, <2>2, IdleStep
<1>3. CASE NextSecond
  <2>1. Idle /\ UNCHANGED <<tables, gone, todo, out, torn>> /\ bronze' = bronze
    BY <1>3 DEF NextSecond
  <2>2. WorldInv'
    BY <1>3, SecondWorld DEF IInv
  <2>3. QED BY <2>1, <2>2, IdleStep
<1>4. CASE StartIngest
  BY <1>4, StartIngestStep
<1>5. CASE StartRebuild
  BY <1>5, StartRebuildStep
<1>6. CASE DropTables
  BY <1>6, DropStep
<1>7. CASE CreateTables
  BY <1>7, CreateStep
<1>8. CASE Killed
  <2>1. Cut /\ Ticks
    BY <1>8 DEF Killed, Event, Ticks
  <2>2. QED BY <2>1, CutStep
<1>9. CASE Dies
  <2>1. Cut /\ Ticks
    BY <1>9 DEF Dies, Ticks
  <2>2. QED BY <2>1, CutStep
<1>10. ASSUME NEW v \in Venue, TypeFrames(v) PROVE IInv'
  BY <1>10, TypeStep
<1>11. ASSUME NEW v \in Venue, ReplayDay(v) PROVE IInv'
  BY <1>11, ReplayStep
<1>12. ASSUME NEW v \in Venue, AppendSamples(v) PROVE IInv'
  BY <1>12, SampleStep
<1>13. ASSUME NEW v \in Venue, AppendBbo(v) PROVE IInv'
  BY <1>13, BboStep
<1>14. ASSUME NEW v \in Venue, MergeState(v) PROVE IInv'
  BY <1>14, CarryStep
<1>15. CASE UNCHANGED vars
  <2>1. UNCHANGED <<venueBook, conn, now, bronze, silver, samples, bbo, carried, gone, todo, out, torn, events>>
    BY <1>15 DEF vars
  <2>2. WorldInv'
    BY <2>1 DEF IInv, WorldInv
  <2>3. TablesInv'
    BY <2>1 DEF IInv, TablesInv
  <2>4. PlanInv'
    BY <2>1 DEF IInv, PlanInv
  <2>5. DoneInv'
    BY <2>1 DEF IInv, DoneInv, Done, FullSamples, FullBbo, FullCarried
  <2>6. QED BY <2>2, <2>3, <2>4, <2>5 DEF IInv
<1>16. QED
  BY <1>1, <1>2, <1>3, <1>4, <1>5, <1>6, <1>7, <1>8, <1>9, <1>10, <1>11, <1>12, <1>13, <1>14, <1>15 DEF Next

LEMMA Invariance == Spec => []IInv
<1>1. Init => IInv
  BY InitIInv
<1>2. IInv /\ [Next]_vars => IInv'
  BY NextIInv
<1>3. QED BY <1>1, <1>2, PTL DEF Spec

-----------------------------------------------------------------------------
(* What a settled venue holds *)

LEMMA SettledHolds ==
  ASSUME IInv, NEW v \in Venue, Settled(v)
  PROVE  /\ silver[v].at \in 0..Len(bronze[v])
         /\ Holds(v, bronze[v], silver[v].at, silver[v].rows, samples[v], bbo[v], carried[v])
<1>1. todo = <<>> /\ v \notin torn
  BY DEF Settled, Idle
<1>2. NoWrites(todo, v) /\ ~Redoing(todo, v)
  BY <1>1, EmptyPlan DEF NoWrites, Redoing
<1>3. Done(v)
  BY <1>1 DEF IInv, DoneInv
<1>4. FullSamples(v) = samples[v] /\ FullBbo(v) = bbo[v] /\ FullCarried(v) = carried[v]
  BY <1>2, Written
<1>5. QED BY <1>2, <1>3, <1>4, PlainDone

\* A connection that is not in the frames neither says nor shows anything.
LEMMA WholeReplay ==
  ASSUME NEW q \in Seq(Frame), NEW m \in 0..Len(q)
  PROVE  /\ Replay(SubSeq(q, 1, m), <<>>).verdicts = AllSaid(q, m)
         /\ Replay(SubSeq(q, 1, m), <<>>).samples = AllShown(q, m)
<1> DEFINE p == SubSeq(q, 1, m)
           r == Replay(p, <<>>)
<1>1. p \in Seq(Frame)
  BY PrefixFacts
<1>2. \A k : Walked(k, p, <<>>) = End(k, q, m)
  <2>1. \A k : Resumed(k, <<>>) = Fresh
    BY DEF Resumed, Fresh
  <2>2. QED BY <2>1, WalkedIsWalks DEF End
<1>3. KeysIn(p) \subseteq Key
  BY <1>1, KeysTyped
<1>4. \A k : k \notin KeysIn(p) => End(k, q, m) = Fresh
  BY <1>1, Untouched, FreshType DEF End
<1>5. r.verdicts = UNION {Walked(k, p, <<>>).verdicts : k \in KeysIn(p)}
      /\ r.samples = UNION {Walked(k, p, <<>>).samples : k \in KeysIn(p)}
  BY ReplayParts
<1> HIDE DEF p, r
<1>6. r.verdicts = UNION {End(k, q, m).verdicts : k \in KeysIn(p)}
      /\ r.samples = UNION {End(k, q, m).samples : k \in KeysIn(p)}
  BY <1>2, <1>5
<1>7. \A k : k \notin KeysIn(p) => End(k, q, m).verdicts = {} /\ End(k, q, m).samples = {}
  BY <1>4 DEF Fresh
<1>8. UNION {End(k, q, m).verdicts : k \in KeysIn(p)} = UNION {End(k, q, m).verdicts : k \in Key}
  BY <1>3, <1>7
<1>9. UNION {End(k, q, m).samples : k \in KeysIn(p)} = UNION {End(k, q, m).samples : k \in Key}
  BY <1>3, <1>7
<1>10. r.verdicts = AllSaid(q, m) /\ r.samples = AllShown(q, m)
  BY <1>6, <1>8, <1>9 DEF AllSaid, AllShown
<1>11. QED BY <1>10 DEF p, r

LEMMA BatchesFromIInv ==
  ASSUME IInv
  PROVE  BatchesLeaveNoTrace
<1> SUFFICES ASSUME NEW v \in Venue, Settled(v)
             PROVE  /\ bbo[v] = samples[v]
                    /\ {r[1] : r \in silver[v].rows} = {f.n : f \in Range(Covered(v))}
                    /\ IF v \in Replayed
                       THEN LET whole == Replay(Covered(v), <<>>) IN
                            /\ silver[v].rows = whole.verdicts /\ AllSamples(v) = whole.samples
                            /\ \A i, j \in DOMAIN samples[v] : i # j => samples[v][i] \cap samples[v][j] = {}
                       ELSE LastOfSecond(Covered(v)) \subseteq AllSamples(v)
  BY DEF BatchesLeaveNoTrace
<1> DEFINE q == bronze[v]
           m == silver[v].at
<1>1. m \in 0..Len(q) /\ Holds(v, q, m, silver[v].rows, samples[v], bbo[v], carried[v])
  BY SettledHolds
<1>2. q \in Seq(Frame)
  BY DEF IInv, WorldInv
<1>3. Covered(v) = SubSeq(q, 1, m)
  BY DEF Covered
<1>4. AllSamples(v) = UNION Range(samples[v])
  BY DEF AllSamples
<1> HIDE DEF q, m
<1>5. bbo[v] = samples[v]
  BY <1>1 DEF Holds
<1>6. {r[1] : r \in silver[v].rows} = {f.n : f \in Range(Covered(v))}
  <2>1. {r[1] : r \in silver[v].rows} = {q[i].n : i \in 1..m}
    BY <1>1 DEF Holds, Named
  <2>2. DOMAIN SubSeq(q, 1, m) = 1..m /\ \A i \in 1..m : SubSeq(q, 1, m)[i] = q[i]
    BY <1>1, <1>2, PrefixFacts
  <2>3. Range(SubSeq(q, 1, m)) = {q[i] : i \in 1..m}
    BY <2>2 DEF Range
  <2>4. {f.n : f \in Range(SubSeq(q, 1, m))} = {q[i].n : i \in 1..m}
    BY <2>3
  <2>5. QED BY <1>3, <2>1, <2>4
<1>7. CASE v \in Replayed
  <2>1. /\ silver[v].rows = AllSaid(q, m) /\ UNION Range(samples[v]) = AllShown(q, m)
        /\ Disjoint(samples[v])
    BY <1>1, <1>7 DEF Holds
  <2>2. Replay(Covered(v), <<>>).verdicts = AllSaid(q, m) /\ Replay(Covered(v), <<>>).samples = AllShown(q, m)
    BY <1>1, <1>2, <1>3, WholeReplay
  <2>3. \A i, j \in DOMAIN samples[v] : i # j => samples[v][i] \cap samples[v][j] = {}
    BY <2>1 DEF Disjoint
  <2>4. QED BY <1>4, <1>5, <1>6, <1>7, <2>1, <2>2, <2>3
<1>8. CASE v \notin Replayed
  <2>1. LastOfSecond(Covered(v)) \subseteq AllSamples(v)
    BY <1>1, <1>3, <1>4, <1>8 DEF Holds
  <2>2. QED BY <1>5, <1>6, <1>8, <2>1
<1>9. QED BY <1>7, <1>8

LEMMA TypeFromIInv ==
  ASSUME IInv
  PROVE  TypeOK
<1>1. WorldInv /\ TablesInv
  BY DEF IInv
<1>2. events \in 0..MaxEvents /\ MaxEvents \in Nat
  BY <1>1, Constants DEF WorldInv
<1>3. 1..events \subseteq Change /\ 0..events \subseteq Conn /\ 0..events \subseteq Second
  BY <1>2 DEF Change, Conn, Second
<1>4. venueBook \in [Venue -> [Symbols -> SUBSET Change]]
  <2>1. \A v \in Venue : venueBook[v] \in [Symbols -> SUBSET Change]
    BY <1>1, <1>3 DEF WorldInv
  <2>2. QED BY <1>1, <2>1 DEF WorldInv
<1>5. conn \in [Venue -> Conn] /\ now \in Second /\ bronze \in [Venue -> Seq(Frame)]
  BY <1>1, <1>3 DEF WorldInv
<1>6. \A v \in Venue : DOMAIN carried[v] \subseteq Key /\ Range(carried[v]) \subseteq State
  BY <1>1 DEF TablesInv, StateMap, Range
<1>7. out.samples \subseteq Sample
  BY <1>1 DEF TablesInv, IsOutput
<1>8. QED BY <1>1, <1>2, <1>4, <1>5, <1>6, <1>7 DEF TablesInv, TypeOK

LEMMA ReplayedHolds ==
  ASSUME IInv, NEW v \in Replayed, Settled(v)
  PROVE  /\ bronze[v] \in Seq(Frame) /\ InOrder(bronze[v]) /\ silver[v].at \in 0..Len(bronze[v])
         /\ AllSamples(v) = AllShown(bronze[v], silver[v].at)
<1>1. v \in Venue
  BY Constants
<1>2. bronze[v] \in Seq(Frame) /\ InOrder(bronze[v])
  BY <1>1 DEF IInv, WorldInv
<1>3. QED BY <1>1, <1>2, SettledHolds DEF Holds, AllSamples

LEMMA OneSampleFromIInv ==
  ASSUME IInv
  PROVE  OneSamplePerSecond
<1>1. TypeOK
  BY TypeFromIInv
<1>2. ASSUME NEW v \in Replayed, Settled(v), NEW a \in AllSamples(v), NEW b \in AllSamples(v),
             a.symbol = b.symbol, a.second = b.second
      PROVE  a = b
  <2>1. /\ bronze[v] \in Seq(Frame) /\ InOrder(bronze[v]) /\ silver[v].at \in 0..Len(bronze[v])
        /\ AllSamples(v) = AllShown(bronze[v], silver[v].at)
    BY <1>2, ReplayedHolds
  <2>2. QED BY <1>2, <2>1, OneShownPerSecond
<1>3. QED BY <1>1, <1>2 DEF OneSamplePerSecond

LEMMA VerifiedFromIInv ==
  ASSUME IInv
  PROVE  VerifiedMeansVenues
<1> DEFINE Heard(v, a) ==
      {f \in Range(bronze[v]) : KeyOf(f) = <<a.symbol, a.conn>> /\ f.second <= a.second}
<1>1. ASSUME NEW v \in Replayed, Settled(v), NEW a \in AllSamples(v), a.ok = "true"
      PROVE  \E f \in Heard(v, a) : TopTen(a.book) = TopTen(f.truth) /\ \A g \in Heard(v, a) : g.n <= f.n
  <2> DEFINE q == bronze[v]
  <2>1. /\ q \in Seq(Frame) /\ InOrder(q) /\ silver[v].at \in 0..Len(q)
        /\ AllSamples(v) = AllShown(q, silver[v].at)
    BY <1>1, ReplayedHolds
  <2>2. PICK i \in DOMAIN q :
           /\ KeyOf(q[i]) = <<a.symbol, a.conn>> /\ q[i].second <= a.second /\ TopTen(a.book) = TopTen(q[i].truth)
           /\ \A j \in DOMAIN q : KeyOf(q[j]) = <<a.symbol, a.conn>> /\ q[j].second <= a.second
                => q[j].n <= q[i].n
    BY <1>1, <2>1, ShownIsLastHeard
  <2>3. q[i] \in Heard(v, a)
    BY <2>2 DEF Range
  <2>4. \A g \in Heard(v, a) : g.n <= q[i].n
    BY <2>2 DEF Range
  <2>5. QED BY <2>2, <2>3, <2>4
<1>2. QED BY <1>1 DEF VerifiedMeansVenues

-----------------------------------------------------------------------------
(* The theorems *)

\* process() and rebuild(): for any venues, symbols, changes, seconds, kills and
\* rebuilds, a settled venue's tables are those of one walk over the frames
\* covered, each sample written and projected once.
THEOREM BatchesLeaveNoTraceHolds == Spec => []BatchesLeaveNoTrace
BY Invariance, BatchesFromIInv, PTL

\* gold.book_top20: a symbol has one sample in a second, also when it changes
\* connections within one (flush_seconds).
THEOREM OneSamplePerSecondHolds == Spec => []OneSamplePerSecond
BY Invariance, OneSampleFromIInv, PTL

\* checksum_ok: the ten best levels of the sample are those of the venue's book after the
\* last frame of its connection in that second or before (kraken_checksum, replay_partition).
THEOREM VerifiedMeansVenuesHolds == Spec => []VerifiedMeansVenues
BY Invariance, VerifiedFromIInv, PTL
===============================================================================
