------------------------- MODULE CaptureSessionProofs -------------------------
(***************************************************************************)
(* Proofs about CaptureSession for every set of venues and list of         *)
(* symbols, every size of its queues and every bound: any number of        *)
(* changes, skipped frames, lost connections, restarts and ticks.          *)
(***************************************************************************)
EXTENDS CaptureSession, TLAPS, WellFoundedInduction, FiniteSetTheorems

-----------------------------------------------------------------------------
(* The parts of the invariant *)

Sent(f) ==
  /\ f.kind = "instrument" <=> f.symbol = "all"
  /\ IsBook(f) => f.version \in Change

FrameInv ==
  /\ \A i \in DOMAIN wire : Sent(wire[i])
  /\ parked \in [Symbols -> Seq(Frame)]
  /\ \A s \in Symbols : \A i \in DOMAIN parked[s] :
       Sent(parked[s][i]) /\ IsBook(parked[s][i]) /\ parked[s][i].symbol = s

PhaseInv ==
  /\ phase = "waiting" => wire = <<>> /\ requests = <<>> /\ subscribed = {}
  /\ \A s \in Symbols : version[s] <= changes + faults + 1

\* A book of s where l holds the numbers of the last frames, and of the symbols in B these
\* do not tell whether it is the venue's.
MayHold(b, s, l, B) == b \in {None, l[s]} \/ (b = Skewed /\ s \in B)

EndsWith(q, s, l, B) == l[s] = q[Len(q)].version /\ (q[Len(q)].tells \/ s \in B)

\* kraken keeps no book before the instrument frame; what waits ends with the last frame.
ParkInv ==
  /\ ~anchored => book = Nothing
  /\ precise => \A s \in Symbols : parked[s] = <<>>
  /\ exchange = "kraken" /\ ~precise =>
       /\ book = Nothing
       /\ \A s \in Symbols : parked[s] # <<>> => EndsWith(parked[s], s, last, blind)

BookInv == \A s \in Symbols : MayHold(book[s], s, last, blind)

(***************************************************************************)
(* coinbase: between two frames of a symbol the numbers are adjacent, or a *)
(* frame after the first of them, of whichever symbol, carries the gap;    *)
(* likewise from the last frame handled to the first on the wire, and from *)
(* the last on the wire to the book the venue has.                         *)
(***************************************************************************)
Clear(i, k) == \A j \in DOMAIN wire : i < j /\ j <= k => ~wire[j].gap
Apart(s, i, k) == \A j \in DOMAIN wire : i < j /\ j < k => wire[j].symbol # s

ChainInv ==
  exchange = "coinbase" /\ Open => \A s \in Symbols :
    /\ \A i, k \in DOMAIN wire :
         i < k /\ wire[i].symbol = s /\ wire[k].symbol = s /\ wire[k].kind = "update"
           /\ Apart(s, i, k) /\ Clear(i, k) => wire[k].version = wire[i].version + 1
    /\ \A k \in DOMAIN wire :
         book[s] # None /\ wire[k].symbol = s /\ wire[k].kind = "update"
           /\ Apart(s, 0, k) /\ Clear(0, k) => wire[k].version = last[s] + 1
    /\ \A i \in DOMAIN wire :
         wire[i].symbol = s /\ Apart(s, i, Len(wire) + 1) /\ Clear(i, Len(wire)) /\ ~skipped
           => version[s] = wire[i].version
    /\ book[s] # None /\ Apart(s, 0, Len(wire) + 1) /\ Clear(0, Len(wire)) /\ ~skipped
         => version[s] = last[s]

IInv == TypeOK /\ FrameInv /\ PhaseInv /\ ParkInv /\ BookInv /\ ChainInv /\ HolesArePending

-----------------------------------------------------------------------------
(* Induction, and what a fold computes *)

\* Induction over the naturals, as a fact about sets of them.
LEMMA NatMin ==
  ASSUME NEW T \in SUBSET Nat, T # {}
  PROVE  \E x \in T : \A y \in T : x <= y
<1> DEFINE R == {p \in Nat \X Nat : p[1] < p[2]}
<1>1. IsWellFoundedOn(R, Nat)
  BY NatLessThanWellFounded DEF OpToRel
<1>2. \A x, y \in Nat : <<y, x>> \in R <=> y < x
  OBVIOUS
<1> HIDE DEF R
<1>3. PICK x \in T : \A y \in T : <<y, x>> \notin R
  BY <1>1, WFMin
<1>4. \A y \in T : ~(y < x)
  BY <1>2, <1>3
<1>5. QED BY <1>4

LEMMA SetInduction ==
  ASSUME NEW P, 0 \in P, \A n \in Nat : n \in P => n + 1 \in P
  PROVE  Nat \subseteq P
<1> SUFFICES ASSUME Nat \ P # {} PROVE FALSE
  OBVIOUS
<1>1. PICK x \in Nat \ P : \A y \in Nat \ P : x <= y
  BY NatMin, Nat \ P \in SUBSET Nat
<1>2. x # 0 /\ x - 1 \in Nat
  BY <1>1
<1>3. x - 1 \in P
  BY <1>1, <1>2
<1>4. (x - 1) + 1 = x
  BY <1>1
<1>5. QED BY <1>1, <1>2, <1>3, <1>4

LEMMA Maximum ==
  ASSUME NEW n \in Nat, NEW S \in SUBSET (1..n), S # {}
  PROVE  Max(S) \in S /\ \A y \in S : y <= Max(S)
<1> DEFINE T == {n - x : x \in S}
<1>1. T \in SUBSET Nat
  <2>1. \A x \in S : x \in Nat /\ x <= n
    OBVIOUS
  <2>2. \A x \in S : n - x \in Nat
    BY <2>1
  <2>3. QED BY <2>2
<1>2. T # {}
  <2>1. PICK x \in S : TRUE
    OBVIOUS
  <2>2. n - x \in T
    OBVIOUS
  <2>3. QED BY <2>2
<1>3. PICK t \in T : \A u \in T : t <= u
  <2> HIDE DEF T
  <2>1. QED BY <1>1, <1>2, NatMin
<1>4. PICK x \in S : t = n - x
  BY <1>3
<1>5. \A y \in S : x >= y
  <2> TAKE y \in S
  <2>1. n - x <= n - y
    BY <1>3, <1>4
  <2>2. x \in Nat /\ y \in Nat
    OBVIOUS
  <2>3. QED BY <2>1, <2>2
<1>6. \E z \in S : \A y \in S : z >= y
  BY <1>5
<1>7. Max(S) \in S /\ \A y \in S : Max(S) >= y
  BY <1>6 DEF Max
<1>8. \A y \in S : y \in Nat
  OBVIOUS
<1>9. Max(S) \in Nat
  BY <1>7, <1>8
<1>10. QED BY <1>7, <1>8, <1>9

LEMMA MaximumOfRange ==
  ASSUME NEW n \in Nat \ {0}
  PROVE  Max(1..n) = n /\ (1..n) \ {n} = 1..(n - 1)
<1>1. n \in 1..n
  OBVIOUS
<1>2. Max(1..n) \in 1..n /\ \A y \in 1..n : y <= Max(1..n)
  <2>1. 1..n # {} /\ n \in Nat
    BY <1>1
  <2>2. QED BY <2>1, Maximum
<1>3. Max(1..n) = n
  <2>1. Max(1..n) \in Nat /\ Max(1..n) <= n
    BY <1>2
  <2>2. n <= Max(1..n)
    BY <1>1, <1>2
  <2>3. QED BY <2>1, <2>2
<1>4. (1..n) \ {n} = 1..(n - 1)
  OBVIOUS
<1>5. QED BY <1>3, <1>4

(***************************************************************************)
(* The function by which a fold is defined exists: on the sets of the      *)
(* first n indices, it takes the greatest of a set last.                   *)
(***************************************************************************)
Steps(n, b, step, G) ==
  \A S \in SUBSET (1..n) : G[S] = IF S = {} THEN b ELSE step[<<Max(S), G[S \ {Max(S)}]>>]

HasFold(n, A, b, step) == \E G \in [SUBSET (1..n) -> A] : Steps(n, b, step, G)

LEMMA FoldExtends ==
  ASSUME NEW n \in Nat, NEW A, NEW b \in A, NEW step,
         \A a \in A : step[<<n + 1, a>>] \in A, HasFold(n, A, b, step)
  PROVE  HasFold(n + 1, A, b, step)
<1>1. PICK G \in [SUBSET (1..n) -> A] : Steps(n, b, step, G)
  BY DEF HasFold
<1> DEFINE H == [S \in SUBSET (1..(n + 1)) |->
                   IF n + 1 \in S THEN step[<<n + 1, G[S \ {n + 1}]>>] ELSE G[S]]
<1>2. \A S \in SUBSET (1..(n + 1)) : /\ n + 1 \notin S => S \in SUBSET (1..n)
                                    /\ S \ {n + 1} \in SUBSET (1..n)
  OBVIOUS
<1>3. H \in [SUBSET (1..(n + 1)) -> A]
  <2> SUFFICES ASSUME NEW S \in SUBSET (1..(n + 1)) PROVE H[S] \in A
    OBVIOUS
  <2>1. CASE n + 1 \in S
    BY <1>2, <2>1
  <2>2. CASE n + 1 \notin S
    BY <1>2, <2>2
  <2>3. QED BY <2>1, <2>2
<1>4. ASSUME NEW S \in SUBSET (1..(n + 1))
      PROVE  H[S] = IF S = {} THEN b ELSE step[<<Max(S), H[S \ {Max(S)}]>>]
  <2>0. S # {} => Max(S) \in S /\ \A y \in S : y <= Max(S)
    BY Maximum, n + 1 \in Nat
  <2>1. CASE n + 1 \in S
    <3>1. Max(S) = n + 1
      <4>1. Max(S) \in S /\ n + 1 <= Max(S)
        BY <2>0, <2>1
      <4>2. \A x \in S : x \in Nat /\ x <= n + 1
        OBVIOUS
      <4>3. Max(S) \in Nat /\ Max(S) <= n + 1
        BY <4>1, <4>2
      <4>4. QED BY <4>1, <4>3
    <3>2. S \ {n + 1} \in SUBSET (1..(n + 1)) /\ n + 1 \notin S \ {n + 1}
      OBVIOUS
    <3>3. H[S \ {n + 1}] = G[S \ {n + 1}]
      BY <3>2
    <3>4. H[S] = step[<<n + 1, G[S \ {n + 1}]>>]
      BY <2>1
    <3>5. QED BY <2>1, <3>1, <3>3, <3>4
  <2>2. CASE n + 1 \notin S
    <3>1. S \in SUBSET (1..n) /\ H[S] = G[S]
      BY <1>2, <2>2
    <3>2. S \ {Max(S)} \in SUBSET (1..(n + 1)) /\ n + 1 \notin S \ {Max(S)}
      BY <2>2
    <3>3. H[S \ {Max(S)}] = G[S \ {Max(S)}]
      BY <3>2
    <3>4. QED BY <1>1, <3>1, <3>3 DEF Steps
  <2>3. QED BY <2>1, <2>2
<1> HIDE DEF H
<1>5. Steps(n + 1, b, step, H)
  BY <1>4 DEF Steps
<1>6. QED BY <1>3, <1>5 DEF HasFold

LEMMA FoldExists ==
  ASSUME NEW N \in Nat, NEW A, NEW b \in A, NEW step,
         \A i \in 1..N, a \in A : step[<<i, a>>] \in A
  PROVE  HasFold(N, A, b, step)
<1> DEFINE P == {n \in Nat : n <= N => HasFold(n, A, b, step)}
<1>1. 0 \in P
  <2> DEFINE G == [S \in SUBSET (1..0) |-> b]
  <2>1. \A S \in SUBSET (1..0) : S = {}
    OBVIOUS
  <2>2. G \in [SUBSET (1..0) -> A] /\ Steps(0, b, step, G)
    BY <2>1 DEF Steps
  <2>3. HasFold(0, A, b, step)
    BY <2>2 DEF HasFold
  <2>4. QED BY <2>3
<1>2. ASSUME NEW n \in Nat, n \in P PROVE n + 1 \in P
  <2>1. CASE n + 1 <= N
    <3>1. n + 1 \in 1..N /\ n <= N
      BY <2>1
    <3>2. HasFold(n, A, b, step)
      BY <1>2, <3>1
    <3>3. HasFold(n + 1, A, b, step)
      BY <3>1, <3>2, FoldExtends
    <3>4. QED BY <3>3
  <2>2. CASE ~(n + 1 <= N)
    BY <2>2
  <2>3. QED BY <2>1, <2>2
<1>3. Nat \subseteq P
  <2> HIDE DEF P
  <2>1. QED BY <1>1, <1>2, SetInduction
<1>4. N \in P /\ N <= N
  BY <1>3
<1>5. QED BY <1>4

SameSteps(n, F, G) == F[0] = G[0] /\ \A i \in 1..n : F[i - 1] = G[i - 1] => F[i] = G[i]

LEMMA RunsAgree ==
  ASSUME NEW n \in Nat, NEW F, NEW G, SameSteps(n, F, G)
  PROVE  F[n] = G[n]
<1> DEFINE P == {i \in Nat : i <= n => F[i] = G[i]}
<1>1. 0 \in P
  BY DEF SameSteps
<1>2. ASSUME NEW i \in Nat, i \in P PROVE i + 1 \in P
  <2>1. CASE i + 1 <= n
    <3>1. i + 1 \in 1..n /\ i <= n /\ (i + 1) - 1 = i
      BY <2>1
    <3>2. F[i] = G[i]
      BY <1>2, <3>1
    <3>3. F[i + 1] = G[i + 1]
      BY <3>1, <3>2 DEF SameSteps
    <3>4. QED BY <3>3
  <2>2. CASE ~(i + 1 <= n)
    BY <2>2
  <2>3. QED BY <2>1, <2>2
<1>3. Nat \subseteq P
  <2> HIDE DEF P
  <2>1. QED BY <1>1, <1>2, SetInduction
<1>4. QED BY <1>3

-----------------------------------------------------------------------------
(* What the replay of a list of records makes of a book *)

Fold(s, b, q) == FoldLeft(LAMBDA c, f : Reads(c, s, f), b, q)

Records == Frame \cup {Other}

IsFold(s, b, q, G) ==
  G = [S \in SUBSET DOMAIN q |-> IF S = {} THEN b ELSE Reads(G[S \ {Max(S)}], s, q[Max(S)])]

LEMMA ReadsType ==
  ASSUME NEW s \in Symbols, NEW b \in Replayed, NEW f \in Records
  PROVE  Reads(b, s, f) \in Replayed
BY CaptureConstants DEF CaptureConstants, Reads, Folded, Replayed, Records, Frame, Other, None, Wrong

IsRun(s, b, q, F) ==
  /\ F[0] = b
  /\ \A i \in 1..Len(q) : F[i] = Reads(F[i - 1], s, q[i])
  /\ Fold(s, b, q) = F[Len(q)]

LEMMA FoldRuns ==
  ASSUME NEW s \in Symbols, NEW b \in Replayed, NEW q \in Seq(Records)
  PROVE  \E F : IsRun(s, b, q, F)
<1> DEFINE N == Len(q)
           step == [p \in (1..N) \X Replayed |-> Reads(p[2], s, q[p[1]])]
<1>1. N \in Nat /\ DOMAIN q = 1..N
  OBVIOUS
<1>2. \A i \in 1..N : q[i] \in Records
  OBVIOUS
<1> HIDE DEF N
<1>3. \A i \in 1..N, a \in Replayed : step[<<i, a>>] = Reads(a, s, q[i]) /\ step[<<i, a>>] \in Replayed
  BY <1>2, ReadsType
<1> HIDE DEF step
<1>4. PICK G \in [SUBSET (1..N) -> Replayed] : Steps(N, b, step, G)
  <2>1. HasFold(N, Replayed, b, step)
    BY <1>1, <1>3, FoldExists
  <2>2. QED BY <2>1 DEF HasFold
<1>5. IsFold(s, b, q, G)
  <2>1. ASSUME NEW S \in SUBSET (1..N)
        PROVE  G[S] = IF S = {} THEN b ELSE Reads(G[S \ {Max(S)}], s, q[Max(S)])
    <3>1. CASE S = {}
      BY <1>4, <3>1 DEF Steps
    <3>2. CASE S # {}
      <4>1. Max(S) \in 1..N
        BY <1>1, <3>2, Maximum
      <4>2. G[S \ {Max(S)}] \in Replayed
        BY <1>4
      <4>3. G[S] = step[<<Max(S), G[S \ {Max(S)}]>>]
        BY <1>4, <3>2 DEF Steps
      <4>4. QED BY <1>3, <3>2, <4>1, <4>2, <4>3
    <3>3. QED BY <3>1, <3>2
  <2>2. QED BY <1>1, <1>4, <2>1 DEF IsFold
<1>6. PICK H : H = CHOOSE K : IsFold(s, b, q, K)
  OBVIOUS
<1>7. IsFold(s, b, q, H)
  BY <1>5, <1>6
<1>8. Fold(s, b, q) = H[DOMAIN q]
  BY <1>6 DEF FoldLeft, MapThenFoldSet, Fold, IsFold
<1>9. \A S \in SUBSET (1..N) : H[S] = IF S = {} THEN b ELSE Reads(H[S \ {Max(S)}], s, q[Max(S)])
  BY <1>1, <1>7 DEF IsFold
<1> DEFINE F == [i \in 0..N |-> H[1..i]]
<1>10. F[0] = b
  <2>1. 1..0 = {} /\ 0 \in 0..N
    BY <1>1
  <2>2. H[{}] = b
    BY <1>9
  <2>3. QED BY <2>1, <2>2
<1>11. ASSUME NEW i \in 1..N PROVE F[i] = Reads(F[i - 1], s, q[i])
  <2>1. i \in Nat \ {0} /\ i \in 0..N /\ i - 1 \in 0..N
    BY <1>1
  <2>2. Max(1..i) = i /\ (1..i) \ {i} = 1..(i - 1)
    BY <2>1, MaximumOfRange
  <2>3. 1..i \in SUBSET (1..N) /\ 1..i # {}
    <3>1. i \in 1..i /\ \A x \in 1..i : x \in 1..N
      BY <1>1, <2>1
    <3>2. QED BY <3>1
  <2>4. H[1..i] = Reads(H[1..(i - 1)], s, q[i])
    BY <1>9, <2>2, <2>3
  <2>5. QED BY <2>1, <2>4
<1>12. F[N] = H[DOMAIN q]
  BY <1>1
<1> HIDE DEF F
<1>13. QED BY <1>8, <1>10, <1>11, <1>12 DEF N, IsRun

LEMMA FoldEmpty ==
  ASSUME NEW s \in Symbols, NEW b \in Replayed
  PROVE  Fold(s, b, <<>>) = b
<1>1. <<>> \in Seq(Records) /\ Len(<<>>) = 0
  OBVIOUS
<1>2. PICK F : IsRun(s, b, <<>>, F)
  BY <1>1, FoldRuns
<1>3. QED BY <1>1, <1>2 DEF IsRun

LEMMA FoldAppend ==
  ASSUME NEW s \in Symbols, NEW b \in Replayed, NEW q \in Seq(Records), NEW f \in Records
  PROVE  Fold(s, b, Append(q, f)) = Reads(Fold(s, b, q), s, f)
<1> DEFINE r == Append(q, f)
<1>1. r \in Seq(Records) /\ Len(r) = Len(q) + 1 /\ r[Len(q) + 1] = f /\ Len(q) \in Nat
  OBVIOUS
<1>2. \A i \in 1..Len(q) : r[i] = q[i]
  OBVIOUS
<1> HIDE DEF r
<1>3. PICK F : IsRun(s, b, q, F)
  BY FoldRuns
<1>4. PICK G : IsRun(s, b, r, G)
  BY <1>1, FoldRuns
<1>5. SameSteps(Len(q), F, G)
  BY <1>1, <1>2, <1>3, <1>4 DEF SameSteps, IsRun
<1>6. F[Len(q)] = G[Len(q)]
  BY <1>1, <1>5, RunsAgree
<1>7. Len(r) \in 1..Len(r) /\ Len(r) - 1 = Len(q)
  BY <1>1
<1>8. QED BY <1>1, <1>3, <1>4, <1>6, <1>7 DEF r, IsRun

LEMMA FoldTail ==
  ASSUME NEW s \in Symbols, NEW b \in Replayed, NEW q \in Seq(Records), q # <<>>
  PROVE  Fold(s, b, q) = Fold(s, Reads(b, s, Head(q)), Tail(q))
<1> DEFINE r == Tail(q)
           c == Reads(b, s, Head(q))
<1>1. r \in Seq(Records) /\ Len(r) = Len(q) - 1 /\ Len(q) \in Nat /\ Len(q) # 0
  OBVIOUS
<1>2. \A i \in 1..Len(r) : r[i] = q[i + 1]
  OBVIOUS
<1>3. Head(q) = q[1] /\ Head(q) \in Records
  OBVIOUS
<1>4. c \in Replayed
  BY <1>3, ReadsType
<1> HIDE DEF r
<1>5. PICK F : IsRun(s, b, q, F)
  BY FoldRuns
<1> HIDE DEF c
<1>6. PICK G : IsRun(s, c, r, G)
  BY <1>1, <1>4, FoldRuns
<1> DEFINE E == [i \in 0..Len(r) |-> F[i + 1]]
<1>7. E[0] = G[0]
  <2>1. F[1] = Reads(F[1 - 1], s, q[1])
    BY <1>1, <1>5 DEF IsRun
  <2>2. 1 - 1 = 0 /\ 0 + 1 = 1 /\ 0 \in 0..Len(r)
    BY <1>1
  <2>3. QED BY <1>3, <1>5, <1>6, <2>1, <2>2 DEF c, IsRun
<1>8. ASSUME NEW i \in 1..Len(r), E[i - 1] = G[i - 1] PROVE E[i] = G[i]
  <2>1. i + 1 \in 1..Len(q) /\ i - 1 \in 0..Len(r) /\ i \in 0..Len(r) /\ (i - 1) + 1 = i /\ (i + 1) - 1 = i
    BY <1>1
  <2>2. F[i + 1] = Reads(F[i], s, q[i + 1])
    BY <1>5, <2>1 DEF IsRun
  <2>3. E[i] = F[i + 1] /\ E[i - 1] = F[i]
    BY <2>1
  <2>4. QED BY <1>2, <1>6, <1>8, <2>2, <2>3 DEF IsRun
<1>9. E[Len(r)] = G[Len(r)]
  <2> HIDE DEF E
  <2>1. SameSteps(Len(r), E, G)
    BY <1>7, <1>8 DEF SameSteps
  <2>2. QED BY <1>1, <2>1, RunsAgree
<1>10. E[Len(r)] = F[Len(q)]
  BY <1>1
<1>11. QED BY <1>5, <1>6, <1>9, <1>10 DEF r, c, IsRun

\* Records of no book, and those of others, leave it as it is.
LEMMA FoldOfOthers ==
  ASSUME NEW s \in Symbols, NEW b \in Replayed, NEW q \in Seq(Records),
         \A i \in 1..Len(q) : q[i].symbol # s
  PROVE  Fold(s, b, q) = b
<1>1. PICK F : IsRun(s, b, q, F)
  BY FoldRuns
<1> DEFINE G == [i \in 0..Len(q) |-> b]
<1>2. F[0] = G[0] /\ Len(q) \in Nat
  BY <1>1 DEF IsRun
<1>3. ASSUME NEW i \in 1..Len(q), F[i - 1] = G[i - 1] PROVE F[i] = G[i]
  <2>1. F[i] = F[i - 1]
    BY <1>1 DEF Reads, IsRun
  <2>2. i \in 0..Len(q) /\ i - 1 \in 0..Len(q)
    OBVIOUS
  <2>3. QED BY <1>3, <2>1, <2>2
<1>4. F[Len(q)] = G[Len(q)]
  <2> HIDE DEF G
  <2>1. SameSteps(Len(q), F, G)
    BY <1>2, <1>3 DEF SameSteps
  <2>2. QED BY <1>2, <2>1, RunsAgree
<1>5. QED BY <1>1, <1>2, <1>4 DEF IsRun

LEMMA FoldOfExtension ==
  ASSUME NEW s \in Symbols, NEW b \in Replayed, NEW q \in Seq(Records), NEW r \in Seq(Records),
         Len(q) <= Len(r), \A i \in 1..Len(q) : r[i] = q[i],
         \A i \in 1..Len(r) : Len(q) < i => r[i].symbol # s
  PROVE  Fold(s, b, r) = Fold(s, b, q)
<1>1. PICK F : IsRun(s, b, q, F)
  BY FoldRuns
<1>2. PICK G : IsRun(s, b, r, G)
  BY FoldRuns
<1> DEFINE m == Len(q)
           n == Len(r) - Len(q)
<1>3. m \in Nat /\ n \in Nat /\ Len(r) = m + n
  OBVIOUS
<1>4. F[m] = G[m]
  <2>1. SameSteps(m, F, G)
    BY <1>1, <1>2 DEF SameSteps, IsRun
  <2>2. QED BY <1>3, <2>1, RunsAgree
<1> HIDE DEF m, n
<1> DEFINE D == [i \in 0..n |-> F[m]]
           E == [i \in 0..n |-> G[m + i]]
<1>5. D[0] = E[0]
  BY <1>3, <1>4
<1>6. ASSUME NEW i \in 1..n, D[i - 1] = E[i - 1] PROVE D[i] = E[i]
  <2>1. /\ m + i \in 1..Len(r) /\ m < m + i /\ (m + i) - 1 = m + (i - 1)
        /\ i \in 0..n /\ i - 1 \in 0..n
    BY <1>3
  <2>2. G[m + i] = G[m + (i - 1)]
    BY <1>2, <2>1 DEF Reads, IsRun, m
  <2>3. QED BY <1>6, <2>1, <2>2
<1>7. D[n] = E[n]
  <2> HIDE DEF D, E
  <2>1. SameSteps(n, D, E)
    BY <1>5, <1>6 DEF SameSteps
  <2>2. QED BY <1>3, <2>1, RunsAgree
<1>8. F[m] = G[Len(r)]
  BY <1>3, <1>7
<1>9. QED BY <1>1, <1>2, <1>8 DEF IsRun, m

-----------------------------------------------------------------------------
(* The producer queue *)

LEMMA OtherIsOfNoSymbol == Other \in Records /\ Other.symbol \notin Symbols
BY CaptureConstants DEF CaptureConstants, Other, Records, Symbols

LEMMA QueuedFacts ==
  ASSUME NEW q \in Seq(Records), NEW records \in Seq(Records), Len(q) <= QueueMax
  PROVE  /\ Queued(q, records) \in Seq(Records) /\ Len(Queued(q, records)) <= QueueMax
         /\ Len(q) <= Len(Queued(q, records))
         /\ \A i \in 1..Len(q) : Queued(q, records)[i] = q[i]
         /\ \A i \in 1..Len(Queued(q, records)) :
              Len(q) < i => /\ i - Len(q) \in 1..Len(records)
                            /\ Queued(q, records)[i] = records[i - Len(q)]
         /\ HasRoom(q) /\ records # <<>> => Len(q) < Len(Queued(q, records))
<1>1. QueueMax \in Nat
  BY CaptureConstants DEF CaptureConstants
<1> DEFINE all == q \o records
           n == IF Len(all) < QueueMax THEN Len(all) ELSE QueueMax
<1>2. /\ all \in Seq(Records) /\ Len(all) = Len(q) + Len(records)
      /\ Len(q) \in Nat /\ Len(records) \in Nat
      /\ records # <<>> => Len(records) # 0
  OBVIOUS
<1>3. /\ \A i \in 1..Len(q) : all[i] = q[i]
      /\ \A i \in 1..Len(all) : Len(q) < i => all[i] = records[i - Len(q)]
  OBVIOUS
<1> HIDE DEF all
<1>4. n \in Nat /\ n <= Len(all) /\ n <= QueueMax /\ Len(q) <= n
  BY <1>1, <1>2
<1>5. HasRoom(q) /\ records # <<>> => Len(q) < n
  BY <1>1, <1>2 DEF HasRoom
<1>6. Queued(q, records) = SubSeq(all, 1, n)
  BY DEF Queued, all
<1> HIDE DEF n
<1>7. /\ SubSeq(all, 1, n) \in Seq(Records) /\ Len(SubSeq(all, 1, n)) = n
      /\ \A i \in 1..n : SubSeq(all, 1, n)[i] = all[i]
  BY <1>2, <1>4
<1>8. \A i \in 1..Len(q) : SubSeq(all, 1, n)[i] = q[i]
  BY <1>2, <1>3, <1>4, <1>7
<1>9. \A i \in 1..n : Len(q) < i => /\ i - Len(q) \in 1..Len(records)
                                    /\ SubSeq(all, 1, n)[i] = records[i - Len(q)]
  BY <1>2, <1>3, <1>4, <1>7
<1>10. QED BY <1>4, <1>5, <1>6, <1>7, <1>8, <1>9

\* What the loop queues besides a frame is read by no replay.
LEMMA QueuedOthers ==
  ASSUME NEW q \in Seq(Records), NEW records \in Seq({Other}), Len(q) <= QueueMax,
         NEW s \in Symbols, NEW b \in Replayed
  PROVE  Fold(s, b, Queued(q, records)) = Fold(s, b, q)
<1>1. records \in Seq(Records) /\ \A i \in 1..Len(records) : records[i] = Other
  BY OtherIsOfNoSymbol
<1> DEFINE r == Queued(q, records)
<1>2. /\ r \in Seq(Records) /\ Len(q) <= Len(r)
      /\ \A i \in 1..Len(q) : r[i] = q[i]
      /\ \A i \in 1..Len(r) : Len(q) < i => i - Len(q) \in 1..Len(records) /\ r[i] = records[i - Len(q)]
  BY <1>1, QueuedFacts
<1> HIDE DEF r
<1>3. \A i \in 1..Len(r) : Len(q) < i => r[i].symbol # s
  BY <1>1, <1>2, OtherIsOfNoSymbol
<1>4. Fold(s, b, r) = Fold(s, b, q)
  BY <1>2, <1>3, FoldOfExtension
<1>5. QED BY <1>4 DEF r

\* A frame that finds room is the one record that counts.
LEMMA QueuedFrame ==
  ASSUME NEW q \in Seq(Records), NEW f \in Frame, NEW marked \in Seq({Other}), Len(q) <= QueueMax,
         NEW s \in Symbols, NEW b \in Replayed, HasRoom(q)
  PROVE  Fold(s, b, Queued(q, <<f>> \o marked)) = Reads(Fold(s, b, q), s, f)
<1> DEFINE records == <<f>> \o marked
           r == Queued(q, records)
           p == Append(q, f)
<1>1. marked \in Seq(Records) /\ \A i \in 1..Len(marked) : marked[i] = Other
  BY OtherIsOfNoSymbol
<1>2. f \in Records /\ <<f>> \in Seq(Records)
  BY DEF Records
<1>3. /\ records \in Seq(Records) /\ Len(records) = Len(marked) + 1 /\ Len(marked) \in Nat
      /\ records[1] = f
      /\ \A i \in 1..Len(records) : 1 < i => records[i] = marked[i - 1] /\ i - 1 \in 1..Len(marked)
  BY <1>1, <1>2
<1>4. \A i \in 1..Len(records) : 1 < i => records[i] = Other
  BY <1>1, <1>3
<1>5. records # <<>>
  BY <1>3
<1> HIDE DEF records
<1>6. /\ r \in Seq(Records) /\ Len(q) < Len(r)
      /\ \A i \in 1..Len(q) : r[i] = q[i]
      /\ \A i \in 1..Len(r) : Len(q) < i => i - Len(q) \in 1..Len(records) /\ r[i] = records[i - Len(q)]
  BY <1>3, <1>5, QueuedFacts
<1>7. /\ p \in Seq(Records) /\ Len(p) = Len(q) + 1 /\ Len(q) \in Nat
      /\ p[Len(q) + 1] = f /\ \A i \in 1..Len(q) : p[i] = q[i]
  BY <1>2
<1>8. Fold(s, b, p) = Reads(Fold(s, b, q), s, f)
  BY <1>2, FoldAppend
<1> HIDE DEF r, p
<1>9. r[Len(q) + 1] = f
  <2>1. Len(q) + 1 \in 1..Len(r) /\ Len(q) < Len(q) + 1 /\ (Len(q) + 1) - Len(q) = 1
    BY <1>6, <1>7
  <2>2. QED BY <1>3, <1>6, <2>1
<1>10. Len(p) <= Len(r) /\ \A i \in 1..Len(p) : r[i] = p[i]
  <2>1. Len(r) \in Nat
    BY <1>6
  <2>2. \A i \in 1..Len(p) : i \in 1..Len(q) \/ i = Len(q) + 1
    BY <1>7
  <2>3. Len(p) <= Len(r)
    BY <1>6, <1>7, <2>1
  <2>4. \A i \in 1..Len(q) : r[i] = p[i]
    BY <1>6, <1>7
  <2>5. r[Len(q) + 1] = p[Len(q) + 1]
    BY <1>7, <1>9
  <2>6. QED BY <2>2, <2>3, <2>4, <2>5
<1>11. \A i \in 1..Len(r) : Len(p) < i => r[i].symbol # s
  <2> SUFFICES ASSUME NEW i \in 1..Len(r), Len(p) < i PROVE r[i] = Other
    BY OtherIsOfNoSymbol
  <2>1. Len(q) < i /\ 1 < i - Len(q)
    BY <1>7
  <2>2. QED BY <1>4, <1>6, <2>1
<1>12. Fold(s, b, r) = Fold(s, b, p)
  BY <1>6, <1>7, <1>10, <1>11, FoldOfExtension
<1>13. QED BY <1>8, <1>12 DEF r, records

LEMMA QueuedNothing ==
  ASSUME NEW q \in Seq(Records), NEW records \in Seq(Records), Len(q) <= QueueMax, ~HasRoom(q)
  PROVE  Queued(q, records) = q
<1> DEFINE r == Queued(q, records)
<1>1. QueueMax \in Nat
  BY CaptureConstants DEF CaptureConstants
<1>2. /\ r \in Seq(Records) /\ Len(r) <= QueueMax /\ Len(q) <= Len(r)
      /\ \A i \in 1..Len(q) : r[i] = q[i]
  BY QueuedFacts
<1> HIDE DEF r
<1>3. Len(r) = Len(q)
  BY <1>1, <1>2 DEF HasRoom
<1>4. r = q
  BY <1>2, <1>3
<1>5. QED BY <1>4 DEF r

-----------------------------------------------------------------------------
(* What is asked of the venue *)

LEMMA SymbolsFinite == IsFiniteSet(Symbols)
<1>1. Order \in Seq(Range(Order))
  BY CaptureConstants DEF CaptureConstants
<1>2. Len(Order) \in Nat /\ DOMAIN Order = 1..Len(Order)
  BY <1>1
<1>3. Order \in Surjection(1..Len(Order), Symbols)
  BY <1>1, <1>2 DEF Surjection, Symbols, Range
<1>4. IsFiniteSet(1..Len(Order))
  BY <1>2, FS_Interval
<1>5. QED BY <1>3, <1>4, FS_Surjection

LEMMA SetToSeqFacts ==
  ASSUME NEW S, IsFiniteSet(S)
  PROVE  SetToSeq(S) \in Seq(S) /\ Range(SetToSeq(S)) = S
<1> DEFINE n == Cardinality(S)
<1>1. n \in Nat /\ ExistsBijection(1..n, S)
  BY FS_CardinalityType
<1>2. PICK h : h \in Bijection(1..n, S)
  BY <1>1 DEF ExistsBijection
<1>3. \E g : g \in [1..n -> S] /\ IsInjective(g)
  BY <1>2 DEF Bijection, Injection
<1>4. SetToSeq(S) \in [1..n -> S] /\ IsInjective(SetToSeq(S))
  BY <1>3 DEF SetToSeq
<1>5. SetToSeq(S) \in Injection(1..n, S)
  BY <1>4 DEF Injection
<1>6. SetToSeq(S) \in Surjection(1..n, S)
  <2>1. Cardinality(1..n) = n
    BY <1>1, FS_Interval
  <2>2. QED BY <1>5, <2>1, FS_Injection
<1>7. SetToSeq(S) \in Seq(S)
  BY <1>1, <1>4
<1>8. Range(SetToSeq(S)) = S
  BY <1>4, <1>6 DEF Range, Surjection
<1>9. QED BY <1>7, <1>8

LEMMA RangeOfConcat ==
  ASSUME NEW A, NEW q \in Seq(A), NEW r \in Seq(A)
  PROVE  q \o r \in Seq(A) /\ Range(q \o r) = Range(q) \cup Range(r)
<1> DEFINE c == q \o r
<1>1. /\ c \in Seq(A) /\ Len(c) = Len(q) + Len(r) /\ Len(q) \in Nat /\ Len(r) \in Nat
      /\ DOMAIN c = 1..Len(c) /\ DOMAIN q = 1..Len(q) /\ DOMAIN r = 1..Len(r)
  OBVIOUS
<1>2. /\ \A i \in 1..Len(q) : c[i] = q[i]
      /\ \A i \in 1..Len(c) : Len(q) < i => c[i] = r[i - Len(q)]
      /\ \A i \in 1..Len(r) : c[i + Len(q)] = r[i]
  OBVIOUS
<1> HIDE DEF c
<1>3. ASSUME NEW i \in DOMAIN c PROVE c[i] \in Range(q) \cup Range(r)
  <2>1. CASE i <= Len(q)
    BY <1>1, <1>2, <2>1 DEF Range
  <2>2. CASE Len(q) < i
    <3>1. i - Len(q) \in DOMAIN r
      BY <1>1, <2>2
    <3>2. QED BY <1>1, <1>2, <2>2, <3>1 DEF Range
  <2>3. QED BY <1>1, <2>1, <2>2
<1>4. ASSUME NEW i \in DOMAIN q PROVE q[i] \in Range(c)
  BY <1>1, <1>2 DEF Range
<1>5. ASSUME NEW i \in DOMAIN r PROVE r[i] \in Range(c)
  <2>1. i + Len(q) \in DOMAIN c
    BY <1>1
  <2>2. QED BY <1>1, <1>2, <2>1 DEF Range
<1>6. Range(c) = Range(q) \cup Range(r)
  BY <1>3, <1>4, <1>5 DEF Range
<1>7. QED BY <1>1, <1>6 DEF c

LEMMA RemoveAtFacts ==
  ASSUME NEW A, NEW q \in Seq(A), NEW i \in DOMAIN q
  PROVE  RemoveAt(q, i) \in Seq(A) /\ Range(q) \subseteq Range(RemoveAt(q, i)) \cup {q[i]}
<1> DEFINE u == SubSeq(q, 1, i - 1)
           v == SubSeq(q, i + 1, Len(q))
<1>1. Len(q) \in Nat /\ i \in 1..Len(q) /\ DOMAIN q = 1..Len(q) /\ i \in Nat
  OBVIOUS
<1>2. u \in Seq(A) /\ DOMAIN u = 1..(i - 1) /\ \A j \in 1..(i - 1) : u[j] = q[j]
  BY <1>1
<1>3. v \in Seq(A) /\ DOMAIN v = 1..(Len(q) - i) /\ \A j \in 1..(Len(q) - i) : v[j] = q[i + j]
  BY <1>1
<1> HIDE DEF u, v
<1>4. RemoveAt(q, i) = u \o v
  BY DEF RemoveAt, u, v
<1>5. u \o v \in Seq(A) /\ Range(u \o v) = Range(u) \cup Range(v)
  BY <1>2, <1>3, RangeOfConcat
<1>6. ASSUME NEW j \in DOMAIN q PROVE q[j] \in Range(u) \cup Range(v) \cup {q[i]}
  <2>1. CASE j < i
    <3>1. j \in DOMAIN u
      BY <1>1, <1>2, <2>1
    <3>2. QED BY <1>2, <3>1 DEF Range
  <2>2. CASE j = i
    BY <2>2
  <2>3. CASE j > i
    <3>1. j - i \in DOMAIN v /\ i + (j - i) = j
      BY <1>1, <1>3, <2>3
    <3>2. v[j - i] = q[j]
      BY <1>3, <3>1
    <3>3. QED BY <3>1, <3>2 DEF Range
  <2>4. QED BY <1>1, <2>1, <2>2, <2>3
<1>7. QED BY <1>4, <1>5, <1>6 DEF Range

-----------------------------------------------------------------------------
(* What a list of parked frames makes of the adapter when it is drained *)

Adapter == [book : [Symbols -> Held], parked : [Symbols -> Seq(Frame)], overflowed : SUBSET Symbols,
            precise : BOOLEAN, again : Seq(Symbols), marked : Seq({Other}), reconnect : BOOLEAN]

\* A frame of a book.
OfBook(f) == f \in Frame /\ f.symbol \in Symbols /\ f.version \in Change

\* The last frame of each symbol in the list w has the number that l holds, and tells of
\* the symbols outside B.
EndsAt(w, l, B) ==
  /\ w \in Seq(Frame)
  /\ \A i \in 1..Len(w) : OfBook(w[i])
  /\ \A i \in 1..Len(w) : (\A j \in 1..Len(w) : i < j => w[j].symbol # w[i].symbol)
                            => w[i].version = l[w[i].symbol] /\ (w[i].tells \/ w[i].symbol \in B)

LEMMA AppliedFacts ==
  ASSUME NEW a \in Adapter, NEW f, OfBook(f)
  PROVE  /\ Applied(a, f) \in Adapter
         /\ \/ Applied(a, f).book[f.symbol] \in {None, f.version}
            \/ Applied(a, f).book[f.symbol] = Skewed /\ ~f.tells
         /\ \A s \in Symbols : s # f.symbol => Applied(a, f).book[s] = a.book[s]
         /\ Applied(a, f).precise = a.precise /\ Applied(a, f).parked = a.parked
         /\ Applied(a, f).overflowed = a.overflowed /\ Applied(a, f).reconnect = a.reconnect
<1> DEFINE s == f.symbol
           b == Adapted(a.book[s], f)
           bad == Mismatch(a.book[s], f)
<1>1. f \in Frame /\ s \in Symbols /\ f.version \in Change
  BY DEF OfBook
<1>2. /\ a.book \in [Symbols -> Held] /\ a.parked \in [Symbols -> Seq(Frame)]
      /\ a.overflowed \in SUBSET Symbols /\ a.precise \in BOOLEAN /\ a.again \in Seq(Symbols)
      /\ a.marked \in Seq({Other}) /\ a.reconnect \in BOOLEAN
  BY DEF Adapter
<1>3. /\ b \in {None, f.version, Skewed} /\ b \in Held /\ None \in Held
      /\ ~bad /\ b = Skewed => ~f.tells
  BY <1>1 DEF Adapted, Mismatch, Held
<1>4. Append(a.again, s) \in Seq(Symbols) /\ Append(a.marked, Other) \in Seq({Other})
  BY <1>1, <1>2
<1> HIDE DEF b, bad
<1>5. CASE ~bad
  <2>1. Applied(a, f) = [a EXCEPT !.book = [@ EXCEPT ![s] = b]]
    BY <1>5 DEF Applied, b, bad
  <2>2. [a.book EXCEPT ![s] = b] \in [Symbols -> Held]
    BY <1>2, <1>3, <1>5
  <2>3. Applied(a, f) = [a EXCEPT !.book = [a.book EXCEPT ![s] = b]]
    BY <2>1 DEF Adapter
  <2> DEFINE k == [a.book EXCEPT ![s] = b]
  <2>4. k[s] = b /\ \A t \in Symbols : t # s => k[t] = a.book[t]
    BY <1>1, <1>2
  <2> HIDE DEF k
  <2>5. k \in [Symbols -> Held] /\ Applied(a, f) = [a EXCEPT !.book = k]
    BY <2>2, <2>3 DEF k
  <2>6. QED BY <1>3, <1>5, <2>4, <2>5 DEF Adapter
<1>6. CASE bad
  <2> DEFINE k == [a.book EXCEPT ![s] = None]
             u == Append(a.again, s)
             v == Append(a.marked, Other)
  <2>1. k \in [Symbols -> Held]
    BY <1>2, <1>3
  <2>2. k[s] = None /\ \A t \in Symbols : t # s => k[t] = a.book[t]
    BY <1>1, <1>2
  <2>3. Applied(a, f) = [a EXCEPT !.book = k, !.again = u, !.marked = v]
    BY <1>6 DEF Applied, bad, Adapter
  <2> HIDE DEF k, u, v
  <2>4. u \in Seq(Symbols) /\ v \in Seq({Other})
    BY <1>4 DEF u, v
  <2>5. QED BY <2>1, <2>2, <2>3, <2>4 DEF Adapter
<1>7. QED BY <1>5, <1>6

AppliedFunction(a, w, G) ==
  G = [S \in SUBSET DOMAIN w |-> IF S = {} THEN a ELSE Applied(G[S \ {Max(S)}], w[Max(S)])]

IsDrain(a, w, F) ==
  /\ F[0] = a
  /\ \A i \in 1..Len(w) : F[i] = Applied(F[i - 1], w[i])
  /\ FoldLeft(Applied, a, w) = F[Len(w)]

LEMMA DrainRuns ==
  ASSUME NEW a \in Adapter, NEW w \in Seq(Frame), \A i \in 1..Len(w) : OfBook(w[i])
  PROVE  \E F : IsDrain(a, w, F)
<1> DEFINE N == Len(w)
           step == [p \in (1..N) \X Adapter |-> Applied(p[2], w[p[1]])]
<1>1. N \in Nat /\ DOMAIN w = 1..N
  OBVIOUS
<1> HIDE DEF N
<1>2. \A i \in 1..N, x \in Adapter : step[<<i, x>>] = Applied(x, w[i])
  OBVIOUS
<1>3. \A i \in 1..N, x \in Adapter : Applied(x, w[i]) \in Adapter
  BY AppliedFacts DEF N
<1> HIDE DEF step
<1>4. PICK G \in [SUBSET (1..N) -> Adapter] : Steps(N, a, step, G)
  <2>1. \A i \in 1..N, x \in Adapter : step[<<i, x>>] \in Adapter
    BY <1>2, <1>3
  <2>2. HasFold(N, Adapter, a, step)
    BY <1>1, <2>1, FoldExists
  <2>3. QED BY <2>2 DEF HasFold
<1>5. AppliedFunction(a, w, G)
  <2>1. ASSUME NEW S \in SUBSET (1..N)
        PROVE  G[S] = IF S = {} THEN a ELSE Applied(G[S \ {Max(S)}], w[Max(S)])
    <3>1. CASE S = {}
      BY <1>4, <3>1 DEF Steps
    <3>2. CASE S # {}
      <4>1. Max(S) \in 1..N
        BY <1>1, <3>2, Maximum
      <4>2. G[S \ {Max(S)}] \in Adapter
        BY <1>4
      <4>3. G[S] = step[<<Max(S), G[S \ {Max(S)}]>>]
        BY <1>4, <3>2 DEF Steps
      <4>4. QED BY <1>2, <3>2, <4>1, <4>2, <4>3
    <3>3. QED BY <3>1, <3>2
  <2>2. QED BY <1>1, <1>4, <2>1 DEF AppliedFunction
<1>6. PICK H : H = CHOOSE K : AppliedFunction(a, w, K)
  OBVIOUS
<1>7. AppliedFunction(a, w, H)
  BY <1>5, <1>6
<1>8. FoldLeft(Applied, a, w) = H[DOMAIN w]
  BY <1>6 DEF FoldLeft, MapThenFoldSet, AppliedFunction
<1>9. \A S \in SUBSET (1..N) : H[S] = IF S = {} THEN a ELSE Applied(H[S \ {Max(S)}], w[Max(S)])
  BY <1>1, <1>7 DEF AppliedFunction
<1> DEFINE F == [i \in 0..N |-> H[1..i]]
<1>10. F[0] = a
  <2>1. 1..0 = {} /\ 0 \in 0..N
    BY <1>1
  <2>2. H[{}] = a
    BY <1>9
  <2>3. QED BY <2>1, <2>2
<1>11. ASSUME NEW i \in 1..N PROVE F[i] = Applied(F[i - 1], w[i])
  <2>1. i \in Nat \ {0} /\ i \in 0..N /\ i - 1 \in 0..N
    BY <1>1
  <2>2. Max(1..i) = i /\ (1..i) \ {i} = 1..(i - 1)
    BY <2>1, MaximumOfRange
  <2>3. 1..i \in SUBSET (1..N) /\ 1..i # {}
    <3>1. i \in 1..i /\ \A x \in 1..i : x \in 1..N
      BY <1>1, <2>1
    <3>2. QED BY <3>1
  <2>4. H[1..i] = Applied(H[1..(i - 1)], w[i])
    BY <1>9, <2>2, <2>3
  <2>5. QED BY <2>1, <2>4
<1>12. F[N] = H[DOMAIN w]
  BY <1>1
<1> HIDE DEF F
<1>13. QED BY <1>8, <1>10, <1>11, <1>12 DEF N, IsDrain

\* What the first n frames of w can have made of the book of s.
Leaves(n, s, x, w, l, B) ==
  \/ MayHold(x, s, l, B)
  \/ \E i \in 1..n : /\ w[i].symbol = s /\ (x = w[i].version \/ (x = Skewed /\ ~w[i].tells))
                     /\ \A j \in 1..n : i < j => w[j].symbol # s

Drains(n, a, r, w, l, B) ==
  /\ r \in Adapter
  /\ r.precise = a.precise /\ r.parked = a.parked /\ r.overflowed = a.overflowed /\ r.reconnect = a.reconnect
  /\ \A s \in Symbols : Leaves(n, s, r.book[s], w, l, B)

LEMMA DrainsOneMore ==
  ASSUME NEW n \in Nat, NEW a, NEW r, NEW w \in Seq(Frame), NEW l, NEW B, Drains(n, a, r, w, l, B),
         n + 1 <= Len(w), OfBook(w[n + 1])
  PROVE  Drains(n + 1, a, Applied(r, w[n + 1]), w, l, B)
<1> DEFINE f == w[n + 1]
           q == Applied(r, f)
<1>1. /\ q \in Adapter
      /\ q.book[f.symbol] \in {None, f.version} \/ (q.book[f.symbol] = Skewed /\ ~f.tells)
      /\ \A s \in Symbols : s # f.symbol => q.book[s] = r.book[s]
      /\ q.precise = r.precise /\ q.parked = r.parked /\ q.overflowed = r.overflowed
      /\ q.reconnect = r.reconnect
  BY AppliedFacts DEF Drains
<1> HIDE DEF q
<1>2. ASSUME NEW s \in Symbols PROVE Leaves(n + 1, s, q.book[s], w, l, B)
  <2>1. CASE s = f.symbol
    <3>1. n + 1 \in 1..(n + 1) /\ \A j \in 1..(n + 1) : ~(n + 1 < j)
      OBVIOUS
    <3>2. QED BY <1>1, <2>1, <3>1 DEF Leaves, MayHold
  <2>2. CASE s # f.symbol
    <3>1. Leaves(n, s, q.book[s], w, l, B)
      BY <1>1, <2>2 DEF Drains
    <3>2. CASE MayHold(q.book[s], s, l, B)
      BY <3>2 DEF Leaves
    <3>3. CASE ~MayHold(q.book[s], s, l, B)
      <4>1. PICK i \in 1..n : /\ w[i].symbol = s
                              /\ q.book[s] = w[i].version \/ (q.book[s] = Skewed /\ ~w[i].tells)
                              /\ \A j \in 1..n : i < j => w[j].symbol # s
        BY <3>1, <3>3 DEF Leaves
      <4>2. i \in 1..(n + 1)
        OBVIOUS
      <4>3. \A j \in 1..(n + 1) : i < j => w[j].symbol # s
        <5> SUFFICES ASSUME NEW j \in 1..(n + 1), i < j PROVE w[j].symbol # s
          OBVIOUS
        <5>1. CASE j = n + 1
          BY <2>2, <5>1
        <5>2. CASE j # n + 1
          <6>1. j \in 1..n
            BY <5>2
          <6>2. QED BY <4>1, <6>1
        <5>3. QED BY <5>1, <5>2
      <4>4. QED BY <4>1, <4>2, <4>3 DEF Leaves
    <3>4. QED BY <3>2, <3>3
  <2>3. QED BY <2>1, <2>2
<1>3. QED BY <1>1, <1>2 DEF Drains, q

\* What a drained list leaves of a book: none, or the last frame's.
LEMMA DrainFacts ==
  ASSUME NEW a \in Adapter, NEW w, NEW l, NEW B, EndsAt(w, l, B),
         \A s \in Symbols : MayHold(a.book[s], s, l, B)
  PROVE  LET r == FoldLeft(Applied, a, w)
         IN  /\ r \in Adapter
             /\ r.precise = a.precise /\ r.parked = a.parked
             /\ r.overflowed = a.overflowed /\ r.reconnect = a.reconnect
             /\ \A s \in Symbols : MayHold(r.book[s], s, l, B)
<1>1. w \in Seq(Frame) /\ (\A i \in 1..Len(w) : OfBook(w[i])) /\ Len(w) \in Nat
  BY DEF EndsAt
<1>2. PICK F : IsDrain(a, w, F)
  BY <1>1, DrainRuns
<1> DEFINE P == {n \in Nat : n <= Len(w) => Drains(n, a, F[n], w, l, B)}
<1>3. 0 \in P
  <2>1. F[0] = a
    BY <1>2 DEF IsDrain
  <2>2. Drains(0, a, a, w, l, B)
    BY DEF Drains, Leaves
  <2>3. QED BY <2>1, <2>2
<1>4. ASSUME NEW n \in Nat, n \in P PROVE n + 1 \in P
  <2>1. CASE n + 1 <= Len(w)
    <3>1. n + 1 \in 1..Len(w) /\ n <= Len(w) /\ (n + 1) - 1 = n
      BY <1>1, <2>1
    <3>2. F[n + 1] = Applied(F[n], w[n + 1])
      BY <1>2, <3>1 DEF IsDrain
    <3>3. Drains(n, a, F[n], w, l, B)
      BY <1>4, <3>1
    <3>4. OfBook(w[n + 1])
      BY <1>1, <3>1
    <3>5. Drains(n + 1, a, F[n + 1], w, l, B)
      BY <1>1, <2>1, <3>2, <3>3, <3>4, DrainsOneMore
    <3>6. QED BY <3>5
  <2>2. CASE ~(n + 1 <= Len(w))
    BY <2>2
  <2>3. QED BY <2>1, <2>2
<1>5. Nat \subseteq P
  <2> HIDE DEF P
  <2>1. QED BY <1>3, <1>4, SetInduction
<1>6. Drains(Len(w), a, F[Len(w)], w, l, B)
  BY <1>1, <1>5
<1> DEFINE r == F[Len(w)]
<1>7. r = FoldLeft(Applied, a, w)
  BY <1>2 DEF IsDrain
<1>8. ASSUME NEW s \in Symbols PROVE MayHold(r.book[s], s, l, B)
  <2>1. Leaves(Len(w), s, r.book[s], w, l, B)
    BY <1>6 DEF Drains
  <2>2. QED BY <2>1 DEF Leaves, EndsAt, MayHold
<1> HIDE DEF r
<1>9. Drains(Len(w), a, r, w, l, B)
  BY <1>6 DEF r
<1>10. QED BY <1>7, <1>8, <1>9 DEF Drains

LEMMA EndsOfConcat ==
  ASSUME NEW u, NEW v, NEW l, NEW B, EndsAt(u, l, B), EndsAt(v, l, B)
  PROVE  EndsAt(u \o v, l, B)
<1> DEFINE c == u \o v
<1>1. u \in Seq(Frame) /\ v \in Seq(Frame)
  BY DEF EndsAt
<1>2. c \in Seq(Frame) /\ Len(c) = Len(u) + Len(v) /\ Len(u) \in Nat /\ Len(v) \in Nat
  BY <1>1
<1>3. /\ \A i \in 1..Len(u) : c[i] = u[i]
      /\ \A i \in 1..Len(c) : Len(u) < i => c[i] = v[i - Len(u)]
      /\ \A i \in 1..Len(v) : c[Len(u) + i] = v[i]
  BY <1>1
<1> HIDE DEF c
<1>4. ASSUME NEW i \in 1..Len(c)
      PROVE  /\ OfBook(c[i])
             /\ (\A j \in 1..Len(c) : i < j => c[j].symbol # c[i].symbol)
                  => c[i].version = l[c[i].symbol] /\ (c[i].tells \/ c[i].symbol \in B)
  <2>1. CASE i <= Len(u)
    <3>1. i \in 1..Len(u) /\ c[i] = u[i]
      BY <1>2, <1>3, <2>1
    <3>2. ASSUME \A j \in 1..Len(c) : i < j => c[j].symbol # c[i].symbol
          PROVE  \A j \in 1..Len(u) : i < j => u[j].symbol # u[i].symbol
      <4> TAKE j \in 1..Len(u)
      <4>1. j \in 1..Len(c) /\ c[j] = u[j]
        BY <1>2, <1>3
      <4>2. QED BY <3>1, <3>2, <4>1
    <3>3. QED BY <3>1, <3>2 DEF EndsAt
  <2>2. CASE Len(u) < i
    <3> DEFINE k == i - Len(u)
    <3>1. k \in 1..Len(v) /\ c[i] = v[k]
      BY <1>2, <1>3, <2>2
    <3>2. ASSUME \A j \in 1..Len(c) : i < j => c[j].symbol # c[i].symbol
          PROVE  \A j \in 1..Len(v) : k < j => v[j].symbol # v[k].symbol
      <4> SUFFICES ASSUME NEW j \in 1..Len(v), k < j PROVE v[j].symbol # v[k].symbol
        OBVIOUS
      <4>1. Len(u) + j \in 1..Len(c) /\ i < Len(u) + j
        BY <1>2
      <4>2. c[Len(u) + j] = v[j]
        BY <1>3
      <4>3. QED BY <3>1, <3>2, <4>1, <4>2
    <3> HIDE DEF k
    <3>3. QED BY <3>1, <3>2 DEF EndsAt
  <2>3. QED BY <1>2, <2>1, <2>2
<1>5. EndsAt(c, l, B)
  BY <1>2, <1>4 DEF EndsAt
<1>6. QED BY <1>5 DEF c

FlattenFunction(q, f) == f = [i \in 1..Len(q) |-> IF i = 1 THEN q[i] ELSE f[i - 1] \o q[i]]

\* The function by which FlattenSeq is defined exists.
LEMMA FlattenRuns ==
  ASSUME NEW A, NEW q \in Seq(Seq(A)), q # <<>>
  PROVE  \E f : /\ FlattenFunction(q, f)
                /\ FlattenSeq(q) = f[Len(q)]
<1> DEFINE N == Len(q)
           step == [p \in (1..N) \X Seq(A) |-> IF p[1] = 1 THEN q[1] ELSE p[2] \o q[p[1]]]
<1>1. N \in Nat /\ N # 0 /\ \A i \in 1..N : q[i] \in Seq(A)
  OBVIOUS
<1> HIDE DEF N
<1>2. \A i \in 1..N, x \in Seq(A) : step[<<i, x>>] = IF i = 1 THEN q[1] ELSE x \o q[i]
  OBVIOUS
<1>3. \A i \in 1..N, x \in Seq(A) : (IF i = 1 THEN q[1] ELSE x \o q[i]) \in Seq(A)
  BY <1>1
<1> HIDE DEF step
<1>4. <<>> \in Seq(A) /\ \A i \in 1..N, x \in Seq(A) : step[<<i, x>>] \in Seq(A)
  <2>1. \A i \in 1..N, x \in Seq(A) : step[<<i, x>>] \in Seq(A)
    <3> TAKE i \in 1..N, x \in Seq(A)
    <3>1. step[<<i, x>>] = IF i = 1 THEN q[1] ELSE x \o q[i]
      BY <1>2
    <3>2. (IF i = 1 THEN q[1] ELSE x \o q[i]) \in Seq(A)
      BY <1>3
    <3>3. QED BY <3>1, <3>2
  <2>2. QED BY <2>1
<1>5. PICK G \in [SUBSET (1..N) -> Seq(A)] : Steps(N, <<>>, step, G)
  <2>1. HasFold(N, Seq(A), <<>>, step)
    BY <1>1, <1>4, FoldExists
  <2>2. QED BY <2>1 DEF HasFold
<1> DEFINE f == [i \in 1..N |-> G[1..i]]
<1>6. ASSUME NEW i \in 1..N
      PROVE  f[i] = IF i = 1 THEN q[i] ELSE f[i - 1] \o q[i]
  <2>1. i \in Nat \ {0} /\ Max(1..i) = i /\ (1..i) \ {i} = 1..(i - 1)
    BY <1>1, MaximumOfRange
  <2>2. 1..i \in SUBSET (1..N) /\ 1..i # {} /\ 1..(i - 1) \in SUBSET (1..N)
    <3>1. i \in 1..i /\ \A x \in 1..i : x \in 1..N
      BY <1>1, <2>1
    <3>2. \A x \in 1..(i - 1) : x \in 1..N
      BY <1>1, <2>1
    <3>3. QED BY <3>1, <3>2
  <2>3. G[1..i] = step[<<i, G[1..(i - 1)]>>] /\ G[1..(i - 1)] \in Seq(A)
    BY <1>5, <2>1, <2>2 DEF Steps
  <2>4. f[i] = IF i = 1 THEN q[1] ELSE G[1..(i - 1)] \o q[i]
    BY <1>2, <2>3
  <2>5. i # 1 => i - 1 \in 1..N
    BY <1>1, <2>1
  <2>6. QED BY <2>4, <2>5
<1>7. FlattenFunction(q, f)
  BY <1>6 DEF FlattenFunction, N
<1>8. PICK h : h = CHOOSE k : FlattenFunction(q, k)
  OBVIOUS
<1>9. FlattenFunction(q, h)
  <2> HIDE DEF f
  <2>1. QED BY <1>7, <1>8
<1>10. FlattenSeq(q) = h[Len(q)]
  BY <1>1, <1>8 DEF FlattenSeq, FlattenFunction, N
<1>11. QED BY <1>9, <1>10

LEMMA EndsOfFlatten ==
  ASSUME NEW q \in Seq(Seq(Frame)), NEW l, NEW B, \A i \in 1..Len(q) : EndsAt(q[i], l, B)
  PROVE  EndsAt(FlattenSeq(q), l, B)
<1>1. CASE q = <<>>
  <2>1. FlattenSeq(q) = <<>>
    BY <1>1 DEF FlattenSeq
  <2>2. QED BY <2>1 DEF EndsAt
<1>2. CASE q # <<>>
  <2>1. PICK f : FlattenFunction(q, f) /\ FlattenSeq(q) = f[Len(q)]
    BY <1>2, FlattenRuns
  <2>2. Len(q) \in Nat /\ Len(q) # 0
    BY <1>2
  <2>3. \A i \in 1..Len(q) : f[i] = IF i = 1 THEN q[i] ELSE f[i - 1] \o q[i]
    BY <2>1 DEF FlattenFunction
  <2> DEFINE P == {n \in Nat : n + 1 <= Len(q) => EndsAt(f[n + 1], l, B)}
  <2>4. 0 \in P
    BY <2>2, <2>3
  <2>5. ASSUME NEW n \in Nat, n \in P PROVE n + 1 \in P
    <3>1. CASE n + 2 <= Len(q)
      <4>1. n + 2 \in 1..Len(q) /\ n + 2 # 1 /\ (n + 2) - 1 = n + 1 /\ n + 1 <= Len(q)
        BY <2>2, <3>1
      <4>2. f[n + 2] = f[n + 1] \o q[n + 2]
        BY <2>3, <4>1
      <4>3. EndsAt(f[n + 1], l, B) /\ EndsAt(q[n + 2], l, B)
        BY <2>5, <4>1
      <4>4. EndsAt(f[n + 2], l, B)
        BY <4>2, <4>3, EndsOfConcat
      <4>5. (n + 1) + 1 = n + 2
        OBVIOUS
      <4>6. QED BY <4>4, <4>5
    <3>2. CASE ~(n + 2 <= Len(q))
      BY <3>2
    <3>3. QED BY <3>1, <3>2
  <2>6. Nat \subseteq P
    <3> HIDE DEF P
    <3>1. QED BY <2>4, <2>5, SetInduction
  <2>7. Len(q) - 1 \in P /\ (Len(q) - 1) + 1 = Len(q)
    BY <2>2, <2>6
  <2>8. QED BY <2>1, <2>2, <2>7
<1>3. QED BY <1>1, <1>2

\* The drained adapter: every book is none or that of the last frame waiting for it.
LEMMA DrainedFacts ==
  ASSUME NEW a \in Adapter, NEW l, NEW B,
         \A s \in Symbols : EndsAt(a.parked[s], l, B) /\ MayHold(a.book[s], s, l, B)
  PROVE  /\ Drained(a) \in Adapter
         /\ Drained(a).precise = a.precise /\ Drained(a).overflowed = a.overflowed
         /\ Drained(a).reconnect = a.reconnect
         /\ Drained(a).parked = [s \in Symbols |-> <<>>]
         /\ \A s \in Symbols : MayHold(Drained(a).book[s], s, l, B)
<1> DEFINE q == [i \in DOMAIN Order |-> a.parked[Order[i]]]
           w == FlattenSeq(q)
           r == FoldLeft(Applied, a, w)
<1>1. Order \in Seq(Range(Order)) /\ Len(Order) \in Nat /\ DOMAIN Order = 1..Len(Order)
  BY CaptureConstants DEF CaptureConstants
<1>2. \A i \in 1..Len(Order) : Order[i] \in Symbols
  BY <1>1 DEF Symbols, Range
<1>3. a.parked \in [Symbols -> Seq(Frame)]
  BY DEF Adapter
<1>4. q \in Seq(Seq(Frame)) /\ Len(q) = Len(Order)
  BY <1>1, <1>2, <1>3
<1>5. \A i \in 1..Len(q) : EndsAt(q[i], l, B)
  BY <1>1, <1>2, <1>4
<1> HIDE DEF q
<1>6. EndsAt(w, l, B)
  BY <1>4, <1>5, EndsOfFlatten
<1> HIDE DEF w
<1>7. /\ r \in Adapter /\ r.precise = a.precise /\ r.overflowed = a.overflowed /\ r.reconnect = a.reconnect
      /\ \A s \in Symbols : MayHold(r.book[s], s, l, B)
  BY <1>6, DrainFacts
<1>8. Drained(a) = [r EXCEPT !.parked = [s \in Symbols |-> <<>>]]
  BY DEF Drained, w, q
<1> HIDE DEF r
<1> DEFINE none == [s \in Symbols |-> <<>>]
<1>9. none \in [Symbols -> Seq(Frame)]
  OBVIOUS
<1>10. Drained(a) = [r EXCEPT !.parked = none]
  BY <1>8
<1>11. none = [s \in Symbols |-> <<>>]
  OBVIOUS
<1> HIDE DEF none
<1>12. QED BY <1>7, <1>9, <1>10, <1>11 DEF Adapter

-----------------------------------------------------------------------------
(* What a frame does to the adapter *)

LEMMA SymbolFacts == {"all", "instrument"} \cap Symbols = {}
BY CaptureConstants DEF CaptureConstants, Symbols

\* last, once frame f has been handled.
LastWith(f) == [s \in Symbols |-> IF s = f.symbol THEN f.version ELSE last[s]]

ParkedWell(p) ==
  \A s \in Symbols : /\ Len(p[s]) <= ParkMax
                     /\ \A i \in DOMAIN p[s] : Sent(p[s][i]) /\ IsBook(p[s][i]) /\ p[s][i].symbol = s

HandledWell(h, l, B) ==
  /\ h \in Adapter /\ ParkedWell(h.parked)
  /\ \A s \in Symbols : MayHold(h.book[s], s, l, B)
  /\ h.precise => \A s \in Symbols : h.parked[s] = <<>>
  /\ exchange = "kraken" /\ ~h.precise =>
       /\ h.book = Nothing
       /\ \A s \in Symbols : h.parked[s] # <<>> => EndsWith(h.parked[s], s, l, B)

LEMMA ConstantFacts == ParkMax \in Nat \ {0} /\ QueueMax \in Nat \ {0} /\ SilenceMax \in Nat \ {0}
BY CaptureConstants DEF CaptureConstants

LEMMA UnchangedFacts ==
  ASSUME TypeOK, FrameInv
  PROVE  /\ Unchanged \in Adapter
         /\ Unchanged.book = book /\ Unchanged.parked = parked /\ Unchanged.overflowed = overflowed
         /\ Unchanged.precise = precise /\ Unchanged.again = <<>> /\ Unchanged.marked = <<>>
         /\ Unchanged.reconnect = FALSE
<1>1. /\ book \in [Symbols -> Held] /\ parked \in [Symbols -> Seq(Frame)]
      /\ overflowed \in SUBSET Symbols /\ precise \in BOOLEAN
  BY DEF TypeOK, FrameInv
<1>2. <<>> \in Seq(Symbols) /\ <<>> \in Seq({Other})
  OBVIOUS
<1>3. QED BY <1>1, <1>2 DEF Unchanged, Adapter

LEMMA HeadFacts ==
  ASSUME TypeOK, FrameInv, wire # <<>>
  PROVE  /\ Head(wire) = wire[1] /\ Head(wire) \in Frame /\ Sent(Head(wire)) /\ 1 \in DOMAIN wire
         /\ Head(wire).symbol \in Symbols => OfBook(Head(wire)) /\ IsBook(Head(wire))
         /\ IsBook(Head(wire)) => OfBook(Head(wire))
<1>1. wire \in Seq(Frame)
  BY DEF TypeOK
<1>2. 1 \in DOMAIN wire /\ Head(wire) = wire[1] /\ wire[1] \in Frame
  BY <1>1
<1>3. Sent(wire[1])
  BY <1>2 DEF FrameInv
<1>4. wire[1].symbol \in Symbols \cup {"all"}
  BY <1>2 DEF Frame
<1>5. wire[1].symbol \in Symbols <=> wire[1].symbol # "all"
  BY <1>4, SymbolFacts
<1>6. QED BY <1>2, <1>3, <1>5 DEF Sent, OfBook, IsBook

LEMMA LastWithFacts ==
  ASSUME TypeOK, FrameInv, BookInv, NEW f \in Frame, Sent(f)
  PROVE  /\ ~IsBook(f) => \A s \in Symbols : LastWith(f)[s] = last[s]
         /\ \A s \in Symbols : s # f.symbol => LastWith(f)[s] = last[s]
         /\ f.symbol \in Symbols => LastWith(f)[f.symbol] = f.version
         /\ \A s \in Symbols : s # f.symbol /\ s \in blind => s \in Blinded(f)
         /\ f.symbol \in Symbols /\ exchange = "kraken" /\ ~f.tells => f.symbol \in Blinded(f)
         /\ f.symbol \in Symbols /\ exchange # "kraken" /\ f.odd => f.symbol \in Blinded(f)
         /\ exchange # "kraken" /\ f.symbol \in blind /\ f.kind # "snapshot" => f.symbol \in Blinded(f)
  BY SymbolFacts DEF LastWith, Sent, IsBook, Blinded, Settles, Unsettles, Frame

LEMMA ParkedNow == TypeOK /\ FrameInv => ParkedWell(parked)
BY DEF TypeOK, FrameInv, ParkedWell

\* kraken, before the instrument frame.
LEMMA ParkedFacts ==
  ASSUME TypeOK, FrameInv, ParkInv, BookInv, exchange = "kraken", ~precise,
         NEW f \in Frame, Sent(f), IsBook(f), OfBook(f)
  PROVE  HandledWell(Parked(Unchanged, f), LastWith(f), Blinded(f))
<1> DEFINE s == f.symbol
           full == Len(parked[s]) >= ParkMax
           p == Append(IF full THEN Tail(parked[s]) ELSE parked[s], f)
           k == [parked EXCEPT ![s] = p]
           o == IF full THEN overflowed \cup {s} ELSE overflowed
           h == Parked(Unchanged, f)
<1>1. s \in Symbols
  BY DEF OfBook
<1>2. parked \in [Symbols -> Seq(Frame)] /\ parked[s] \in Seq(Frame) /\ Len(parked[s]) <= ParkMax
  BY <1>1 DEF TypeOK, FrameInv
<1>3. ParkMax \in Nat /\ ParkMax # 0
  BY ConstantFacts
<1>4. full => parked[s] # <<>>
  BY <1>2, <1>3
<1>5. p \in Seq(Frame) /\ Len(p) <= ParkMax /\ p[Len(p)] = f
  <2>1. CASE full
    <3>1. Tail(parked[s]) \in Seq(Frame) /\ Len(Tail(parked[s])) = Len(parked[s]) - 1
      BY <1>2, <1>4, <2>1
    <3>2. QED BY <1>2, <1>3, <2>1, <3>1
  <2>2. CASE ~full
    BY <1>2, <1>3, <2>2
  <2>3. QED BY <2>1, <2>2
<1>6. \A i \in DOMAIN p : p[i] = f \/ \E j \in DOMAIN parked[s] : p[i] = parked[s][j]
  <2>1. CASE full
    <3>1. /\ Tail(parked[s]) \in Seq(Frame) /\ Len(Tail(parked[s])) = Len(parked[s]) - 1
          /\ \A i \in 1..Len(Tail(parked[s])) : Tail(parked[s])[i] = parked[s][i + 1]
      BY <1>2, <1>4, <2>1
    <3>2. \A i \in 1..Len(Tail(parked[s])) : i + 1 \in DOMAIN parked[s]
      BY <1>2, <3>1
    <3>3. \A i \in DOMAIN p : p[i] = f \/ (i \in 1..Len(Tail(parked[s])) /\ p[i] = Tail(parked[s])[i])
      BY <2>1, <3>1
    <3>4. QED BY <3>1, <3>2, <3>3
  <2>2. CASE ~full
    BY <1>2, <2>2
  <2>3. QED BY <2>1, <2>2
<1>7. \A i \in DOMAIN p : Sent(p[i]) /\ IsBook(p[i]) /\ p[i].symbol = s
  <2>1. \A j \in DOMAIN parked[s] : Sent(parked[s][j]) /\ IsBook(parked[s][j]) /\ parked[s][j].symbol = s
    BY <1>1 DEF FrameInv
  <2> HIDE DEF p
  <2>2. QED BY <1>6, <2>1
<1>8. h = [Unchanged EXCEPT !.parked = k, !.overflowed = o]
  BY DEF Parked, Unchanged
<1> HIDE DEF p, full
<1>9. k \in [Symbols -> Seq(Frame)] /\ k[s] = p /\ \A t \in Symbols : t # s => k[t] = parked[t]
  BY <1>1, <1>2, <1>5
<1>10. o \in SUBSET Symbols
  BY <1>1 DEF TypeOK
<1> HIDE DEF k, o
<1>11. /\ h \in Adapter /\ h.parked = k /\ h.book = book /\ h.precise = precise
  BY <1>8, <1>9, <1>10, UnchangedFacts DEF Adapter
<1> HIDE DEF h
<1>12. ParkedWell(h.parked)
  BY <1>5, <1>7, <1>9, <1>11, ParkedNow DEF ParkedWell
<1>13. book = Nothing /\ \A t \in Symbols : parked[t] # <<>> => EndsWith(parked[t], t, last, blind)
  BY DEF ParkInv
<1>14. \A t \in Symbols : h.book[t] = None
  BY <1>11, <1>13 DEF Nothing
<1>15. \A t \in Symbols : h.parked[t] # <<>> => EndsWith(h.parked[t], t, LastWith(f), Blinded(f))
  <2> TAKE t \in Symbols
  <2>1. CASE t = s
    BY <1>1, <1>5, <1>9, <1>11, <2>1, LastWithFacts DEF EndsWith, OfBook, Frame
  <2>2. CASE t # s
    BY <1>9, <1>11, <1>13, <2>2, LastWithFacts DEF EndsWith
  <2>3. QED BY <2>1, <2>2
<1>16. QED BY <1>11, <1>12, <1>13, <1>14, <1>15 DEF HandledWell, MayHold, h

LEMMA KrakenFacts ==
  ASSUME TypeOK, FrameInv, ParkInv, BookInv, exchange = "kraken",
         NEW f \in Frame, Sent(f), IsBook(f) => OfBook(f)
  PROVE  HandledWell(Kraken(f), LastWith(f), Blinded(f))
<1> DEFINE l == LastWith(f)
           B == Blinded(f)
<1>1. CASE ~IsBook(f)
  <2> DEFINE a == [Unchanged EXCEPT !.precise = TRUE]
  <2>1. Kraken(f) = Drained(a)
    BY <1>1 DEF Kraken, IsBook
  <2>2. /\ a \in Adapter /\ a.book = book /\ a.parked = parked /\ a.precise = TRUE
    BY UnchangedFacts DEF Adapter
  <2> HIDE DEF a
  <2>3. \A s \in Symbols : l[s] = last[s] /\ (s \in blind => s \in B)
    <3>1. f.symbol \notin Symbols
      BY <1>1, SymbolFacts DEF Sent, IsBook
    <3>2. QED BY <1>1, <3>1, LastWithFacts
  <2>4. ASSUME NEW s \in Symbols PROVE EndsAt(parked[s], l, B)
    <3>1. parked[s] \in Seq(Frame) /\ Len(parked[s]) \in Nat /\ DOMAIN parked[s] = 1..Len(parked[s])
      BY DEF FrameInv
    <3>2. \A i \in DOMAIN parked[s] : /\ Sent(parked[s][i]) /\ IsBook(parked[s][i])
                                      /\ parked[s][i].symbol = s /\ parked[s][i] \in Frame
      BY <3>1 DEF FrameInv
    <3>3. \A i \in 1..Len(parked[s]) : OfBook(parked[s][i])
      BY <3>1, <3>2 DEF Sent, OfBook
    <3>4. ASSUME NEW i \in 1..Len(parked[s]),
                 \A j \in 1..Len(parked[s]) : i < j => parked[s][j].symbol # parked[s][i].symbol
          PROVE  /\ parked[s][i].version = l[parked[s][i].symbol]
                 /\ parked[s][i].tells \/ parked[s][i].symbol \in B
      <4>1. i = Len(parked[s])
        <5>1. Len(parked[s]) \in 1..Len(parked[s])
          BY <3>1
        <5>2. ~(i < Len(parked[s]))
          BY <3>1, <3>2, <3>4, <5>1
        <5>3. QED BY <3>1, <5>2
      <4>2. parked[s] # <<>>
        BY <3>1
      <4>3. ~precise
        BY <4>2 DEF ParkInv
      <4>4. EndsWith(parked[s], s, last, blind)
        BY <4>2, <4>3 DEF ParkInv
      <4>5. QED BY <2>3, <3>1, <3>2, <4>1, <4>4 DEF EndsWith
    <3>5. QED BY <3>1, <3>3, <3>4 DEF EndsAt
  <2>5. \A s \in Symbols : EndsAt(a.parked[s], l, B) /\ MayHold(a.book[s], s, l, B)
    BY <2>2, <2>3, <2>4 DEF BookInv, MayHold
  <2> DEFINE h == Drained(a)
  <2>6. /\ h \in Adapter /\ h.precise = TRUE /\ h.parked = [s \in Symbols |-> <<>>]
        /\ \A s \in Symbols : MayHold(h.book[s], s, l, B)
    BY <2>2, <2>5, DrainedFacts
  <2> HIDE DEF h
  <2>7. \A s \in Symbols : h.parked[s] = <<>>
    BY <2>6
  <2>8. ParkedWell(h.parked)
    BY <2>7, ConstantFacts DEF ParkedWell
  <2>9. HandledWell(h, l, B)
    BY <2>6, <2>7, <2>8 DEF HandledWell
  <2>10. QED BY <2>1, <2>9 DEF h
<1>2. CASE IsBook(f) /\ precise
  <2> DEFINE h == Applied(Unchanged, f)
  <2>1. Kraken(f) = h
    BY <1>2 DEF Kraken, IsBook
  <2>2. OfBook(f) /\ f.symbol \in Symbols
    BY <1>2 DEF OfBook
  <2>3. /\ h \in Adapter
        /\ h.book[f.symbol] \in {None, f.version} \/ (h.book[f.symbol] = Skewed /\ ~f.tells)
        /\ \A s \in Symbols : s # f.symbol => h.book[s] = book[s]
        /\ h.precise = precise /\ h.parked = parked
    BY <2>2, AppliedFacts, UnchangedFacts
  <2> HIDE DEF h
  <2>4. ASSUME NEW s \in Symbols PROVE MayHold(h.book[s], s, l, B)
    <3>1. CASE s = f.symbol
      BY <2>2, <2>3, <3>1, LastWithFacts DEF MayHold
    <3>2. CASE s # f.symbol
      BY <2>3, <3>2, LastWithFacts DEF BookInv, MayHold
    <3>3. QED BY <3>1, <3>2
  <2>5. HandledWell(h, l, B)
    BY <1>2, <2>3, <2>4, ParkedNow DEF HandledWell, ParkInv
  <2>6. QED BY <2>1, <2>5
<1>3. CASE IsBook(f) /\ ~precise
  <2>1. Kraken(f) = Parked(Unchanged, f)
    BY <1>3 DEF Kraken, IsBook
  <2>2. QED BY <1>3, <2>1, ParkedFacts
<1>4. precise \in BOOLEAN
  BY DEF TypeOK
<1>5. QED BY <1>1, <1>2, <1>3

\* The adapters that park nothing change a book and, coinbase's, ask for a reconnect.
LEMMA BookOnly ==
  ASSUME TypeOK, FrameInv, ParkInv, BookInv, exchange # "kraken",
         NEW f, NEW h \in Adapter, h.parked = parked, h.precise = precise,
         \A s \in Symbols : MayHold(h.book[s], s, LastWith(f), Blinded(f))
  PROVE  HandledWell(h, LastWith(f), Blinded(f))
BY ParkedNow DEF HandledWell, ParkInv

LEMMA BinanceFacts ==
  ASSUME TypeOK, FrameInv, ParkInv, BookInv, exchange = "binance",
         NEW f \in Frame, Sent(f), f.symbol \in Symbols => OfBook(f)
  PROVE  HandledWell(Binance(f), LastWith(f), Blinded(f))
<1> DEFINE v == IF book[f.symbol] # None /\ f.version <= last[f.symbol] THEN None
                ELSE IF f.odd THEN Skewed ELSE f.version
           k == [book EXCEPT ![f.symbol] = v]
<1>1. book \in [Symbols -> Held]
  BY DEF TypeOK
<1>2. f.symbol \in Symbols => v \in Held
  BY DEF OfBook, Held
<1>3. v \in {None, f.version} \/ (v = Skewed /\ f.odd)
  OBVIOUS
<1>4. k = [book EXCEPT ![f.symbol] = IF @ # None /\ f.version <= last[f.symbol] THEN None
                                       ELSE IF f.odd THEN Skewed ELSE f.version]
  OBVIOUS
<1> HIDE DEF v
<1>5. k \in [Symbols -> Held]
  BY <1>1, <1>2
<1>6. ASSUME NEW s \in Symbols PROVE MayHold(k[s], s, LastWith(f), Blinded(f))
  <2>1. CASE s = f.symbol
    BY <1>1, <1>3, <2>1, LastWithFacts DEF MayHold
  <2>2. CASE s # f.symbol
    BY <1>1, <2>2, LastWithFacts DEF BookInv, MayHold
  <2>3. QED BY <2>1, <2>2
<1>7. Binance(f) = [Unchanged EXCEPT !.book = k]
  BY UnchangedFacts, <1>4 DEF Binance, Unchanged
<1> HIDE DEF k
<1> DEFINE h == [Unchanged EXCEPT !.book = k]
<1>8. h \in Adapter /\ h.book = k /\ h.parked = parked /\ h.precise = precise
  BY <1>5, UnchangedFacts DEF Adapter
<1> HIDE DEF h
<1>9. HandledWell(h, LastWith(f), Blinded(f))
  BY <1>6, <1>8, BookOnly
<1>10. QED BY <1>7, <1>9 DEF h

LEMMA CoinbaseFacts ==
  ASSUME TypeOK, FrameInv, ParkInv, BookInv, ChainInv, exchange = "coinbase", Open, wire # <<>>
  PROVE  LET f == Head(wire)
             h == Coinbase(f)
         IN  /\ HandledWell(h, LastWith(f), Blinded(f)) /\ h.reconnect = (anchored /\ f.gap)
             /\ \A s \in Symbols : s # f.symbol /\ h.book[s] # None
                                     => h.book[s] = book[s] /\ (f.gap => h.reconnect)
<1> DEFINE f == Head(wire)
           gap == anchored /\ f.gap
           kept == IF gap THEN Nothing ELSE book
           b == Adapted(kept[f.symbol], f)
           k == [kept EXCEPT ![f.symbol] = b]
<1>1. /\ f = wire[1] /\ f \in Frame /\ Sent(f) /\ 1 \in DOMAIN wire
      /\ f.symbol \in Symbols => OfBook(f) /\ IsBook(f)
  BY HeadFacts
<1>2. Coinbase(f) = [Unchanged EXCEPT !.reconnect = gap, !.book = k]
  BY DEF Coinbase
<1>3. book \in [Symbols -> Held] /\ Nothing \in [Symbols -> Held] /\ kept \in [Symbols -> Held]
  BY DEF TypeOK, Nothing, Held
<1>4. gap \in BOOLEAN /\ f.gap \in BOOLEAN /\ anchored \in BOOLEAN
  BY <1>1 DEF Frame, TypeOK
<1> HIDE DEF f
<1>5. \A s \in Symbols : MayHold(kept[s], s, last, blind) /\ (f.gap => kept[s] = None)
  BY <1>4 DEF BookInv, ParkInv, Nothing, MayHold
<1>6. f.symbol \in Symbols => MayHold(b, f.symbol, LastWith(f), Blinded(f)) /\ b \in Held
  <2> SUFFICES ASSUME f.symbol \in Symbols
               PROVE  MayHold(b, f.symbol, LastWith(f), Blinded(f)) /\ b \in Held
    OBVIOUS
  <2> DEFINE c == kept[f.symbol]
  <2>0. /\ LastWith(f)[f.symbol] = f.version /\ f.version \in Change
        /\ f.kind # "instrument" /\ f.kind \in {"instrument", "snapshot", "update"}
    BY <1>1, LastWithFacts DEF OfBook, IsBook, Frame
  <2>1. CASE b \in {None, f.version}
    BY <2>0, <2>1 DEF MayHold, Held
  <2>2. CASE b = Skewed /\ f.odd
    BY <1>1, <2>2, LastWithFacts DEF MayHold, Held
  <2>3. CASE f.kind = "update" /\ c \notin {None, Skewed} /\ ~f.odd
    <3>1. c # None /\ c = last[f.symbol]
      BY <1>5, <2>3 DEF MayHold
    <3>2. ~f.gap /\ ~gap
      BY <1>5, <3>1
    <3>3. kept = book /\ book[f.symbol] # None
      BY <3>1, <3>2
    <3>4. wire \in Seq(Frame)
      BY DEF TypeOK
    <3>5. Apart(f.symbol, 0, 1) /\ Clear(0, 1)
      BY <1>1, <3>2, <3>4 DEF Apart, Clear
    <3>6. wire[1].version = last[f.symbol] + 1
      BY <1>1, <2>3, <3>3, <3>5 DEF ChainInv
    <3>7. last[f.symbol] \in Nat
      BY DEF TypeOK, Change, None
    <3>8. c = f.version - 1
      BY <1>1, <3>1, <3>6, <3>7
    <3>9. b = f.version
      BY <2>3, <3>1, <3>8 DEF Adapted
    <3>10. QED BY <2>0, <3>9 DEF MayHold, Held
  <2>4. CASE f.kind = "update" /\ c = Skewed /\ ~f.odd
    <3>1. f.symbol \in blind
      <4>1. c # None /\ last[f.symbol] # Skewed
        <5>1. last[f.symbol] \in Change \cup {None}
          BY DEF TypeOK
        <5>2. QED BY <2>4, <5>1 DEF Change, None, Skewed
      <4>2. QED BY <1>5, <2>4, <4>1 DEF MayHold
    <3>2. f.symbol \in Blinded(f)
      BY <1>1, <2>4, <3>1, LastWithFacts
    <3>3. b = Skewed
      BY <2>0, <2>4 DEF Adapted, Skewed, None, Change
    <3>4. QED BY <3>2, <3>3 DEF MayHold, Held
  <2>5. QED BY <2>0, <2>1, <2>2, <2>3, <2>4 DEF Adapted
<1>7. f.symbol \in Symbols => b \in Held
  BY <1>6
<1> HIDE DEF b
<1>8. k \in [Symbols -> Held]
  BY <1>3, <1>7
<1>9. ASSUME NEW s \in Symbols PROVE MayHold(k[s], s, LastWith(f), Blinded(f))
  <2>1. CASE s = f.symbol
    BY <1>1, <1>3, <1>6, <2>1, LastWithFacts
  <2>2. CASE s # f.symbol
    BY <1>1, <1>3, <1>5, <2>2, LastWithFacts DEF MayHold
  <2>3. QED BY <2>1, <2>2
<1>10. \A s \in Symbols : s # f.symbol => k[s] = kept[s]
  BY <1>3
<1>11. \A s \in Symbols : s # f.symbol /\ k[s] # None => k[s] = book[s] /\ (f.gap => gap)
  BY <1>5, <1>10 DEF Nothing
<1> DEFINE h == [Unchanged EXCEPT !.reconnect = gap, !.book = k]
<1> HIDE DEF k, gap
<1>12. h \in Adapter /\ h.reconnect = gap /\ h.book = k /\ h.parked = parked /\ h.precise = precise
  BY <1>4, <1>8, UnchangedFacts DEF Adapter
<1> HIDE DEF h
<1>13. HandledWell(h, LastWith(f), Blinded(f))
  BY <1>9, <1>12, BookOnly
<1>14. QED BY <1>2, <1>11, <1>12, <1>13 DEF h, f, gap

LEMMA HandledFacts ==
  ASSUME TypeOK, FrameInv, ParkInv, BookInv, ChainInv, Open, wire # <<>>
  PROVE  HandledWell(Handled(Head(wire)), LastWith(Head(wire)), Blinded(Head(wire)))
<1> DEFINE f == Head(wire)
<1>1. /\ f \in Frame /\ Sent(f) /\ (f.symbol \in Symbols => OfBook(f)) /\ (IsBook(f) => OfBook(f))
  BY HeadFacts
<1>2. exchange \in {"binance", "kraken", "coinbase"}
  BY CaptureConstants DEF CaptureConstants, TypeOK
<1> HIDE DEF f
<1>3. CASE exchange = "kraken"
  BY <1>1, <1>3, KrakenFacts DEF Handled, f
<1>4. CASE exchange = "coinbase"
  BY <1>4, CoinbaseFacts DEF Handled, f
<1>5. CASE exchange = "binance"
  BY <1>1, <1>5, BinanceFacts DEF Handled, f
<1>6. QED BY <1>2, <1>3, <1>4, <1>5

-----------------------------------------------------------------------------
(* Type correctness *)

USE DEF world, adapter, resync, broker, counts

LEMMA BoundsFacts ==
  /\ MaxChanges \in Nat /\ MaxFaults \in Nat /\ DelayMax \in Nat
  /\ SilenceMax \in Nat \ {0} /\ QueueMax \in Nat \ {0} /\ ParkMax \in Nat \ {0}
BY CaptureConstants DEF CaptureConstants

LEMMA SessionEndsFacts ==
  ASSUME TypeOK, SessionEnds
  PROVE  /\ phase' = "waiting" /\ wire' = <<>> /\ requests' = <<>> /\ subscribed' = {}
         /\ mute' = FALSE /\ skipped' = FALSE /\ missed' = {} /\ delay' \in 0..DelayMax
BY BoundsFacts DEF TypeOK, SessionEnds, Closed, NextDelay

SendsOne(kind, s, v) == \E tells \in BOOLEAN : Sends(kind, s, v, tells)

\* The frame that the venue sends when it sends one.
Newest == wire'[Len(wire) + 1]

OnTheWire(n) ==
  /\ n \in Frame /\ Sent(n) /\ n.gap = skipped
  /\ wire \in Seq(Frame) /\ Len(wire') = Len(wire) + 1 /\ DOMAIN wire' = 1..(Len(wire) + 1)
  /\ wire'[Len(wire) + 1] = n /\ \A i \in 1..Len(wire) : wire'[i] = wire[i]

LEMMA SendsFacts ==
  ASSUME TypeOK, FrameInv, NEW kind, NEW s, NEW v, SendsOne(kind, s, v),
         \/ kind \in {"snapshot", "update"} /\ s \in Symbols /\ v \in Change
         \/ kind = "instrument" /\ s = "all" /\ v = None
  PROVE  /\ OnTheWire(Newest) /\ Newest.kind = kind /\ Newest.symbol = s /\ Newest.version = v
         /\ wire' \in Seq(Frame) /\ skipped' = FALSE /\ missed' = missed
         /\ \A i \in DOMAIN wire' : Sent(wire'[i])
<1>0. PICK tells \in BOOLEAN : Sends(kind, s, v, tells)
  BY DEF SendsOne
<1> DEFINE n == [kind |-> kind, symbol |-> s, version |-> v, gap |-> skipped, odd |-> FALSE, tells |-> tells]
<1>1. skipped \in BOOLEAN /\ wire \in Seq(Frame)
  BY DEF TypeOK
<1>2. n.kind = kind /\ n.symbol = s /\ n.version = v /\ n.gap = skipped
  OBVIOUS
<1>3. n \in Frame
  BY <1>1 DEF Frame
<1>4. Sent(n)
  BY <1>2, SymbolFacts DEF Sent, IsBook
<1>5. wire' = Append(wire, n) /\ skipped' = FALSE /\ missed' = missed
  BY <1>0 DEF Sends
<1> HIDE DEF n
<1>6. /\ wire' \in Seq(Frame) /\ Len(wire') = Len(wire) + 1
      /\ DOMAIN wire' = 1..(Len(wire) + 1)
      /\ wire'[Len(wire) + 1] = n /\ \A i \in 1..Len(wire) : wire'[i] = wire[i]
  BY <1>1, <1>3, <1>5
<1>7. \A i \in DOMAIN wire' : Sent(wire'[i])
  <2>1. \A i \in 1..Len(wire) : Sent(wire[i])
    BY <1>1 DEF FrameInv
  <2>2. \A i \in DOMAIN wire' : i \in 1..Len(wire) \/ i = Len(wire) + 1
    BY <1>1, <1>6
  <2>3. QED BY <1>4, <1>6, <2>1, <2>2
<1>8. QED BY <1>1, <1>2, <1>3, <1>4, <1>5, <1>6, <1>7 DEF Newest, OnTheWire

LEMMA TradeFacts ==
  ASSUME IInv, NEW s \in Symbols, Trade(s)
  PROVE  /\ version[s] + 1 \in Change /\ version' = [version EXCEPT ![s] = version[s] + 1]
         /\ version' \in [Symbols -> Change] /\ KindOfChange \in {"snapshot", "update"}
         /\ SendsOne(KindOfChange, s, version[s] + 1) /\ version'[s] = version[s] + 1
         /\ \A t \in Symbols : t # s => version'[t] = version[t]
         /\ changes' = changes + 1 /\ changes' \in 0..MaxChanges /\ faults' = faults
<1>1. /\ version \in [Symbols -> Change] /\ version[s] <= changes + faults + 1
      /\ changes \in 0..MaxChanges /\ faults \in 0..MaxFaults
  BY DEF IInv, TypeOK, PhaseInv
<1>2. changes < MaxChanges /\ changes' = changes + 1 /\ faults' = faults
  BY DEF Trade
<1>3. version[s] + 1 \in Change
  BY <1>1, <1>2, BoundsFacts DEF Change
<1>4. version' = [version EXCEPT ![s] = version[s] + 1]
  BY DEF Trade
<1>5. SendsOne(KindOfChange, s, version[s] + 1)
  <2>1. PICK tells \in Told : Sends(KindOfChange, s, version'[s], tells)
    BY DEF Trade
  <2>2. tells \in BOOLEAN /\ version'[s] = version[s] + 1
    BY <1>1, <1>4 DEF Told
  <2>3. QED BY <2>1, <2>2 DEF SendsOne
<1>6. QED BY <1>1, <1>2, <1>3, <1>4, <1>5, BoundsFacts DEF KindOfChange

LEMMA SkipFacts ==
  ASSUME IInv, NEW s \in Symbols, Skip(s)
  PROVE  /\ version' \in [Symbols -> Change] /\ version'[s] = version[s] + 1
         /\ \A t \in Symbols : t # s => version'[t] = version[t]
         /\ faults' = faults + 1 /\ faults' \in 0..MaxFaults /\ changes' = changes
<1>1. /\ version \in [Symbols -> Change] /\ version[s] <= changes + faults + 1
      /\ changes \in 0..MaxChanges /\ faults \in 0..MaxFaults
  BY DEF IInv, TypeOK, PhaseInv
<1>2. faults < MaxFaults /\ faults' = faults + 1 /\ changes' = changes
  BY DEF Skip, Fault
<1>3. version[s] + 1 \in Change
  BY <1>1, <1>2, BoundsFacts DEF Change
<1>4. version' = [version EXCEPT ![s] = version[s] + 1]
  BY DEF Skip
<1>5. QED BY <1>1, <1>2, <1>3, <1>4, BoundsFacts

LEMMA FaultFacts ==
  ASSUME TypeOK, Fault
  PROVE  faults' = faults + 1 /\ faults' \in 0..MaxFaults /\ changes' = changes
BY BoundsFacts DEF TypeOK, Fault

LEMMA StaleFacts ==
  ASSUME IInv, NEW s \in Symbols, Stale(s)
  PROVE  SendsOne("snapshot", s, version[s] - 1) /\ version[s] - 1 \in Change
<1>1. version[s] > 1 /\ Sends("snapshot", s, version[s] - 1, TRUE)
  BY DEF Stale
<1>2. version[s] \in Change
  BY DEF IInv, TypeOK
<1>3. SendsOne("snapshot", s, version[s] - 1)
  BY <1>1 DEF SendsOne
<1>4. QED BY <1>1, <1>2, <1>3, BoundsFacts DEF Change

\* What an answer sends: the instrument frame, or the book of the symbol asked for.
LEMMA AnswerFacts ==
  ASSUME IInv, Answer
  PROVE  \E i \in DOMAIN requests :
           /\ requests' = RemoveAt(requests, i) /\ requests' \in Seq(Symbols \cup {"instrument"})
           /\ Range(requests) \subseteq Range(requests') \cup {requests[i]}
           /\ subscribed' \subseteq Symbols
           /\ \/ requests[i] = "instrument" /\ SendsOne("instrument", "all", None)
              \/ /\ requests[i] \in Symbols /\ version[requests[i]] \in Change
                 /\ SendsOne("snapshot", requests[i], version[requests[i]])
<1>1. /\ requests \in Seq(Symbols \cup {"instrument"}) /\ subscribed \subseteq Symbols
      /\ version \in [Symbols -> Change]
  BY DEF IInv, TypeOK
<1>2. PICK i \in DOMAIN requests :
       /\ requests' = RemoveAt(requests, i)
       /\ IF requests[i] = "instrument"
          THEN SendsOne("instrument", "all", None) /\ UNCHANGED subscribed
          ELSE /\ SendsOne("snapshot", requests[i], version[requests[i]])
               /\ subscribed' = subscribed \cup {requests[i]}
  BY DEF Answer, SendsOne
<1>3. requests' \in Seq(Symbols \cup {"instrument"}) /\ Range(requests) \subseteq Range(requests') \cup {requests[i]}
  BY <1>1, <1>2, RemoveAtFacts
<1>4. requests[i] \in Symbols \cup {"instrument"}
  BY <1>1
<1>5. QED BY <1>1, <1>2, <1>3, <1>4

LEMMA GarbleFacts ==
  ASSUME IInv, NEW j, Garble(j)
  PROVE  /\ wire' \in Seq(Frame) /\ Len(wire') = Len(wire) /\ DOMAIN wire' = DOMAIN wire
         /\ \A i \in DOMAIN wire : /\ wire'[i].kind = wire[i].kind /\ wire'[i].symbol = wire[i].symbol
                                  /\ wire'[i].version = wire[i].version /\ wire'[i].gap = wire[i].gap
         /\ \A i \in DOMAIN wire' : Sent(wire'[i])
         /\ Fault
<1>1. wire \in Seq(Frame) /\ \A i \in DOMAIN wire : Sent(wire[i])
  BY DEF IInv, TypeOK, FrameInv
<1>2. j \in DOMAIN wire /\ wire' = [wire EXCEPT ![j] = [wire[j] EXCEPT !.odd = TRUE]] /\ Fault
  BY DEF Garble
<1> DEFINE f == [wire[j] EXCEPT !.odd = TRUE]
<1>3. /\ f \in Frame /\ f.kind = wire[j].kind /\ f.symbol = wire[j].symbol
      /\ f.version = wire[j].version /\ f.gap = wire[j].gap
  <2>1. wire[j] \in Frame
    BY <1>1, <1>2
  <2>2. QED BY <2>1 DEF Frame
<1> HIDE DEF f
<1>4. wire' = [wire EXCEPT ![j] = f]
  BY <1>2 DEF f
<1>5. wire' \in Seq(Frame) /\ Len(wire') = Len(wire) /\ DOMAIN wire' = DOMAIN wire
  <2>1. wire \in [1..Len(wire) -> Frame] /\ Len(wire) \in Nat
    BY <1>1
  <2>2. wire' \in [1..Len(wire) -> Frame]
    BY <1>3, <1>4, <2>1
  <2>3. QED BY <2>1, <2>2
<1>6. \A i \in DOMAIN wire : wire'[i] = IF i = j THEN f ELSE wire[i]
  BY <1>1, <1>4
<1>7. \A i \in DOMAIN wire : Sent(wire'[i])
  BY <1>1, <1>2, <1>3, <1>6 DEF Sent, IsBook
<1>8. QED BY <1>2, <1>3, <1>5, <1>6, <1>7

LEMMA QueueTail ==
  ASSUME TypeOK, queue # <<>>
  PROVE  /\ Tail(queue) \in Seq(Records) /\ Len(Tail(queue)) <= QueueMax
         /\ Head(queue) \in Records
<1>1. queue \in Seq(Records) /\ Len(queue) <= QueueMax
  BY DEF TypeOK, Records
<1>2. Tail(queue) \in Seq(Records) /\ Len(Tail(queue)) = Len(queue) - 1 /\ Head(queue) \in Records
  BY <1>1
<1>3. QED BY <1>1, <1>2, BoundsFacts

\* What handling a frame leaves the adapter, the queue and the venue.
LEMMA HandleFacts ==
  ASSUME IInv, HandleFrame
  PROVE  LET f == Head(wire)
             h == Handled(f)
         IN  /\ HandledWell(h, LastWith(f), Blinded(f)) /\ last' = LastWith(f) /\ blind' = Blinded(f)
             /\ book' = h.book /\ precise' = h.precise /\ parked' = h.parked /\ overflowed' = h.overflowed
             /\ anchored' = TRUE
             /\ f \in Frame /\ Sent(f)
             /\ h.again \in Seq(Symbols) /\ h.marked \in Seq({Other}) /\ <<f>> \o h.marked \in Seq(Records)
             /\ queue' = Queued(queue, <<f>> \o h.marked)
             /\ heard' = [s \in Symbols |-> Reads(heard[s], s, f)]
             /\ IF h.reconnect THEN SessionEnds
                ELSE /\ wire' = Tail(wire) /\ requests' = requests \o Resubscribed(h.again)
                     /\ UNCHANGED <<phase, delay, subscribed, mute, skipped, missed>>
<1> DEFINE f == Head(wire)
           h == Handled(f)
<1>1. wire # <<>> /\ Open
  BY DEF HandleFrame, Open
<1>2. HandledWell(h, LastWith(f), Blinded(f)) /\ f \in Frame /\ Sent(f)
  BY <1>1, HandledFacts, HeadFacts DEF IInv
<1>3. h.again \in Seq(Symbols) /\ h.marked \in Seq({Other})
  BY <1>2 DEF HandledWell, Adapter
<1>4. <<f>> \o h.marked \in Seq(Records)
  <2>1. h.marked \in Seq(Records) /\ f \in Records
    BY <1>2, <1>3, OtherIsOfNoSymbol DEF Records
  <2>2. QED BY <2>1
<1>5. QED BY <1>2, <1>3, <1>4 DEF HandleFrame, LastWith

LEMMA TypeInit == Init => TypeOK
<1> SUFFICES ASSUME Init PROVE TypeOK
  OBVIOUS
<1>1. \A s \in Symbols : parked[s] = <<>> /\ version[s] = 1 /\ 1 \in Change
  BY BoundsFacts DEF Init, Change
<1>2. /\ <<>> \in Seq(Frame) /\ Len(<<>>) = 0 /\ <<>> \in Seq(Symbols \cup {"instrument"})
      /\ <<>> \in Seq(Frame \cup {Other})
  OBVIOUS
<1>3. version \in [Symbols -> Change]
  BY <1>1 DEF Init
<1>4. /\ Nothing \in [Symbols -> Replayed] /\ Nothing \in [Symbols -> Change \cup {None}]
      /\ Nothing \in [Symbols -> Held]
  BY DEF Nothing, Replayed, Held
<1>5. {mute, skipped, precise, anchored, droppedSinceTick} \subseteq BOOLEAN
  BY DEF Init
<1>6. /\ exchange \in Exchanges /\ phase \in {"open", "waiting"} /\ delay \in 0..DelayMax
      /\ subscribed \subseteq Symbols /\ overflowed \subseteq Symbols /\ pending \subseteq Symbols
      /\ silent \in 0..SilenceMax /\ lost \subseteq Symbols /\ {missed, blind} \subseteq SUBSET Symbols
      /\ changes \in 0..MaxChanges /\ faults \in 0..MaxFaults
  BY BoundsFacts DEF Init
<1>7. /\ wire \in Seq(Frame) /\ requests \in Seq(Symbols \cup {"instrument"})
      /\ queue \in Seq(Frame \cup {Other}) /\ Len(queue) <= QueueMax
  BY <1>2, BoundsFacts DEF Init
<1>8. \A s \in Symbols : parked[s] \in Seq(Frame) /\ Len(parked[s]) <= ParkMax
  <2>1. Len(<<>>) <= ParkMax
    BY <1>2, BoundsFacts
  <2>2. QED BY <1>1, <1>2, <2>1
<1>9. /\ book \in [Symbols -> Held] /\ archived \in [Symbols -> Replayed]
      /\ heard \in [Symbols -> Replayed] /\ last \in [Symbols -> Change \cup {None}]
  BY <1>4 DEF Init
<1>10. QED BY <1>3, <1>5, <1>6, <1>7, <1>8, <1>9 DEF TypeOK

LEMMA TypeHandle ==
  ASSUME IInv, HandleFrame
  PROVE  TypeOK'
<1> DEFINE f == Head(wire)
           h == Handled(f)
<1> TypeOK
  BY DEF IInv
<1>1. /\ HandledWell(h, LastWith(f), Blinded(f)) /\ last' = LastWith(f) /\ blind' = Blinded(f)
      /\ book' = h.book /\ precise' = h.precise /\ parked' = h.parked /\ overflowed' = h.overflowed
      /\ anchored' = TRUE
      /\ f \in Frame /\ Sent(f)
      /\ h.again \in Seq(Symbols) /\ <<f>> \o h.marked \in Seq(Records)
      /\ queue' = Queued(queue, <<f>> \o h.marked)
      /\ heard' = [s \in Symbols |-> Reads(heard[s], s, f)]
      /\ IF h.reconnect THEN SessionEnds
         ELSE /\ wire' = Tail(wire) /\ requests' = requests \o Resubscribed(h.again)
              /\ UNCHANGED <<phase, delay, subscribed, mute, skipped, missed>>
  BY HandleFacts
<1> HIDE DEF h, f
<1>2. /\ book' \in [Symbols -> Held] /\ precise' \in BOOLEAN /\ overflowed' \subseteq Symbols
      /\ \A s \in Symbols : parked'[s] \in Seq(Frame) /\ Len(parked'[s]) <= ParkMax
  BY <1>1 DEF HandledWell, Adapter, ParkedWell
<1>3. queue' \in Seq(Frame \cup {Other}) /\ Len(queue') <= QueueMax
  <2>1. queue \in Seq(Records) /\ Len(queue) <= QueueMax
    BY DEF TypeOK, Records
  <2>2. QED BY <1>1, <2>1, QueuedFacts DEF Records
<1>4. heard' \in [Symbols -> Replayed]
  BY <1>1, ReadsType DEF TypeOK, Records
<1>5. last' \in [Symbols -> Change \cup {None}] /\ blind' \subseteq Symbols
  <2>1. last' \in [Symbols -> Change \cup {None}]
    BY <1>1, SymbolFacts DEF TypeOK, LastWith, Sent, IsBook
  <2>2. blind \subseteq Symbols /\ blind' = Blinded(f)
    BY <1>1 DEF TypeOK
  <2>3. QED BY <2>1, <2>2 DEF Blinded
<1>6. pending' \subseteq Symbols /\ droppedSinceTick' \in BOOLEAN
  <2>1. IsBook(f) => f.symbol \in Symbols
    BY <1>1 DEF Sent, Frame, IsBook
  <2>2. RememberDrop(f)
    BY DEF HandleFrame, f
  <2>3. QED BY <2>1, <2>2 DEF RememberDrop, TypeOK
<1>7. silent' \in 0..SilenceMax
  BY BoundsFacts DEF HandleFrame, Stamped, TypeOK
<1>8. /\ wire' \in Seq(Frame) /\ requests' \in Seq(Symbols \cup {"instrument"})
      /\ phase' \in {"open", "waiting"} /\ delay' \in 0..DelayMax /\ subscribed' \subseteq Symbols
      /\ mute' \in BOOLEAN /\ skipped' \in BOOLEAN /\ missed' \subseteq Symbols
  <2>1. CASE h.reconnect
    <3>1. <<>> \in Seq(Frame) /\ <<>> \in Seq(Symbols \cup {"instrument"})
      OBVIOUS
    <3>2. QED BY <1>1, <2>1, <3>1, SessionEndsFacts
  <2>2. CASE ~h.reconnect
    <3>1. wire' = Tail(wire) /\ wire # <<>> /\ wire \in Seq(Frame)
      BY <1>1, <2>2 DEF HandleFrame, TypeOK
    <3>2. wire' \in Seq(Frame)
      BY <3>1
    <3>3. Resubscribed(h.again) \in Seq(Symbols \cup {"instrument"})
      <4>1. h.again \in Seq(Symbols \cup {"instrument"}) /\ <<>> \in Seq(Symbols \cup {"instrument"})
        BY <1>1
      <4>2. QED BY <4>1 DEF Resubscribed
    <3>4. requests' \in Seq(Symbols \cup {"instrument"})
      <4>1. requests \in Seq(Symbols \cup {"instrument"}) /\ requests' = requests \o Resubscribed(h.again)
        BY <1>1, <2>2 DEF TypeOK
      <4>2. QED BY <3>3, <4>1
    <3>5. UNCHANGED <<phase, delay, subscribed, mute, skipped, missed>>
      BY <1>1, <2>2
    <3>6. QED BY <3>2, <3>4, <3>5 DEF TypeOK
  <2>3. QED BY <2>1, <2>2
<1>9. UNCHANGED <<exchange, version, archived, lost, changes, faults>>
  BY DEF HandleFrame
<1>10. QED BY <1>1, <1>2, <1>3, <1>4, <1>5, <1>6, <1>7, <1>8, <1>9 DEF TypeOK

LEMMA MendedFacts ==
  ASSUME TypeOK
  PROVE  /\ Mended \in Seq(Symbols)
         /\ Resubscribed(Mended) \in Seq(Symbols \cup {"instrument"})
         /\ exchange # "binance" /\ ~droppedSinceTick => Range(Resubscribed(Mended)) = pending
<1>1. pending \subseteq Symbols /\ IsFiniteSet(pending)
  BY SymbolsFinite, FS_Subset DEF TypeOK
<1>2. SetToSeq(pending) \in Seq(pending) /\ Range(SetToSeq(pending)) = pending
  BY <1>1, SetToSeqFacts
<1>3. SetToSeq(pending) \in Seq(Symbols) /\ <<>> \in Seq(Symbols)
  BY <1>1, <1>2
<1>4. Mended \in Seq(Symbols)
  BY <1>3 DEF Mended
<1>5. <<>> \in Seq(Symbols \cup {"instrument"}) /\ Mended \in Seq(Symbols \cup {"instrument"})
  BY <1>4
<1>6. QED BY <1>2, <1>4, <1>5 DEF Mended, Resubscribed

LEMMA SamplesFacts == Samples \in Seq({Other}) /\ Samples \in Seq(Records)
<1> DEFINE S == {s \in Symbols : book[s] # None}
           n == Cardinality(S)
<1>1. n \in Nat
  BY SymbolsFinite, FS_Subset, FS_CardinalityType
<1> HIDE DEF n
<1>2. [i \in 1..n |-> Other] \in Seq({Other})
  BY <1>1
<1>3. [i \in 1..n |-> Other] \in Seq(Records)
  BY <1>1, OtherIsOfNoSymbol
<1>4. QED BY <1>2, <1>3 DEF Samples, n

LEMMA TypeTick ==
  ASSUME IInv, Tick
  PROVE  TypeOK'
<1> TypeOK
  BY DEF IInv
<1>1. queue' \in Seq(Frame \cup {Other}) /\ Len(queue') <= QueueMax
  <2>1. queue \in Seq(Records) /\ Len(queue) <= QueueMax /\ queue' = Queued(queue, Samples)
    BY DEF TypeOK, Records, Tick
  <2>2. QED BY <2>1, SamplesFacts, QueuedFacts DEF Records
<1>2. pending' \subseteq Symbols /\ droppedSinceTick' \in BOOLEAN
  BY DEF TypeOK, Tick
<1>3. UNCHANGED <<exchange, version, book, precise, parked, overflowed, anchored, heard, last, blind, archived, lost,
                  changes, faults>>
  BY DEF Tick
<1>4. /\ wire' \in Seq(Frame) /\ requests' \in Seq(Symbols \cup {"instrument"})
      /\ phase' \in {"open", "waiting"} /\ delay' \in 0..DelayMax /\ subscribed' \subseteq Symbols
      /\ mute' \in BOOLEAN /\ skipped' \in BOOLEAN /\ missed' \subseteq Symbols /\ silent' \in 0..SilenceMax
  <2>1. CASE Quiet /\ silent = SilenceMax
    <3>1. <<>> \in Seq(Frame) /\ <<>> \in Seq(Symbols \cup {"instrument"})
      OBVIOUS
    <3>2. SessionEnds /\ silent' = silent
      BY <2>1 DEF Tick
    <3>3. QED BY <3>1, <3>2, SessionEndsFacts DEF TypeOK
  <2>2. CASE ~(Quiet /\ silent = SilenceMax)
    <3>1. /\ silent' = IF Quiet THEN silent + 1 ELSE silent
          /\ requests' = requests \o Resubscribed(Mended)
          /\ UNCHANGED <<phase, delay, wire, subscribed, mute, skipped, missed>>
      BY <2>2 DEF Tick
    <3>2. requests' \in Seq(Symbols \cup {"instrument"})
      BY <3>1, MendedFacts DEF TypeOK
    <3>3. silent' \in 0..SilenceMax
      BY <2>2, <3>1, BoundsFacts DEF TypeOK
    <3>4. QED BY <3>1, <3>2, <3>3 DEF TypeOK
  <2>3. QED BY <2>1, <2>2
<1>5. QED BY <1>1, <1>2, <1>3, <1>4 DEF TypeOK

LEMMA SubscriptionsFacts == Subscriptions \in Seq(Symbols \cup {"instrument"})
<1>1. Order \in Seq(Symbols \cup {"instrument"})
  BY CaptureConstants DEF CaptureConstants, Symbols
<1>2. <<"instrument">> \in Seq(Symbols \cup {"instrument"}) /\ <<>> \in Seq(Symbols \cup {"instrument"})
  OBVIOUS
<1> DEFINE first == IF exchange = "kraken" THEN <<"instrument">> ELSE <<>>
<1>3. first \in Seq(Symbols \cup {"instrument"})
  BY <1>2
<1>4. Subscriptions = first \o Order
  BY DEF Subscriptions
<1> HIDE DEF first
<1>5. QED BY <1>1, <1>3, <1>4

LEMMA TypeConnect ==
  ASSUME IInv, Connect
  PROVE  TypeOK'
<1> TypeOK
  BY DEF IInv
<1>1. queue' \in Seq(Frame \cup {Other}) /\ Len(queue') <= QueueMax
  <2>1. queue \in Seq(Frame \cup {Other}) /\ Len(queue) <= QueueMax /\ queue' = [i \in DOMAIN queue |-> Other]
    BY DEF TypeOK, Connect
  <2>2. queue' \in Seq(Frame \cup {Other}) /\ Len(queue') = Len(queue)
    BY <2>1
  <2>3. QED BY <2>1, <2>2
<1>2. /\ Nothing \in [Symbols -> Replayed] /\ Nothing \in [Symbols -> Change \cup {None}]
      /\ Nothing \in [Symbols -> Held]
  BY DEF Nothing, Replayed, Held
<1>3. \A s \in Symbols : parked'[s] \in Seq(Frame) /\ Len(parked'[s]) <= ParkMax
  BY BoundsFacts DEF Connect, Fresh
<1>4. requests' \in Seq(Symbols \cup {"instrument"}) /\ wire' \in Seq(Frame) /\ version' \in [Symbols -> Change]
  BY SubscriptionsFacts DEF TypeOK, Connect
<1>5. {mute', skipped', precise', anchored', droppedSinceTick'} \subseteq BOOLEAN
  BY DEF TypeOK, Connect, Fresh
<1>6. /\ exchange' \in Exchanges /\ phase' \in {"open", "waiting"} /\ delay' \in 0..DelayMax
      /\ subscribed' \subseteq Symbols /\ overflowed' \subseteq Symbols /\ pending' \subseteq Symbols
      /\ silent' \in 0..SilenceMax /\ lost' \subseteq Symbols /\ {missed', blind'} \subseteq SUBSET Symbols
      /\ changes' \in 0..MaxChanges /\ faults' \in 0..MaxFaults
  BY BoundsFacts DEF TypeOK, Connect, Fresh
<1>7. /\ book' \in [Symbols -> Held] /\ archived' \in [Symbols -> Replayed]
      /\ heard' \in [Symbols -> Replayed] /\ last' \in [Symbols -> Change \cup {None}]
  BY <1>2 DEF Connect, Fresh
<1>8. QED BY <1>1, <1>3, <1>4, <1>5, <1>6, <1>7 DEF TypeOK

LEMMA TypeStep == IInv /\ [Next]_vars => TypeOK'
<1> SUFFICES ASSUME IInv, [Next]_vars PROVE TypeOK'
  OBVIOUS
<1> TypeOK /\ FrameInv
  BY DEF IInv
<1>1. ASSUME NEW s \in Symbols, Trade(s) PROVE TypeOK'
  <2>1. wire' \in Seq(Frame) /\ skipped' = FALSE /\ missed' = missed
    <3>1. SendsOne(KindOfChange, s, version[s] + 1) /\ version[s] + 1 \in Change
      BY <1>1, TradeFacts
    <3>2. KindOfChange \in {"snapshot", "update"}
      BY <1>1, TradeFacts
    <3>3. PICK kind, v : kind = KindOfChange /\ v = version[s] + 1
      OBVIOUS
    <3>4. SendsOne(kind, s, v)
      BY <3>1, <3>3
    <3>5. v \in Change /\ kind \in {"snapshot", "update"}
      BY <3>1, <3>2, <3>3
    <3>6. QED BY <3>4, <3>5, SendsFacts
  <2>2. QED BY <1>1, <2>1, TradeFacts DEF Trade, TypeOK
<1>2. ASSUME NEW s \in Symbols, Skip(s) PROVE TypeOK'
  BY <1>2, SkipFacts DEF Skip, TypeOK
<1>3. ASSUME NEW s \in Symbols, Stale(s) PROVE TypeOK'
  <2>1. wire' \in Seq(Frame) /\ skipped' = FALSE /\ missed' = missed
    <3>1. SendsOne("snapshot", s, version[s] - 1) /\ version[s] - 1 \in Change
      BY <1>3, StaleFacts
    <3>2. PICK v \in Change : v = version[s] - 1
      BY <3>1
    <3>3. SendsOne("snapshot", s, v)
      BY <3>1, <3>2
    <3>4. QED BY <3>3, SendsFacts
  <2>2. QED BY <1>3, <2>1, FaultFacts DEF Stale, TypeOK
<1>4. CASE GoMute
  BY <1>4, FaultFacts DEF GoMute, TypeOK
<1>5. CASE Answer
  <2>1. /\ requests' \in Seq(Symbols \cup {"instrument"}) /\ subscribed' \subseteq Symbols
        /\ wire' \in Seq(Frame) /\ skipped' = FALSE /\ missed' = missed
    <3>1. PICK i \in DOMAIN requests :
           /\ requests' \in Seq(Symbols \cup {"instrument"}) /\ subscribed' \subseteq Symbols
           /\ \/ requests[i] = "instrument" /\ SendsOne("instrument", "all", None)
              \/ /\ requests[i] \in Symbols /\ version[requests[i]] \in Change
                 /\ SendsOne("snapshot", requests[i], version[requests[i]])
      BY <1>5, AnswerFacts
    <3>2. CASE SendsOne("instrument", "all", None)
      BY <3>1, <3>2, SendsFacts
    <3>3. CASE /\ requests[i] \in Symbols /\ version[requests[i]] \in Change
               /\ SendsOne("snapshot", requests[i], version[requests[i]])
      <4>1. PICK s \in Symbols, v \in Change : s = requests[i] /\ v = version[requests[i]]
        BY <3>3
      <4>2. SendsOne("snapshot", s, v)
        BY <3>3, <4>1
      <4>3. QED BY <3>1, <4>2, SendsFacts
    <3>4. QED BY <3>1, <3>2, <3>3
  <2>2. QED BY <1>5, <2>1 DEF Answer, TypeOK
<1>6. CASE Deliver
  <2>1. archived' \in [Symbols -> Replayed]
    BY <1>6, ReadsType, QueueTail DEF Deliver, TypeOK
  <2>2. QED BY <1>6, <2>1, QueueTail DEF Deliver, TypeOK, Records
<1>7. CASE TimeOut
  BY <1>7, FaultFacts, QueueTail DEF TimeOut, TypeOK, Records
<1>8. CASE HandleFrame
  BY <1>8, TypeHandle
<1>9. ASSUME NEW onBooks \in BOOLEAN, Chatter(onBooks) PROVE TypeOK'
  BY <1>9, BoundsFacts DEF Chatter, Stamped, TypeOK
<1>10. CASE Tick
  BY <1>10, TypeTick
<1>11. CASE Disconnect
  <2>1. <<>> \in Seq(Frame) /\ <<>> \in Seq(Symbols \cup {"instrument"})
    OBVIOUS
  <2>2. Fault /\ SessionEnds /\ UNCHANGED <<exchange, version, adapter, silent, resync, broker>>
    BY <1>11 DEF Disconnect
  <2>3. /\ phase' = "waiting" /\ wire' = <<>> /\ requests' = <<>> /\ subscribed' = {}
        /\ mute' = FALSE /\ skipped' = FALSE /\ missed' = {} /\ delay' \in 0..DelayMax
    BY <2>2, SessionEndsFacts
  <2>4. changes' = changes /\ faults' \in 0..MaxFaults
    BY <2>2, FaultFacts
  <2>5. QED BY <2>1, <2>2, <2>3, <2>4 DEF TypeOK
<1>12. CASE Connect
  BY <1>12, TypeConnect
<1>13. CASE ConnectFails
  BY <1>13, BoundsFacts DEF ConnectFails, NextDelay, TypeOK
<1>14. CASE Restart
  <2>1. /\ <<>> \in Seq(Frame) /\ <<>> \in Seq(Symbols \cup {"instrument"})
        /\ <<>> \in Seq(Frame \cup {Other}) /\ Len(<<>>) = 0
    OBVIOUS
  <2>2. /\ UNCHANGED <<exchange, version, book, precise, parked, overflowed, anchored, heard, last, blind, silent,
                       pending, droppedSinceTick, archived, lost>>
    BY <1>14 DEF Restart
  <2>3. /\ queue' \in Seq(Frame \cup {Other}) /\ Len(queue') <= QueueMax
        /\ wire' \in Seq(Frame) /\ requests' \in Seq(Symbols \cup {"instrument"})
    BY <1>14, <2>1, BoundsFacts DEF Restart, Closed
  <2>4. Fault /\ changes \in 0..MaxChanges
    BY <1>14 DEF Restart, TypeOK
  <2>5. changes' \in 0..MaxChanges /\ faults' \in 0..MaxFaults
    BY <2>4, FaultFacts
  <2>6. /\ phase' = "waiting" /\ delay' = 0 /\ subscribed' = {} /\ mute' = FALSE /\ skipped' = FALSE
        /\ missed' = {}
    BY <1>14 DEF Restart, Closed
  <2>7. 0 \in 0..DelayMax
    BY BoundsFacts
  <2>8. QED BY <2>2, <2>3, <2>5, <2>6, <2>7 DEF TypeOK
<1>15. CASE UNCHANGED vars
  BY <1>15 DEF vars, TypeOK
<1>16. ASSUME NEW i \in DOMAIN wire, Garble(i) PROVE TypeOK'
  BY <1>16, GarbleFacts, FaultFacts DEF Garble, TypeOK
<1>17. QED BY <1>1, <1>2, <1>3, <1>4, <1>5, <1>6, <1>7, <1>8, <1>9, <1>10, <1>11, <1>12, <1>13, <1>14, <1>15,
              <1>16 DEF Next

-----------------------------------------------------------------------------
(* The frames, the connection and the books, one step on *)

LEMMA FrameStep == IInv /\ [Next]_vars => FrameInv'
<1> SUFFICES ASSUME IInv, [Next]_vars PROVE FrameInv'
  OBVIOUS
<1> TypeOK /\ FrameInv
  BY DEF IInv
<1>1. CASE \E s \in Symbols : Trade(s) \/ Stale(s)
  <2>1. PICK s \in Symbols : Trade(s) \/ Stale(s)
    BY <1>1
  <2>2. CASE Trade(s)
    <3>1. PICK kind, v : kind = KindOfChange /\ v = version[s] + 1
      OBVIOUS
    <3>2. SendsOne(kind, s, v) /\ v \in Change /\ kind \in {"snapshot", "update"}
      BY <2>2, <3>1, TradeFacts
    <3>3. \A i \in DOMAIN wire' : Sent(wire'[i])
      BY <3>2, SendsFacts
    <3>4. parked' = parked
      BY <2>2 DEF Trade
    <3>5. QED BY <3>3, <3>4 DEF FrameInv, Sent, IsBook
  <2>3. CASE Stale(s)
    <3>1. PICK v : v = version[s] - 1
      OBVIOUS
    <3>2. SendsOne("snapshot", s, v) /\ v \in Change
      BY <2>3, <3>1, StaleFacts
    <3>3. \A i \in DOMAIN wire' : Sent(wire'[i])
      BY <3>2, SendsFacts
    <3>4. parked' = parked
      BY <2>3 DEF Stale
    <3>5. QED BY <3>3, <3>4 DEF FrameInv, Sent, IsBook
  <2>4. QED BY <2>1, <2>2, <2>3
<1>2. CASE Answer
  <2>1. PICK i \in DOMAIN requests :
           \/ requests[i] = "instrument" /\ SendsOne("instrument", "all", None)
           \/ /\ requests[i] \in Symbols /\ version[requests[i]] \in Change
              /\ SendsOne("snapshot", requests[i], version[requests[i]])
    BY <1>2, AnswerFacts
  <2>2. CASE SendsOne("instrument", "all", None)
    <3>1. \A j \in DOMAIN wire' : Sent(wire'[j])
      BY <2>2, SendsFacts
    <3>2. parked' = parked
      BY <1>2 DEF Answer
    <3>3. QED BY <3>1, <3>2 DEF FrameInv, Sent, IsBook
  <2>3. CASE /\ requests[i] \in Symbols /\ version[requests[i]] \in Change
             /\ SendsOne("snapshot", requests[i], version[requests[i]])
    <3>1. PICK s \in Symbols, v \in Change : s = requests[i] /\ v = version[requests[i]]
      BY <2>3
    <3>2. SendsOne("snapshot", s, v)
      BY <2>3, <3>1
    <3>3. \A j \in DOMAIN wire' : Sent(wire'[j])
      BY <3>2, SendsFacts
    <3>4. parked' = parked
      BY <1>2 DEF Answer
    <3>5. QED BY <3>3, <3>4 DEF FrameInv, Sent, IsBook
  <2>4. QED BY <2>1, <2>2, <2>3
<1>3. CASE HandleFrame
  <2> DEFINE h == Handled(Head(wire))
  <2>1. /\ HandledWell(h, LastWith(Head(wire)), Blinded(Head(wire))) /\ parked' = h.parked
        /\ IF h.reconnect THEN SessionEnds ELSE wire' = Tail(wire)
    BY <1>3, HandleFacts
  <2> HIDE DEF h
  <2>2. /\ parked' \in [Symbols -> Seq(Frame)]
        /\ \A s \in Symbols : \A i \in DOMAIN parked'[s] :
             Sent(parked'[s][i]) /\ IsBook(parked'[s][i]) /\ parked'[s][i].symbol = s
    BY <2>1 DEF HandledWell, ParkedWell, Adapter
  <2>3. \A i \in DOMAIN wire' : Sent(wire'[i])
    <3>1. CASE h.reconnect
      BY <2>1, <3>1, SessionEndsFacts
    <3>2. CASE ~h.reconnect
      <4>1. wire \in Seq(Frame) /\ wire # <<>> /\ wire' = Tail(wire)
        BY <1>3, <2>1, <3>2 DEF HandleFrame, TypeOK
      <4>2. \A i \in DOMAIN wire' : i + 1 \in DOMAIN wire /\ wire'[i] = wire[i + 1]
        BY <4>1
      <4>3. QED BY <4>2 DEF FrameInv
    <3>3. QED BY <3>1, <3>2
  <2>4. QED BY <2>2, <2>3 DEF FrameInv, Sent, IsBook
<1>4. ASSUME UNCHANGED parked, wire' = <<>> \/ UNCHANGED wire PROVE FrameInv'
  BY <1>4 DEF FrameInv, Sent, IsBook
<1>5. CASE Connect
  <2>1. \A s \in Symbols : parked'[s] = <<>>
    BY <1>5 DEF Connect, Fresh
  <2>2. parked' \in [Symbols -> Seq(Frame)]
    <3>1. <<>> \in Seq(Frame)
      OBVIOUS
    <3>2. QED BY <1>5, <3>1 DEF Connect, Fresh
  <2>3. UNCHANGED wire
    BY <1>5 DEF Connect
  <2>4. QED BY <2>1, <2>2, <2>3 DEF FrameInv, Sent, IsBook
<1>6. CASE Tick \/ Disconnect \/ Restart
  <2>1. UNCHANGED parked /\ (wire' = <<>> \/ UNCHANGED wire)
    BY <1>6 DEF Tick, Disconnect, Restart, SessionEnds, Closed
  <2>2. QED BY <2>1, <1>4
<1>7. CASE \/ (\E s \in Symbols : Skip(s)) \/ GoMute \/ Deliver \/ TimeOut
           \/ (\E onBooks \in BOOLEAN : Chatter(onBooks)) \/ ConnectFails \/ UNCHANGED vars
  <2>1. UNCHANGED parked /\ UNCHANGED wire
    BY <1>7 DEF Skip, GoMute, Deliver, TimeOut, Chatter, ConnectFails, vars
  <2>2. QED BY <2>1, <1>4
<1>8. ASSUME NEW i \in DOMAIN wire, Garble(i) PROVE FrameInv'
  <2>1. UNCHANGED parked /\ \A j \in DOMAIN wire' : Sent(wire'[j])
    BY <1>8, GarbleFacts DEF Garble
  <2>2. QED BY <2>1 DEF FrameInv, Sent, IsBook
<1>9. QED BY <1>1, <1>2, <1>3, <1>5, <1>6, <1>7, <1>8 DEF Next

LEMMA PhaseStep == IInv /\ [Next]_vars => PhaseInv'
<1> SUFFICES ASSUME IInv, [Next]_vars PROVE PhaseInv'
  OBVIOUS
<1> TypeOK /\ PhaseInv
  BY DEF IInv
<1>1. /\ version \in [Symbols -> Change] /\ changes \in Nat /\ faults \in Nat
      /\ \A s \in Symbols : version[s] <= changes + faults + 1 /\ version[s] \in Nat
  BY BoundsFacts DEF TypeOK, PhaseInv, Change
<1>2. ASSUME NEW s \in Symbols, Trade(s) \/ Skip(s) PROVE PhaseInv'
  <2>1. s \in subscribed /\ phase # "waiting" /\ phase' = phase
    BY <1>2 DEF Trade, Skip, PhaseInv
  <2>2. /\ version'[s] = version[s] + 1 /\ \A t \in Symbols : t # s => version'[t] = version[t]
        /\ \/ changes' = changes + 1 /\ faults' = faults
           \/ changes' = changes /\ faults' = faults + 1
    BY <1>2, TradeFacts, SkipFacts
  <2>3. \A t \in Symbols : version'[t] <= changes' + faults' + 1
    BY <1>1, <2>2
  <2>4. QED BY <2>1, <2>3 DEF PhaseInv
<1>3. ASSUME UNCHANGED version, changes' = changes, faults' \in {faults, faults + 1},
             phase' = "waiting" => wire' = <<>> /\ requests' = <<>> /\ subscribed' = {}
      PROVE  PhaseInv'
  <2>1. \A s \in Symbols : version'[s] <= changes' + faults' + 1
    BY <1>1, <1>3
  <2>2. QED BY <1>3, <2>1 DEF PhaseInv
<1>4. ASSUME NEW s \in Symbols, Stale(s) PROVE PhaseInv'
  <2>1. s \in subscribed /\ phase # "waiting" /\ phase' = phase
    BY <1>4 DEF Stale, PhaseInv
  <2>2. QED BY <1>1, <1>3, <1>4, <2>1, FaultFacts DEF Stale
<1>5. CASE GoMute \/ TimeOut
  BY <1>1, <1>3, <1>5, FaultFacts DEF GoMute, TimeOut, PhaseInv
<1>6. CASE Disconnect \/ Restart
  <2>1. phase' = "waiting" /\ wire' = <<>> /\ requests' = <<>> /\ subscribed' = {}
    BY <1>6, SessionEndsFacts DEF Disconnect, Restart, Closed
  <2>2. UNCHANGED version /\ faults' = faults + 1 /\ changes' = changes
    BY <1>6, FaultFacts DEF Disconnect, Restart
  <2>3. QED BY <1>1, <1>3, <2>1, <2>2
<1>7. CASE Answer \/ Deliver \/ Connect \/ ConnectFails \/ (\E onBooks \in BOOLEAN : Chatter(onBooks)) \/ UNCHANGED vars
  <2>1. UNCHANGED <<version, changes, faults>>
    BY <1>7 DEF Answer, Deliver, Connect, ConnectFails, Chatter, vars
  <2>2. phase' = "waiting" => wire' = <<>> /\ requests' = <<>> /\ subscribed' = {}
    BY <1>7 DEF Answer, Deliver, Connect, ConnectFails, Chatter, vars, PhaseInv
  <2>3. QED BY <1>1, <1>3, <2>1, <2>2
<1>8. CASE HandleFrame
  <2>1. UNCHANGED <<version, changes, faults>>
    BY <1>8 DEF HandleFrame
  <2>2. phase = "open" /\ (SessionEnds \/ phase' = phase)
    BY <1>8 DEF HandleFrame
  <2>3. phase' = "waiting" => wire' = <<>> /\ requests' = <<>> /\ subscribed' = {}
    BY <2>2, SessionEndsFacts
  <2>4. QED BY <1>1, <1>3, <2>1, <2>3
<1>9. CASE Tick
  <2>1. UNCHANGED <<version, changes, faults>>
    BY <1>9 DEF Tick
  <2>2. phase = "open" /\ (SessionEnds \/ phase' = phase)
    BY <1>9 DEF Tick
  <2>3. phase' = "waiting" => wire' = <<>> /\ requests' = <<>> /\ subscribed' = {}
    BY <2>2, SessionEndsFacts
  <2>4. QED BY <1>1, <1>3, <2>1, <2>3
<1>10. ASSUME NEW i \in DOMAIN wire, Garble(i) PROVE PhaseInv'
  <2>1. wire # <<>> /\ UNCHANGED <<version, phase, requests, subscribed>> /\ Fault
    BY <1>10 DEF Garble, TypeOK
  <2>2. phase # "waiting"
    BY <2>1 DEF PhaseInv
  <2>3. QED BY <1>1, <1>3, <2>1, <2>2, FaultFacts
<1>11. QED BY <1>2, <1>4, <1>5, <1>6, <1>7, <1>8, <1>9, <1>10 DEF Next

LEMMA BookStep == IInv /\ [Next]_vars => ParkInv' /\ BookInv'
<1> SUFFICES ASSUME IInv, [Next]_vars PROVE ParkInv' /\ BookInv'
  OBVIOUS
<1>1. CASE HandleFrame
  <2> DEFINE h == Handled(Head(wire))
             l == LastWith(Head(wire))
             B == Blinded(Head(wire))
  <2>1. /\ HandledWell(h, l, B) /\ last' = l /\ blind' = B /\ anchored' = TRUE
        /\ book' = h.book /\ precise' = h.precise /\ parked' = h.parked
    BY <1>1, HandleFacts
  <2>2. exchange' = exchange
    BY <1>1 DEF HandleFrame
  <2> HIDE DEF h, l, B
  <2>3. QED BY <2>1, <2>2 DEF HandledWell, ParkInv, BookInv, MayHold, EndsWith, Nothing
<1>2. CASE Connect
  <2>1. /\ book' = Nothing /\ precise' = FALSE /\ last' = Nothing
        /\ \A s \in Symbols : parked'[s] = <<>>
    BY <1>2 DEF Connect, Fresh
  <2>2. QED BY <2>1 DEF ParkInv, BookInv, MayHold, Nothing
<1>3. CASE UNCHANGED <<exchange, book, precise, parked, anchored, last, blind>>
  BY <1>3 DEF IInv, ParkInv, BookInv, MayHold, EndsWith, Nothing
<1>4. HandleFrame \/ Connect \/ UNCHANGED <<exchange, book, precise, parked, anchored, last, blind>>
  BY DEF Next, vars, Trade, Skip, Stale, Garble, GoMute, Answer, Deliver, TimeOut, Chatter, Tick, Disconnect, ConnectFails,
         Restart
<1>5. QED BY <1>1, <1>2, <1>3, <1>4

-----------------------------------------------------------------------------
(* coinbase's chain of numbers *)

\* The clauses of ChainInv, for one symbol.
Between(s) ==
  \A i, k \in DOMAIN wire :
    i < k /\ wire[i].symbol = s /\ wire[k].symbol = s /\ wire[k].kind = "update"
      /\ Apart(s, i, k) /\ Clear(i, k) => wire[k].version = wire[i].version + 1
First(s) ==
  \A k \in DOMAIN wire :
    book[s] # None /\ wire[k].symbol = s /\ wire[k].kind = "update"
      /\ Apart(s, 0, k) /\ Clear(0, k) => wire[k].version = last[s] + 1
Latest(s) ==
  \A i \in DOMAIN wire :
    wire[i].symbol = s /\ Apart(s, i, Len(wire) + 1) /\ Clear(i, Len(wire)) /\ ~skipped
      => version[s] = wire[i].version
Settled(s) ==
  book[s] # None /\ Apart(s, 0, Len(wire) + 1) /\ Clear(0, Len(wire)) /\ ~skipped
    => version[s] = last[s]
Chained(s) == Between(s) /\ First(s) /\ Latest(s) /\ Settled(s)

LEMMA ChainIs == ChainInv <=> (exchange = "coinbase" /\ Open => \A s \in Symbols : Chained(s))
BY DEF ChainInv, Chained, Between, First, Latest, Settled

\* A frame more: its number follows the book the venue had, or it is the book.
LEMMA ChainAppends ==
  ASSUME TypeOK, NEW t \in Symbols, Chained(t), NEW n, OnTheWire(n), skipped' = FALSE,
         UNCHANGED <<book, last>>,
         n.symbol # t => version'[t] = version[t],
         n.symbol = t => version'[t] = n.version,
         n.symbol = t /\ n.kind = "update" => version'[t] = version[t] + 1
  PROVE  Chained(t)'
<1> DEFINE m == Len(wire)
<1>1. /\ m \in Nat /\ DOMAIN wire = 1..m /\ DOMAIN wire' = 1..(m + 1) /\ Len(wire') = m + 1
      /\ wire'[m + 1] = n /\ \A i \in 1..m : wire'[i] = wire[i]
      /\ n.gap = skipped /\ skipped \in BOOLEAN
  BY DEF OnTheWire, TypeOK
<1>2. ASSUME NEW i \in 0..m, NEW k \in 0..m
      PROVE  /\ (\A j \in DOMAIN wire' : i < j /\ j <= k => ~wire'[j].gap) => Clear(i, k)
             /\ (\A j \in DOMAIN wire' : i < j /\ j < k => wire'[j].symbol # t) => Apart(t, i, k)
  BY <1>1 DEF Clear, Apart
<1>3. ASSUME NEW i \in 0..m
      PROVE  /\ (\A j \in DOMAIN wire' : i < j /\ j <= m + 1 => ~wire'[j].gap) => Clear(i, m) /\ ~skipped
             /\ (\A j \in DOMAIN wire' : i < j /\ j < m + 1 => wire'[j].symbol # t) => Apart(t, i, m + 1)
             /\ (\A j \in DOMAIN wire' : i < j /\ j < m + 2 => wire'[j].symbol # t)
                  => Apart(t, i, m + 1) /\ n.symbol # t
  <2>1. m + 1 \in DOMAIN wire' /\ i < m + 1 /\ m + 1 < m + 2 /\ \A j \in DOMAIN wire : j \in DOMAIN wire' /\ j <= m
    BY <1>1
  <2>2. QED BY <1>1, <2>1 DEF Clear, Apart
<1> HIDE DEF m
<1>4. Between(t)'
  <2> SUFFICES ASSUME NEW i \in DOMAIN wire', NEW k \in DOMAIN wire', i < k, wire'[i].symbol = t,
                      wire'[k].symbol = t, wire'[k].kind = "update",
                      \A j \in DOMAIN wire' : i < j /\ j < k => wire'[j].symbol # t,
                      \A j \in DOMAIN wire' : i < j /\ j <= k => ~wire'[j].gap
               PROVE  wire'[k].version = wire'[i].version + 1
    BY DEF Between, Apart, Clear
  <2>1. i \in 1..m /\ i \in 0..m /\ wire'[i] = wire[i]
    BY <1>1
  <2>2. CASE k # m + 1
    <3>1. k \in 1..m /\ k \in 0..m /\ wire'[k] = wire[k]
      BY <1>1, <2>2
    <3>2. Apart(t, i, k) /\ Clear(i, k)
      BY <1>2, <2>1, <3>1
    <3>3. QED BY <1>1, <2>1, <3>1, <3>2 DEF Chained, Between
  <2>3. CASE k = m + 1
    <3>1. Apart(t, i, m + 1) /\ Clear(i, m) /\ ~skipped
      BY <1>3, <2>1, <2>3
    <3>2. version[t] = wire[i].version
      BY <1>1, <2>1, <3>1 DEF Chained, Latest, m
    <3>3. QED BY <1>1, <2>1, <2>3, <3>2
  <2>4. QED BY <2>2, <2>3
<1>5. First(t)'
  <2> SUFFICES ASSUME NEW k \in DOMAIN wire', book[t] # None, wire'[k].symbol = t, wire'[k].kind = "update",
                      \A j \in DOMAIN wire' : 0 < j /\ j < k => wire'[j].symbol # t,
                      \A j \in DOMAIN wire' : 0 < j /\ j <= k => ~wire'[j].gap
               PROVE  wire'[k].version = last[t] + 1
    BY DEF First, Apart, Clear
  <2>1. 0 \in 0..m
    BY <1>1
  <2>2. CASE k # m + 1
    <3>1. k \in 1..m /\ k \in 0..m /\ wire'[k] = wire[k]
      BY <1>1, <2>2
    <3>2. Apart(t, 0, k) /\ Clear(0, k)
      BY <1>2, <2>1, <3>1
    <3>3. QED BY <1>1, <3>1, <3>2 DEF Chained, First
  <2>3. CASE k = m + 1
    <3>1. Apart(t, 0, m + 1) /\ Clear(0, m) /\ ~skipped
      BY <1>3, <2>1, <2>3
    <3>2. version[t] = last[t]
      BY <3>1 DEF Chained, Settled, m
    <3>3. QED BY <1>1, <2>3, <3>2
  <2>4. QED BY <2>2, <2>3
<1>6. Latest(t)'
  <2> SUFFICES ASSUME NEW i \in DOMAIN wire', wire'[i].symbol = t,
                      \A j \in DOMAIN wire' : i < j /\ j < m + 2 => wire'[j].symbol # t,
                      \A j \in DOMAIN wire' : i < j /\ j <= m + 1 => ~wire'[j].gap
               PROVE  version'[t] = wire'[i].version
    <3>1. Len(wire') = m + 1 /\ Len(wire') + 1 = m + 2
      BY <1>1
    <3>2. QED BY <3>1 DEF Latest, Apart, Clear
  <2>1. CASE i # m + 1
    <3>1. i \in 1..m /\ i \in 0..m /\ wire'[i] = wire[i]
      BY <1>1, <2>1
    <3>2. Apart(t, i, m + 1) /\ Clear(i, m) /\ ~skipped /\ n.symbol # t
      BY <1>3, <3>1
    <3>3. version[t] = wire[i].version
      BY <1>1, <3>1, <3>2 DEF Chained, Latest, m
    <3>4. QED BY <3>1, <3>2, <3>3
  <2>2. CASE i = m + 1
    BY <1>1, <2>2
  <2>3. QED BY <2>1, <2>2
<1>7. Settled(t)'
  <2> SUFFICES ASSUME book[t] # None,
                      \A j \in DOMAIN wire' : 0 < j /\ j < m + 2 => wire'[j].symbol # t,
                      \A j \in DOMAIN wire' : 0 < j /\ j <= m + 1 => ~wire'[j].gap
               PROVE  version'[t] = last[t]
    <3>1. Len(wire') = m + 1 /\ Len(wire') + 1 = m + 2
      BY <1>1
    <3>2. QED BY <3>1 DEF Settled, Apart, Clear
  <2>1. Apart(t, 0, m + 1) /\ Clear(0, m) /\ ~skipped /\ n.symbol # t
    BY <1>1, <1>3
  <2>2. version[t] = last[t]
    BY <2>1 DEF Chained, Settled, m
  <2>3. QED BY <2>1, <2>2
<1>8. QED BY <1>4, <1>5, <1>6, <1>7 DEF Chained

\* A frame less: it is now the last one handled.
LEMMA ChainPops ==
  ASSUME TypeOK, NEW t \in Symbols, Chained(t), wire # <<>>, wire' = Tail(wire),
         UNCHANGED <<version, skipped>>,
         wire[1].symbol = t => last'[t] = wire[1].version,
         wire[1].symbol # t => last'[t] = last[t],
         wire[1].symbol # t /\ book'[t] # None => book[t] # None /\ ~wire[1].gap
  PROVE  Chained(t)'
<1> DEFINE m == Len(wire')
<1>1. /\ m \in Nat /\ Len(wire) = m + 1 /\ DOMAIN wire = 1..(m + 1) /\ DOMAIN wire' = 1..m
      /\ \A i \in 1..m : wire'[i] = wire[i + 1]
  BY DEF TypeOK
<1> HIDE DEF m
<1>2. ASSUME NEW i \in 0..m, NEW k \in Nat
      PROVE  /\ (\A j \in DOMAIN wire' : i < j /\ j <= k => ~wire'[j].gap) => Clear(i + 1, k + 1)
             /\ (\A j \in DOMAIN wire' : i < j /\ j < k => wire'[j].symbol # t) => Apart(t, i + 1, k + 1)
  <2>1. ASSUME NEW j \in DOMAIN wire, i + 1 < j
        PROVE  /\ j - 1 \in DOMAIN wire' /\ wire'[j - 1] = wire[j] /\ i < j - 1
               /\ (j <= k + 1 => j - 1 <= k) /\ (j < k + 1 => j - 1 < k)
    <3>1. j - 1 \in 1..m /\ (j - 1) + 1 = j
      BY <1>1, <2>1
    <3>2. QED BY <1>1, <2>1, <3>1
  <2>2. QED BY <2>1 DEF Clear, Apart
<1>3. ASSUME NEW k \in Nat
      PROVE  /\ Clear(1, k + 1) /\ ~wire[1].gap => Clear(0, k + 1)
             /\ Apart(t, 1, k + 1) /\ wire[1].symbol # t => Apart(t, 0, k + 1)
  <2>1. \A j \in DOMAIN wire : 0 < j => j = 1 \/ 1 < j
    BY <1>1
  <2>2. QED BY <2>1 DEF Clear, Apart
<1>4. 1 \in DOMAIN wire /\ 0 \in 0..m /\ 0 + 1 = 1
  BY <1>1
<1>5. Between(t)'
  <2> SUFFICES ASSUME NEW i \in DOMAIN wire', NEW k \in DOMAIN wire', i < k, wire'[i].symbol = t,
                      wire'[k].symbol = t, wire'[k].kind = "update",
                      \A j \in DOMAIN wire' : i < j /\ j < k => wire'[j].symbol # t,
                      \A j \in DOMAIN wire' : i < j /\ j <= k => ~wire'[j].gap
               PROVE  wire'[k].version = wire'[i].version + 1
    BY DEF Between, Apart, Clear
  <2>1. /\ i \in 0..m /\ k \in Nat /\ i + 1 \in DOMAIN wire /\ k + 1 \in DOMAIN wire /\ i + 1 < k + 1
        /\ wire'[i] = wire[i + 1] /\ wire'[k] = wire[k + 1]
    BY <1>1
  <2>2. Apart(t, i + 1, k + 1) /\ Clear(i + 1, k + 1)
    BY <1>2, <2>1
  <2>3. QED BY <2>1, <2>2 DEF Chained, Between
<1>6. First(t)'
  <2> SUFFICES ASSUME NEW k \in DOMAIN wire', book'[t] # None, wire'[k].symbol = t, wire'[k].kind = "update",
                      \A j \in DOMAIN wire' : 0 < j /\ j < k => wire'[j].symbol # t,
                      \A j \in DOMAIN wire' : 0 < j /\ j <= k => ~wire'[j].gap
               PROVE  wire'[k].version = last'[t] + 1
    BY DEF First, Apart, Clear
  <2>1. k \in Nat /\ k + 1 \in DOMAIN wire /\ 1 < k + 1 /\ wire'[k] = wire[k + 1]
    BY <1>1
  <2>2. Apart(t, 1, k + 1) /\ Clear(1, k + 1)
    BY <1>2, <1>4, <2>1
  <2>3. CASE wire[1].symbol = t
    BY <1>4, <2>1, <2>2, <2>3 DEF Chained, Between
  <2>4. CASE wire[1].symbol # t
    <3>1. book[t] # None /\ Apart(t, 0, k + 1) /\ Clear(0, k + 1)
      BY <1>3, <2>1, <2>2, <2>4
    <3>2. QED BY <2>1, <2>4, <3>1 DEF Chained, First
  <2>5. QED BY <2>3, <2>4
<1>7. Latest(t)'
  <2> SUFFICES ASSUME NEW i \in DOMAIN wire', wire'[i].symbol = t, ~skipped,
                      \A j \in DOMAIN wire' : i < j /\ j < m + 1 => wire'[j].symbol # t,
                      \A j \in DOMAIN wire' : i < j /\ j <= m => ~wire'[j].gap
               PROVE  version[t] = wire'[i].version
    BY DEF Latest, Apart, Clear, m
  <2>1. i \in 0..m /\ i + 1 \in DOMAIN wire /\ wire'[i] = wire[i + 1] /\ m + 1 \in Nat
    BY <1>1
  <2>2. Apart(t, i + 1, (m + 1) + 1) /\ Clear(i + 1, m + 1)
    BY <1>1, <1>2, <2>1
  <2>3. Apart(t, i + 1, Len(wire) + 1) /\ Clear(i + 1, Len(wire))
    BY <1>1, <2>2
  <2>4. QED BY <2>1, <2>3 DEF Chained, Latest
<1>8. Settled(t)'
  <2> SUFFICES ASSUME book'[t] # None, ~skipped,
                      \A j \in DOMAIN wire' : 0 < j /\ j < m + 1 => wire'[j].symbol # t,
                      \A j \in DOMAIN wire' : 0 < j /\ j <= m => ~wire'[j].gap
               PROVE  version[t] = last'[t]
    BY DEF Settled, Apart, Clear, m
  <2>1. Apart(t, 1, (m + 1) + 1) /\ Clear(1, m + 1) /\ m + 1 \in Nat
    <3>1. m + 1 \in Nat
      BY <1>1
    <3>2. Apart(t, 0 + 1, (m + 1) + 1)
      BY <1>2, <1>4, <3>1
    <3>3. Clear(0 + 1, m + 1)
      BY <1>1, <1>2, <1>4
    <3>4. QED BY <1>4, <3>1, <3>2, <3>3
  <2>2. CASE wire[1].symbol = t
    <3>1. Apart(t, 1, Len(wire) + 1) /\ Clear(1, Len(wire))
      BY <1>1, <2>1
    <3>2. QED BY <1>4, <2>2, <3>1 DEF Chained, Latest
  <2>3. CASE wire[1].symbol # t
    <3>1. book[t] # None /\ Apart(t, 0, (m + 1) + 1) /\ Clear(0, m + 1)
      BY <1>1, <1>3, <2>1, <2>3
    <3>2. Apart(t, 0, Len(wire) + 1) /\ Clear(0, Len(wire))
      BY <1>1, <3>1
    <3>3. QED BY <2>3, <3>1, <3>2 DEF Chained, Settled
  <2>4. QED BY <2>2, <2>3
<1>9. QED BY <1>5, <1>6, <1>7, <1>8 DEF Chained

LEMMA ChainStep == IInv /\ [Next]_vars => ChainInv'
<1> SUFFICES ASSUME IInv, [Next]_vars, exchange' = "coinbase", phase' = "open", NEW t \in Symbols
             PROVE  Chained(t)'
  BY DEF Open, ChainInv, Chained, Between, First, Latest, Settled
<1> TypeOK /\ FrameInv /\ ChainInv /\ ParkInv /\ PhaseInv /\ BookInv
  BY DEF IInv
<1>1. exchange = "coinbase"
  BY DEF Next, vars, Trade, Skip, Stale, Garble, GoMute, Answer, Deliver, TimeOut, Chatter, Tick, Disconnect, ConnectFails,
         Restart, HandleFrame, Connect
<1>2. Open => Chained(t)
  BY <1>1, ChainIs
<1>3. ASSUME NEW s \in Symbols, Trade(s) PROVE Chained(t)'
  <2>1. PICK v : v = version[s] + 1
    OBVIOUS
  <2>2. SendsOne("update", s, v) /\ v \in Change
    BY <1>1, <1>3, <2>1, TradeFacts DEF KindOfChange
  <2> DEFINE n == Newest
  <2>3. OnTheWire(n) /\ skipped' = FALSE
    BY <2>2, SendsFacts
  <2>4. n.symbol = s /\ n.version = v
    BY <2>2, SendsFacts
  <2> HIDE DEF n
  <2>5. UNCHANGED <<book, last>> /\ Open
    BY <1>3 DEF Trade, Open
  <2>6. version'[s] = version[s] + 1 /\ \A u \in Symbols : u # s => version'[u] = version[u]
    BY <1>3, TradeFacts
  <2>7. QED BY <1>2, <2>1, <2>3, <2>4, <2>5, <2>6, ChainAppends
<1>4. ASSUME NEW s \in Symbols, Skip(s) PROVE Chained(t)'
  <2>1. UNCHANGED <<wire, book, last>> /\ Open /\ skipped' = TRUE
    BY <1>4 DEF Skip, Open
  <2>2. Chained(t)
    BY <1>2, <2>1
  <2>3. Between(t)' /\ First(t)'
    BY <2>1, <2>2 DEF Chained, Between, First, Apart, Clear
  <2>4. Latest(t)' /\ Settled(t)'
    BY <2>1 DEF Latest, Settled
  <2>5. QED BY <2>3, <2>4 DEF Chained
<1>5. CASE Answer
  <2>1. UNCHANGED <<version, book, last>> /\ Open
    BY <1>5 DEF Answer, Open
  <2>2. PICK i \in DOMAIN requests :
           \/ requests[i] = "instrument" /\ SendsOne("instrument", "all", None)
           \/ /\ requests[i] \in Symbols /\ version[requests[i]] \in Change
              /\ SendsOne("snapshot", requests[i], version[requests[i]])
    BY <1>5, AnswerFacts
  <2>3. CASE SendsOne("instrument", "all", None)
    <3> DEFINE n == Newest
    <3>1. OnTheWire(n) /\ skipped' = FALSE
      BY <2>3, SendsFacts
    <3>2. n.symbol = "all"
      BY <2>3, SendsFacts
    <3> HIDE DEF n
    <3>3. QED BY <1>2, <2>1, <3>1, <3>2, SymbolFacts, ChainAppends
  <2>4. CASE /\ requests[i] \in Symbols /\ version[requests[i]] \in Change
             /\ SendsOne("snapshot", requests[i], version[requests[i]])
    <3>1. PICK s \in Symbols, v \in Change : s = requests[i] /\ v = version[s]
      BY <2>4
    <3>2. SendsOne("snapshot", s, v)
      BY <2>4, <3>1
    <3> DEFINE n == Newest
    <3>3. OnTheWire(n) /\ skipped' = FALSE
      BY <3>2, SendsFacts
    <3>4. n.symbol = s /\ n.version = v /\ n.kind = "snapshot"
      BY <3>2, SendsFacts
    <3> HIDE DEF n
    <3>5. QED BY <1>2, <2>1, <3>1, <3>3, <3>4, ChainAppends
  <2>5. QED BY <2>2, <2>3, <2>4
<1>6. CASE HandleFrame
  <2> DEFINE f == Head(wire)
             h == Handled(f)
  <2>1. wire # <<>> /\ Open /\ f = wire[1]
    BY <1>6, HeadFacts DEF HandleFrame, Open
  <2>2. Chained(t)
    BY <1>2, <2>1
  <2>3. h = Coinbase(f)
    BY <1>1 DEF Handled
  <2>4. \A s \in Symbols : s # f.symbol /\ h.book[s] # None => h.book[s] = book[s] /\ (f.gap => h.reconnect)
    BY <1>1, <2>1, <2>3, CoinbaseFacts
  <2>5. /\ last' = LastWith(f) /\ book' = h.book
        /\ IF h.reconnect THEN SessionEnds
           ELSE wire' = Tail(wire) /\ UNCHANGED skipped
    BY <1>6, HandleFacts
  <2>6. UNCHANGED version
    BY <1>6 DEF HandleFrame
  <2> HIDE DEF f, h
  <2>7. ~h.reconnect
    BY <2>5, SessionEndsFacts
  <2>8. wire[1].symbol = t => last'[t] = wire[1].version
    BY <2>1, <2>5 DEF LastWith
  <2>9. wire[1].symbol # t => last'[t] = last[t]
    BY <2>1, <2>5 DEF LastWith
  <2>10. wire[1].symbol # t /\ book'[t] # None => book[t] # None /\ ~wire[1].gap
    BY <2>1, <2>4, <2>5, <2>7
  <2>11. QED BY <2>1, <2>2, <2>5, <2>6, <2>7, <2>8, <2>9, <2>10, ChainPops
<1>7. CASE Connect
  <2>1. wire' = <<>> /\ book'[t] = None
    BY <1>7 DEF Connect, Fresh, Nothing, PhaseInv
  <2>2. QED BY <2>1 DEF Chained, Between, First, Latest, Settled
<1>8. CASE UNCHANGED <<wire, book, last, version, skipped, phase>>
  <2>1. Chained(t)
    BY <1>2, <1>8 DEF Open
  <2>2. QED BY <1>8, <2>1 DEF Chained, Between, First, Latest, Settled, Apart, Clear
<1>9. CASE Tick
  <2>1. SessionEnds \/ UNCHANGED <<wire, book, last, version, skipped, phase>>
    BY <1>9 DEF Tick
  <2>2. QED BY <1>8, <2>1, SessionEndsFacts
<1>10. ASSUME NEW s \in Symbols, Stale(s) PROVE Chained(t)'
  BY <1>1, <1>10 DEF Stale
<1>11. CASE Disconnect \/ Restart \/ ConnectFails
  <2>1. phase' = "waiting"
    BY <1>11 DEF Disconnect, Restart, ConnectFails, SessionEnds, Closed
  <2>2. QED BY <2>1
<1>12. CASE GoMute \/ Deliver \/ TimeOut \/ (\E onBooks \in BOOLEAN : Chatter(onBooks)) \/ UNCHANGED vars
  <2>1. UNCHANGED <<wire, book, last, version, skipped, phase>>
    BY <1>12 DEF GoMute, Deliver, TimeOut, Chatter, vars
  <2>2. QED BY <1>8, <2>1
<1>13. ASSUME NEW j \in DOMAIN wire, Garble(j) PROVE Chained(t)'
  <2>1. UNCHANGED <<book, last, version, skipped, phase>>
    BY <1>13 DEF Garble
  <2>2. Chained(t)
    BY <1>2, <2>1 DEF Open
  <2>3. /\ Len(wire') = Len(wire) /\ DOMAIN wire' = DOMAIN wire
        /\ \A i \in DOMAIN wire : /\ wire'[i].kind = wire[i].kind /\ wire'[i].symbol = wire[i].symbol
                                 /\ wire'[i].version = wire[i].version /\ wire'[i].gap = wire[i].gap
    BY <1>13, GarbleFacts
  <2>4. /\ \A i, k : Clear(i, k)' = Clear(i, k)
        /\ \A i, k : Apart(t, i, k)' = Apart(t, i, k)
    BY <2>3 DEF Clear, Apart
  <2>5. QED BY <2>1, <2>2, <2>3, <2>4 DEF Chained, Between, First, Latest, Settled
<1>14. QED BY <1>3, <1>4, <1>5, <1>6, <1>7, <1>9, <1>10, <1>11, <1>12, <1>13 DEF Next

-----------------------------------------------------------------------------
(* The holes in the archive *)

\* The records queued, as the fold that the lemmas are about.
LEMMA AcceptedIs == \A s : Accepted(s) = Fold(s, archived[s], queue)
BY DEF Accepted, Fold

LEMMA AcceptedNext == ASSUME NEW s PROVE Accepted(s)' = Fold(s, archived'[s], queue')
BY DEF Accepted, Fold, FoldLeft, MapThenFoldSet

LEMMA UnderwayKept ==
  ASSUME NEW s \in Symbols, Underway(s), wire' = wire, Range(requests) \subseteq Range(requests')
  PROVE  Underway(s)'
BY DEF Underway

\* A frame more on the wire takes none away.
LEMMA UnderwaySent ==
  ASSUME TypeOK, NEW s \in Symbols, Underway(s), NEW n, OnTheWire(n), NEW r,
         Range(requests) \subseteq Range(requests') \cup {r}, r = s => n.kind = "snapshot" /\ n.symbol = s
  PROVE  Underway(s)'
<1>1. Len(wire) \in Nat /\ DOMAIN wire = 1..Len(wire) /\ DOMAIN wire' = 1..(Len(wire) + 1)
  BY DEF TypeOK, OnTheWire
<1>2. CASE s \in Range(requests')
  BY <1>2 DEF Underway
<1>3. CASE s \in Range(requests) /\ s \notin Range(requests')
  <2>1. r = s
    BY <1>3
  <2>2. Len(wire) + 1 \in DOMAIN wire' /\ wire'[Len(wire) + 1] = n
    BY <1>1 DEF OnTheWire
  <2>3. QED BY <2>1, <2>2 DEF Underway
<1>4. CASE s \notin Range(requests)
  <2>1. PICK i \in DOMAIN wire : wire[i].kind = "snapshot" /\ wire[i].symbol = s
    BY <1>4 DEF Underway
  <2>2. i \in DOMAIN wire' /\ wire'[i] = wire[i]
    BY <1>1 DEF OnTheWire
  <2>3. QED BY <2>1, <2>2 DEF Underway
<1>5. QED BY <1>2, <1>3, <1>4

Mends(s) == Hole(s) => s \in pending \/ Underway(s) \/ s \in lost

\* A step that leaves the records and what was heard alone makes no hole.
LEMMA MendsKept ==
  ASSUME IInv, NEW s \in Symbols, UNCHANGED <<phase, exchange, archived, queue, heard, pending, lost>>,
         Underway(s) => Underway(s)'
  PROVE  Mends(s)'
<1>1. Accepted(s)' = Accepted(s)
  BY AcceptedIs, AcceptedNext
<1>2. QED BY <1>1 DEF IInv, HolesArePending, Mends, Hole, Open

LEMMA MendsAtEnd ==
  ASSUME phase' = "waiting", NEW s
  PROVE  Mends(s)'
BY DEF Mends, Hole, Open

LEMMA MendsHandle ==
  ASSUME IInv, HandleFrame, NEW s \in Symbols
  PROVE  Mends(s)'
<1> DEFINE f == Head(wire)
           h == Handled(f)
           records == <<f>> \o h.marked
<1> TypeOK /\ FrameInv
  BY DEF IInv
<1>1. /\ f \in Frame /\ Sent(f) /\ h.again \in Seq(Symbols) /\ h.marked \in Seq({Other}) /\ records \in Seq(Records)
      /\ queue' = Queued(queue, records)
      /\ heard' = [t \in Symbols |-> Reads(heard[t], t, f)]
      /\ IF h.reconnect THEN SessionEnds
         ELSE /\ wire' = Tail(wire) /\ requests' = requests \o Resubscribed(h.again)
              /\ UNCHANGED <<phase, delay, subscribed, mute, skipped, missed>>
  BY HandleFacts
<1>2. RememberDrop(f) /\ UNCHANGED <<exchange, archived, lost>> /\ wire # <<>> /\ f = wire[1] /\ Open
  BY HeadFacts DEF HandleFrame, Open
<1>3. queue \in Seq(Records) /\ Len(queue) <= QueueMax /\ archived[s] \in Replayed /\ heard[s] \in Replayed
  BY DEF TypeOK, Records
<1> HIDE DEF f, h
<1>4. CASE h.reconnect
  BY <1>1, <1>4, SessionEndsFacts, MendsAtEnd
<1>5. CASE ~h.reconnect
  <2>1. wire' = Tail(wire) /\ requests' = requests \o Resubscribed(h.again)
    BY <1>1, <1>5
  <2>2. Range(requests) \subseteq Range(requests')
    <3>1. requests \in Seq(Symbols \cup {"instrument"}) /\ Resubscribed(h.again) \in Seq(Symbols \cup {"instrument"})
      <4>1. h.again \in Seq(Symbols \cup {"instrument"}) /\ <<>> \in Seq(Symbols \cup {"instrument"})
        BY <1>1
      <4>2. QED BY <4>1 DEF Resubscribed, TypeOK
    <3>2. QED BY <2>1, <3>1, RangeOfConcat
  <2>3. Underway(s) => Underway(s)' \/ (f.kind = "snapshot" /\ f.symbol = s)
    <3> SUFFICES ASSUME Underway(s) PROVE Underway(s)' \/ (f.kind = "snapshot" /\ f.symbol = s)
      OBVIOUS
    <3>1. CASE s \in Range(requests)
      BY <2>2, <3>1 DEF Underway
    <3>2. CASE s \notin Range(requests)
      <4>1. PICK i \in DOMAIN wire : wire[i].kind = "snapshot" /\ wire[i].symbol = s
        BY <3>2 DEF Underway
      <4>2. CASE i = 1
        BY <1>2, <4>1, <4>2
      <4>3. CASE i # 1
        <5>1. wire \in Seq(Frame)
          BY DEF TypeOK
        <5>2. i - 1 \in DOMAIN wire' /\ wire'[i - 1] = wire[i]
          BY <2>1, <4>1, <4>3, <5>1
        <5>3. QED BY <4>1, <5>2 DEF Underway
      <4>4. QED BY <4>2, <4>3
    <3>3. QED BY <3>1, <3>2
  <2> SUFFICES ASSUME Hole(s)' PROVE s \in pending' \/ Underway(s)' \/ s \in lost'
    BY DEF Mends
  <2>4. exchange # "binance" /\ Accepted(s)' # heard'[s]
    BY <1>2 DEF Hole
  <2>5. heard'[s] = Reads(heard[s], s, f)
    BY <1>1
  <2>6. Accepted(s)' = Fold(s, archived[s], queue')
    BY <1>2, AcceptedNext
  <2>7. Accepted(s) = Fold(s, archived[s], queue)
    BY AcceptedIs
  <2>8. pending \subseteq pending'
    BY <1>2 DEF RememberDrop
  <2>9. CASE HasRoom(queue)
    <3>1. Accepted(s)' = Reads(Accepted(s), s, f)
      BY <1>1, <1>3, <2>6, <2>7, <2>9, QueuedFrame
    <3>2. Accepted(s) # heard[s] /\ ~(f.kind = "snapshot" /\ f.symbol = s)
      BY <2>4, <2>5, <3>1 DEF Reads, Folded
    <3>3. Hole(s)
      BY <1>2, <2>4, <3>2 DEF Hole
    <3>4. QED BY <1>2, <2>3, <2>8, <3>2, <3>3 DEF IInv, HolesArePending
  <2>10. CASE ~HasRoom(queue)
    <3>1. Accepted(s)' = Accepted(s)
      BY <1>1, <1>3, <2>6, <2>7, <2>10, QueuedNothing
    <3>2. CASE f.symbol = s
      <4>1. IsBook(f)
        BY <1>1, <3>2, SymbolFacts DEF Sent, IsBook
      <4>2. QED BY <1>2, <2>4, <2>10, <3>2, <4>1 DEF RememberDrop
    <3>3. CASE f.symbol # s
      <4>1. heard'[s] = heard[s]
        BY <2>5, <3>3 DEF Reads
      <4>2. Hole(s)
        BY <1>2, <2>4, <3>1, <4>1 DEF Hole
      <4>3. QED BY <1>2, <2>3, <2>8, <3>3, <4>2 DEF IInv, HolesArePending
    <3>4. QED BY <3>2, <3>3
  <2>11. QED BY <2>9, <2>10
<1>6. QED BY <1>4, <1>5

LEMMA MendsTick ==
  ASSUME IInv, Tick, NEW s \in Symbols
  PROVE  Mends(s)'
<1> TypeOK
  BY DEF IInv
<1>1. UNCHANGED <<exchange, archived, lost, heard>> /\ Open
  BY DEF Tick, Open
<1>2. CASE Quiet /\ silent = SilenceMax
  <2>1. SessionEnds
    BY <1>2 DEF Tick
  <2>2. QED BY <2>1, SessionEndsFacts, MendsAtEnd
<1>3. CASE ~(Quiet /\ silent = SilenceMax)
  <2>1. requests' = requests \o Resubscribed(Mended) /\ wire' = wire
    BY <1>3 DEF Tick
  <2>2. Range(requests') = Range(requests) \cup Range(Resubscribed(Mended))
    BY <2>1, MendedFacts, RangeOfConcat DEF TypeOK
  <2>3. Underway(s) => Underway(s)'
    BY <2>1, <2>2, UnderwayKept
  <2>4. Accepted(s)' = Accepted(s)
    <3>1. queue \in Seq(Records) /\ Len(queue) <= QueueMax /\ archived[s] \in Replayed
      BY DEF TypeOK, Records
    <3>2. queue' = Queued(queue, Samples)
      BY DEF Tick
    <3>3. Fold(s, archived[s], queue') = Fold(s, archived[s], queue)
      BY <3>1, <3>2, SamplesFacts, QueuedOthers
    <3>4. QED BY <1>1, <3>3, AcceptedIs, AcceptedNext
  <2> SUFFICES ASSUME Hole(s)' PROVE s \in pending' \/ Underway(s)' \/ s \in lost'
    BY DEF Mends
  <2>5. Hole(s) /\ exchange # "binance"
    BY <1>1, <2>4 DEF Hole
  <2>6. CASE s \in pending
    <3>1. CASE droppedSinceTick
      BY <2>6, <3>1 DEF Tick
    <3>2. CASE ~droppedSinceTick
      <4>1. s \in Range(requests')
        BY <2>2, <2>5, <2>6, <3>2, MendedFacts
      <4>2. QED BY <4>1 DEF Underway
    <3>3. QED BY <3>1, <3>2
  <2>7. CASE s \notin pending
    BY <1>1, <2>3, <2>5, <2>7 DEF IInv, HolesArePending
  <2>8. QED BY <2>6, <2>7
<1>4. QED BY <1>2, <1>3

LEMMA MendsSends ==
  ASSUME IInv, NEW s \in Symbols, NEW kind, NEW u, NEW v, SendsOne(kind, u, v),
         \/ kind \in {"snapshot", "update"} /\ u \in Symbols /\ v \in Change
         \/ kind = "instrument" /\ u = "all" /\ v = None,
         NEW r, Range(requests) \subseteq Range(requests') \cup {r}, r = s => kind = "snapshot" /\ u = s,
         UNCHANGED <<phase, exchange, archived, queue, heard, pending, lost>>
  PROVE  Mends(s)'
<1> DEFINE n == Newest
<1> TypeOK /\ FrameInv
  BY DEF IInv
<1>1. OnTheWire(n)
  BY SendsFacts
<1>2. n.kind = kind /\ n.symbol = u
  BY SendsFacts
<1> HIDE DEF n
<1>3. Underway(s) => Underway(s)'
  BY <1>1, <1>2, UnderwaySent
<1>4. QED BY <1>3, MendsKept

LEMMA HolesStep == IInv /\ [Next]_vars => HolesArePending'
<1> SUFFICES ASSUME IInv, [Next]_vars, NEW s \in Symbols PROVE Mends(s)'
  BY DEF Mends, HolesArePending
<1> TypeOK /\ FrameInv /\ PhaseInv
  BY DEF IInv
<1>0. queue \in Seq(Records) /\ Len(queue) <= QueueMax /\ archived[s] \in Replayed
  BY DEF TypeOK, Records
<1>1. ASSUME NEW u \in Symbols, Trade(u) PROVE Mends(s)'
  <2>1. PICK kind, v : kind = KindOfChange /\ v = version[u] + 1
    OBVIOUS
  <2>2. SendsOne(kind, u, v) /\ v \in Change /\ kind \in {"snapshot", "update"}
    BY <1>1, <2>1, TradeFacts
  <2>3. UNCHANGED <<phase, exchange, archived, queue, heard, pending, lost, requests>>
    BY <1>1 DEF Trade
  <2>4. "all" # s /\ Range(requests) \subseteq Range(requests') \cup {"all"}
    BY <2>3, SymbolFacts
  <2>5. QED BY <2>2, <2>3, <2>4, MendsSends
<1>2. ASSUME NEW u \in Symbols, Stale(u) PROVE Mends(s)'
  <2>1. PICK v : v = version[u] - 1
    OBVIOUS
  <2>2. SendsOne("snapshot", u, v) /\ v \in Change
    BY <1>2, <2>1, StaleFacts
  <2>3. UNCHANGED <<phase, exchange, archived, queue, heard, pending, lost, requests>>
    BY <1>2 DEF Stale
  <2>4. "all" # s /\ Range(requests) \subseteq Range(requests') \cup {"all"}
    BY <2>3, SymbolFacts
  <2>5. QED BY <2>2, <2>3, <2>4, MendsSends
<1>3. CASE Answer
  <2>1. UNCHANGED <<phase, exchange, archived, queue, heard, pending, lost>>
    BY <1>3 DEF Answer
  <2>2. PICK i \in DOMAIN requests :
           /\ Range(requests) \subseteq Range(requests') \cup {requests[i]}
           /\ \/ requests[i] = "instrument" /\ SendsOne("instrument", "all", None)
              \/ /\ requests[i] \in Symbols /\ version[requests[i]] \in Change
                 /\ SendsOne("snapshot", requests[i], version[requests[i]])
    BY <1>3, AnswerFacts
  <2>3. PICK r : r = requests[i]
    OBVIOUS
  <2>4. Range(requests) \subseteq Range(requests') \cup {r}
    BY <2>2, <2>3
  <2>5. CASE r = "instrument" /\ SendsOne("instrument", "all", None)
    BY <2>1, <2>4, <2>5, SymbolFacts, MendsSends
  <2>6. CASE r \in Symbols /\ version[r] \in Change /\ SendsOne("snapshot", r, version[r])
    <3>1. PICK v \in Change : v = version[r]
      BY <2>6
    <3>2. SendsOne("snapshot", r, v)
      BY <2>6, <3>1
    <3>3. QED BY <2>1, <2>4, <2>6, <3>2, MendsSends
  <2>7. QED BY <2>2, <2>3, <2>5, <2>6
<1>4. CASE Deliver
  <2>1. /\ queue # <<>> /\ queue' = Tail(queue)
        /\ archived' = [t \in Symbols |-> Reads(archived[t], t, Head(queue))]
        /\ UNCHANGED <<exchange, phase, wire, requests, heard, pending, lost>>
    BY <1>4 DEF Deliver
  <2>2. Fold(s, archived[s], queue) = Fold(s, archived'[s], queue')
    BY <1>0, <2>1, FoldTail
  <2>3. Accepted(s)' = Accepted(s)
    BY <2>2, AcceptedIs, AcceptedNext
  <2>4. Underway(s)' = Underway(s)
    BY <2>1 DEF Underway
  <2>5. QED BY <2>1, <2>3, <2>4 DEF Mends, Hole, Open, IInv, HolesArePending
<1>5. CASE TimeOut
  <2>1. /\ queue # <<>> /\ queue' = Tail(queue)
        /\ lost' = lost \cup ({Head(queue).symbol} \cap Symbols)
        /\ UNCHANGED <<exchange, phase, wire, requests, heard, pending, archived>>
    BY <1>5 DEF TimeOut
  <2>2. CASE Head(queue).symbol = s
    BY <2>1, <2>2 DEF Mends
  <2>3. CASE Head(queue).symbol # s
    <3>1. Reads(archived[s], s, Head(queue)) = archived[s]
      BY <2>3 DEF Reads
    <3>2. Fold(s, archived[s], queue) = Fold(s, archived[s], queue')
      BY <1>0, <2>1, <3>1, FoldTail
    <3>3. Accepted(s)' = Accepted(s)
      BY <2>1, <3>2, AcceptedIs, AcceptedNext
    <3>4. Underway(s)' = Underway(s)
      BY <2>1 DEF Underway
    <3>5. QED BY <2>1, <3>3, <3>4 DEF Mends, Hole, Open, IInv, HolesArePending
  <2>4. QED BY <2>2, <2>3
<1>6. CASE HandleFrame
  BY <1>6, MendsHandle
<1>7. CASE Tick
  BY <1>7, MendsTick
<1>8. CASE Connect
  <2>1. /\ archived' = Nothing /\ heard' = Nothing /\ queue' = [i \in DOMAIN queue |-> Other]
    BY <1>8 DEF Connect, Fresh
  <2>2. /\ queue' \in Seq(Records) /\ \A i \in 1..Len(queue') : queue'[i] = Other
    BY <1>0, <2>1, OtherIsOfNoSymbol
  <2>3. \A i \in 1..Len(queue') : queue'[i].symbol # s
    BY <2>2, OtherIsOfNoSymbol
  <2>4. archived'[s] = None /\ heard'[s] = None /\ None \in Replayed
    BY <2>1 DEF Nothing, Replayed
  <2>5. PICK b \in Replayed, q \in Seq(Records) : b = None /\ q = queue'
    BY <2>2, <2>4
  <2>6. Fold(s, b, q) = b
    BY <2>3, <2>5, FoldOfOthers
  <2>7. Accepted(s)' = heard'[s]
    BY <2>4, <2>5, <2>6, AcceptedNext
  <2>8. QED BY <2>7 DEF Mends, Hole
<1>9. CASE Disconnect \/ Restart \/ ConnectFails
  <2>1. phase' = "waiting"
    BY <1>9 DEF Disconnect, Restart, ConnectFails, SessionEnds, Closed
  <2>2. QED BY <2>1, MendsAtEnd
<1>10. CASE \/ (\E u \in Symbols : Skip(u)) \/ GoMute
            \/ (\E onBooks \in BOOLEAN : Chatter(onBooks)) \/ UNCHANGED vars
  <2>1. UNCHANGED <<phase, exchange, archived, queue, heard, pending, lost, wire, requests>>
    BY <1>10 DEF Skip, GoMute, Chatter, vars
  <2>2. Underway(s) => Underway(s)'
    BY <2>1 DEF Underway
  <2>3. QED BY <2>1, <2>2, MendsKept
<1>11. ASSUME NEW i \in DOMAIN wire, Garble(i) PROVE Mends(s)'
  <2>1. UNCHANGED <<phase, exchange, archived, queue, heard, pending, lost, requests>>
    BY <1>11 DEF Garble
  <2>2. Underway(s) => Underway(s)'
    BY <1>11, <2>1, GarbleFacts DEF Underway
  <2>3. QED BY <2>1, <2>2, MendsKept
<1>12. QED BY <1>1, <1>2, <1>3, <1>4, <1>5, <1>6, <1>7, <1>8, <1>9, <1>10, <1>11 DEF Next

-----------------------------------------------------------------------------
(* The theorems *)

LEMMA InitInv == Init => IInv
<1> SUFFICES ASSUME Init PROVE IInv
  OBVIOUS
<1>1. TypeOK
  BY TypeInit
<1>2. \A s \in Symbols : parked[s] = <<>> /\ version[s] = 1
  BY DEF Init
<1>3. parked \in [Symbols -> Seq(Frame)]
  <2>1. <<>> \in Seq(Frame)
    OBVIOUS
  <2>2. QED BY <2>1 DEF Init
<1>4. FrameInv
  BY <1>2, <1>3 DEF Init, FrameInv
<1>5. PhaseInv /\ ParkInv /\ BookInv
  BY <1>2 DEF Init, PhaseInv, ParkInv, BookInv, MayHold, Nothing
<1>6. ChainInv /\ HolesArePending
  BY DEF Init, ChainInv, HolesArePending, Hole, Open
<1>7. QED BY <1>1, <1>4, <1>5, <1>6 DEF IInv

\* The invariant of the capture: what the books, the frames under way, the
\* parked frames and the queue have to do with each other (main.rs, exchanges/).
THEOREM CaptureInvariant == Spec => []IInv
<1>1. IInv /\ [Next]_vars => IInv'
  BY TypeStep, FrameStep, PhaseStep, BookStep, ChainStep, HolesStep DEF IInv
<1>2. QED BY <1>1, InitInv, PTL DEF Spec

\* A book the sampler can see is the one of the last frame the capture got for
\* it, as far as the frames tell: no skipped, stale or parked frame leaves
\* another one that kraken's checksum covers, and none at all elsewhere unless a
\* level did not parse (kraken.rs, coinbase.rs, binance.rs).
THEOREM NoPlausibleLieHolds == Spec => []NoPlausibleLie
<1>1. IInv => NoPlausibleLie
  BY DEF IInv, NoPlausibleLie, BookInv, MayHold
<1>2. QED BY <1>1, CaptureInvariant, PTL

\* A frame that found no room is remembered until a fresh snapshot is under way,
\* whatever timed out, was answered or reset in between (resync.rs, sink.rs).
THEOREM HolesArePendingHolds == Spec => []HolesArePending
<1>1. IInv => HolesArePending
  BY DEF IInv
<1>2. QED BY <1>1, CaptureInvariant, PTL
=============================================================================
