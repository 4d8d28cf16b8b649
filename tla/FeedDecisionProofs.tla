------------------------- MODULE FeedDecisionProofs -------------------------
(***************************************************************************)
(* What the two loops of FeedDecision compute for a feed of any length: an *)
(* expression in the entries it has, whatever their order.                 *)
(***************************************************************************)
EXTENDS FeedDecision, FiniteSetTheorems, SequenceTheorems, WellFoundedInduction, TLAPS

-----------------------------------------------------------------------------
(* Induction and loops *)

(* A set that holds 0 and, with each number, the next one, holds all up to *)
(* n.                                                                      *)
LEMMA UpTo ==
    ASSUME NEW n \in Nat, NEW P, 0 \in P, \A m \in 0 .. n : m \in P /\ m < n => m + 1 \in P
    PROVE  0 .. n \subseteq P
<1> DEFINE R == {ss \in Nat \X Nat : ss[1] < ss[2]}
           Bad == (0 .. n) \ P
<1>1. IsWellFoundedOn(R, Nat)
  BY NatLessThanWellFounded DEF OpToRel
<1>2. ASSUME Bad # {} PROVE FALSE
  <2> HIDE DEF R
  <2>1. Bad \subseteq Nat
    OBVIOUS
  <2>2. PICK x \in Bad : \A y \in Bad : <<y, x>> \notin R
    BY <1>1, <1>2, <2>1, WFMin
  <2>3. x # 0 /\ x \in Nat /\ x <= n
    OBVIOUS
  <2>4. x - 1 \notin Bad
    <3>1. ASSUME x - 1 \in Bad PROVE FALSE
      <4>1. <<x - 1, x>> \in R
        BY <2>3 DEF R
      <4> QED BY <2>2, <3>1, <4>1
    <3> QED BY <3>1
  <2>5. x - 1 \in P /\ x - 1 \in 0 .. n
    BY <2>3, <2>4
  <2> QED BY <2>3, <2>5
<1> QED BY <1>2

(* The last number of an initial segment, and what is before it.           *)
LEMMA Segments ==
    /\ 1 .. 0 = {}
    /\ \A k \in Nat \ {0} : Max(1 .. k) = k /\ (1 .. k) \ {k} = 1 .. k - 1
    /\ \A k \in Nat : \A S \in SUBSET (1 .. k + 1) : k + 1 \in S => Max(S) = k + 1
<1>1. ASSUME NEW k \in Nat, NEW S \in SUBSET (1 .. k), k \in S PROVE Max(S) = k
  <2>1. \A y \in S : k >= y
    BY <1>1
  <2>2. \A x \in S : (\A y \in S : x >= y) => x = k
    BY <1>1, <2>1
  <2> QED BY <1>1, <2>1, <2>2 DEF Max
<1>2. \A k \in Nat \ {0} : Max(1 .. k) = k /\ (1 .. k) \ {k} = 1 .. k - 1
  BY <1>1
<1> QED BY <1>1, <1>2

(* The recursive function of a fold.                                       *)
IsFold(x, b, n, F) ==
    \A S \in SUBSET (1 .. n) :
        x[S] = IF S = {} THEN b ELSE F[<<Max(S), x[S \ {Max(S)}]>>]

(* It exists, for a step F of any kind.      *)
LEMMA FoldExists ==
    ASSUME NEW A, NEW b \in A, NEW n \in Nat, NEW F \in [(1 .. n) \X A -> A]
    PROVE  \E x \in [SUBSET (1 .. n) -> A] : IsFold(x, b, n, F)
<1> DEFINE Holds(x, S) == x[S] = IF S = {} THEN b ELSE F[<<Max(S), x[S \ {Max(S)}]>>]
           Good(m) == \E x \in [SUBSET (1 .. m) -> A] : \A S \in SUBSET (1 .. m) : Holds(x, S)
           P == {m \in 0 .. n : Good(m)}
<1>1. 0 \in P
  <2> DEFINE x == [S \in SUBSET (1 .. 0) |-> b]
  <2>1. 1 .. 0 = {}
    BY Segments
  <2>2. x \in [SUBSET (1 .. 0) -> A] /\ \A S \in SUBSET (1 .. 0) : Holds(x, S)
    BY <2>1
  <2> HIDE DEF x, Holds
  <2>3. Good(0)
    BY <2>2
  <2> HIDE DEF Good
  <2> QED BY <2>3
<1>2. ASSUME NEW m \in 0 .. n, m \in P, m < n PROVE m + 1 \in P
  <2>1. PICK x \in [SUBSET (1 .. m) -> A] : \A S \in SUBSET (1 .. m) : Holds(x, S)
    BY <1>2
  <2> DEFINE y == [S \in SUBSET (1 .. m + 1) |->
                      IF m + 1 \in S THEN F[<<m + 1, x[S \ {m + 1}]>>] ELSE x[S]]
  <2>2. ASSUME NEW S \in SUBSET (1 .. m + 1), m + 1 \in S
        PROVE  y[S] \in A /\ Holds(y, S)
    <3> HIDE DEF y, Holds
    <3>0. \A k \in S : k \in 1 .. m + 1
      BY <2>2
    <3>1. S \ {m + 1} \in SUBSET (1 .. m) /\ m + 1 \in 1 .. n
      BY <1>2, <3>0
    <3> USE DEF y, Holds
    <3>2. Max(S) = m + 1
      BY <2>2, Segments
    <3>3. S \ {m + 1} \in SUBSET (1 .. m + 1) /\ m + 1 \notin S \ {m + 1}
      BY <2>2
    <3>4. y[S \ {m + 1}] = x[S \ {m + 1}]
      BY <3>3
    <3>5. y[S] = F[<<m + 1, x[S \ {m + 1}]>>]
      BY <2>2
    <3>6. x[S \ {m + 1}] \in A
      BY <2>1, <3>1
    <3>7. y[S] \in A
      BY <3>1, <3>5, <3>6
    <3> QED BY <2>2, <3>2, <3>4, <3>5, <3>7
  <2>3. ASSUME NEW S \in SUBSET (1 .. m + 1), m + 1 \notin S
        PROVE  y[S] \in A /\ Holds(y, S)
    <3> HIDE DEF y, Holds
    <3>0. \A k \in S : k \in 1 .. m + 1 /\ k # m + 1
      BY <2>3
    <3>1. S \in SUBSET (1 .. m)
      BY <1>2, <3>0
    <3>2. S \ {Max(S)} \in SUBSET (1 .. m)
      BY <3>1
    <3> USE DEF y, Holds
    <3>3. y[S] = x[S] /\ y[S \ {Max(S)}] = x[S \ {Max(S)}]
      BY <2>3, <3>1, <3>2
    <3> QED BY <2>1, <3>1, <3>2, <3>3
  <2>4. y \in [SUBSET (1 .. m + 1) -> A] /\ \A S \in SUBSET (1 .. m + 1) : Holds(y, S)
    <3>1. \A S \in SUBSET (1 .. m + 1) : y[S] \in A /\ Holds(y, S)
      BY <2>2, <2>3
    <3> HIDE DEF Holds
    <3>2. y \in [SUBSET (1 .. m + 1) -> A]
      BY <3>1
    <3> QED BY <3>1, <3>2
  <2> HIDE DEF y, Holds
  <2> QED BY <2>4, <1>2
<1>3. n \in P
  <2> HIDE DEF P
  <2> QED BY <1>1, <1>2, UpTo
<1> QED BY <1>3 DEF IsFold

(* A set of positions has a last one.                                      *)
LEMMA LastPosition ==
    ASSUME NEW n \in Nat, NEW S \in SUBSET (1 .. n), S # {}
    PROVE  Max(S) \in S
<1> DEFINE P == {m \in 0 .. n : \A T \in SUBSET (1 .. m) : T # {} => Max(T) \in T}
<1>1. 0 \in P
  <2>1. \A T \in SUBSET (1 .. 0) : T = {}
    BY Segments
  <2>2. \A T \in SUBSET (1 .. 0) : T # {} => Max(T) \in T
    BY <2>1
  <2>3. 0 \in 0 .. n
    OBVIOUS
  <2> QED BY <2>2, <2>3
<1>2. ASSUME NEW m \in 0 .. n, m \in P, m < n PROVE m + 1 \in P
  <2>1. ASSUME NEW T \in SUBSET (1 .. m + 1), T # {} PROVE Max(T) \in T
    <3>1. CASE m + 1 \in T
      BY <3>1, Segments
    <3>2. CASE m + 1 \notin T
      <4>1. \A k \in T : k \in 1 .. m + 1 /\ k # m + 1
        BY <3>2
      <4>2. T \in SUBSET (1 .. m)
        BY <4>1
      <4> QED BY <1>2, <2>1, <4>2
    <3> QED BY <3>1, <3>2
  <2> QED BY <1>2, <2>1
<1>3. n \in P
  <2> HIDE DEF P
  <2> QED BY <1>1, <1>2, UpTo
<1> QED BY <1>3

-----------------------------------------------------------------------------
(* The two loops *)

Counted == [count : [Ips -> Nat], raised : BOOLEAN]
NothingCounted == [count |-> [i \in Ips |-> 0], raised |-> FALSE]

(* An iteration of the first loop returns what it was given, with an error *)
(* or with one report more.                                                *)
LEMMA CountTypes ==
    ASSUME NEW acc \in Counted, NEW e \in Entry
    PROVE  CountEntry(acc, e) \in Counted
<1>1. acc.count \in [Ips -> Nat] /\ acc.raised \in BOOLEAN
  BY DEF Counted
<1>2. ASSUME e.ip \in Ips PROVE [acc EXCEPT !.count[e.ip] = @ + 1] \in Counted
  BY <1>1, <1>2 DEF Counted
<1>3. [acc EXCEPT !.raised = TRUE] \in Counted
  BY <1>1 DEF Counted
<1> QED BY <1>2, <1>3 DEF CountEntry

(* for entry in data, in _parse_hayahora_status_payload: Hero is what the  *)
(* last iteration leaves.                                                  *)
LEMMA HeroLoop ==
    ASSUME NEW data \in Seq(Entry)
    PROVE  \E acc \in [0 .. Len(data) -> Counted] :
               /\ acc[0] = NothingCounted
               /\ \A k \in 1 .. Len(data) : acc[k] = CountEntry(acc[k - 1], data[k])
               /\ Hero(data) = acc[Len(data)]
<1> DEFINE n == Len(data)
           Loop(x) == x = [s \in SUBSET DOMAIN data |->
                              IF s = {} THEN NothingCounted
                              ELSE CountEntry(x[s \ {Max(s)}], data[Max(s)])]
           f == CHOOSE x : Loop(x)
           F == [p \in (1 .. n) \X Counted |-> CountEntry(p[2], data[p[1]])]
<1>1. n \in Nat /\ DOMAIN data = 1 .. n /\ \A k \in 1 .. n : data[k] \in Entry
  OBVIOUS
<1>2. NothingCounted \in Counted
  BY DEF NothingCounted, Counted
<1>3. F \in [(1 .. n) \X Counted -> Counted]
  BY <1>1, CountTypes
<1>4. PICK x \in [SUBSET (1 .. n) -> Counted] : IsFold(x, NothingCounted, n, F)
  <2> HIDE DEF F, n, f, Loop
  <2>1. n \in Nat
    BY <1>1
  <2> QED BY <2>1, <1>2, <1>3, FoldExists
<1>5. Loop(x)
  <2>1. ASSUME NEW S \in SUBSET (1 .. n), S # {}
        PROVE  x[S] = CountEntry(x[S \ {Max(S)}], data[Max(S)])
    <3>1. Max(S) \in 1 .. n
      BY <1>1, <2>1, LastPosition
    <3>2. x[S \ {Max(S)}] \in Counted
      BY <1>4
    <3>3. x[S] = F[<<Max(S), x[S \ {Max(S)}]>>]
      BY <1>4, <2>1 DEF IsFold
    <3> QED BY <3>1, <3>2, <3>3
  <2>2. x[{}] = NothingCounted
    BY <1>4 DEF IsFold
  <2> HIDE DEF F
  <2> QED BY <1>1, <1>4, <2>1, <2>2
<1>6. Loop(f)
  BY <1>5
<1>7. Hero(data) = f[DOMAIN data]
  BY DEF Hero, FoldLeft, MapThenFoldSet, NothingCounted
<1> DEFINE acc == [k \in 0 .. n |-> f[1 .. k]]
<1> HIDE DEF f
<1>8. acc[0] = NothingCounted
  BY <1>1, <1>6, Segments
<1>9. ASSUME NEW k \in 1 .. n PROVE acc[k] = CountEntry(acc[k - 1], data[k])
  <2>1. 1 .. k \in SUBSET DOMAIN data /\ 1 .. k # {}
    <3>1. k \in Nat /\ 1 <= k /\ k <= n
      BY <1>1
    <3>2. \A j \in 1 .. k : j \in 1 .. n
      BY <1>1, <3>1
    <3>3. k \in 1 .. k
      BY <3>1
    <3> QED BY <1>1, <3>2, <3>3
  <2>2. Max(1 .. k) = k /\ (1 .. k) \ {k} = 1 .. k - 1
    BY <1>1, Segments
  <2>3. f[1 .. k] = CountEntry(f[1 .. k - 1], data[k])
    BY <1>6, <2>1, <2>2
  <2> QED BY <1>1, <2>3
<1>10. acc \in [0 .. n -> Counted]
  <2> DEFINE P == {k \in 0 .. n : acc[k] \in Counted}
  <2>1. 0 \in P
    BY <1>1, <1>2, <1>8
  <2>2. ASSUME NEW k \in 0 .. n, k \in P, k < n PROVE k + 1 \in P
    <3>1. k + 1 \in 1 .. n /\ (k + 1) - 1 = k /\ acc[k] \in Counted
      BY <1>1, <2>2
    <3> HIDE DEF acc
    <3> QED BY <1>1, <1>9, <3>1, CountTypes
  <2> HIDE DEF P
  <2>3. 0 .. n \subseteq P
    BY <1>1, <2>1, <2>2, UpTo
  <2> USE DEF P
  <2> HIDE DEF n
  <2> QED BY <2>3
<1>11. Hero(data) = acc[n]
  BY <1>1, <1>7
<1> HIDE DEF acc
<1> QED BY <1>8, <1>9, <1>10, <1>11
Found == [ips : SUBSET Ips, isps : SUBSET Isps, raised : BOOLEAN]
NothingFound == [ips |-> {}, isps |-> {}, raised |-> FALSE]
CheckIsp(found, isp) == [found EXCEPT !.raised = @ \/ isp \notin found.isps \cup {AnyIsp}]

(* An iteration of the second loop returns what it was given, with an      *)
(* error, a provider or a destination more.                                *)
LEMMA VisitTypes ==
    ASSUME NEW acc \in Found, NEW e \in Entry, NEW isp, NEW policy
    PROVE  Visit(acc, e, isp, policy) \in Found
<1>1. acc.ips \subseteq Ips /\ acc.isps \subseteq Isps /\ acc.raised \in BOOLEAN
  BY DEF Found
<1>2. e.isp \in Isps \cup {"none"} /\ e.ip \in Ips \cup {"invalid", "none"}
  BY DEF Entry
<1>3. NoteIsp(acc, e) \in Found
  BY <1>1, <1>2 DEF NoteIsp, Provider, Found
<1>4. ASSUME NEW b \in Found PROVE AddDestination(b, e, policy) \in Found
  <2>1. b.ips \subseteq Ips /\ b.isps \subseteq Isps
    BY <1>4 DEF Found
  <2>2. ASSUME NEW r \in BOOLEAN PROVE [b EXCEPT !.raised = r] \in Found
    BY <1>4, <2>2 DEF Found
  <2>3. ASSUME e.ip \notin {"invalid", "none"}, NEW r \in BOOLEAN
        PROVE  [b EXCEPT !.ips = @ \cup {e.ip}, !.raised = r] \in Found
    BY <1>2, <1>4, <2>1, <2>3 DEF Found
  <2>4. CASE e.ip \in {"invalid", "none"}
    BY <1>4, <2>2, <2>4 DEF AddDestination
  <2>5. CASE e.ip \notin {"invalid", "none"}
    <3> DEFINE r == Cardinality(b.ips \cup {e.ip}) > MaxDestinations
    <3>1. r \in BOOLEAN
      OBVIOUS
    <3>2. [b EXCEPT !.ips = @ \cup {e.ip}, !.raised = r] \in Found
      BY <2>3, <2>5, <3>1
    <3> HIDE DEF r
    <3>3. AddDestination(b, e, policy) \in
              {b, [b EXCEPT !.raised = TRUE], [b EXCEPT !.ips = @ \cup {e.ip}, !.raised = r]}
      BY <2>5 DEF AddDestination, r
    <3> QED BY <1>4, <2>2, <3>2, <3>3
  <2> QED BY <2>4, <2>5
<1> QED BY <1>3, <1>4 DEF Visit

(* for entry in data, in extract_hayahora_active_ips: Extract is what the  *)
(* last iteration leaves, but for a provider that the feed does not name.  *)
LEMMA ExtractLoop ==
    ASSUME NEW data \in Seq(Entry), NEW isp, NEW policy
    PROVE  \E acc \in [0 .. Len(data) -> Found] :
               /\ acc[0] = NothingFound
               /\ \A k \in 1 .. Len(data) : acc[k] = Visit(acc[k - 1], data[k], isp, policy)
               /\ Extract(data, isp, policy) = CheckIsp(acc[Len(data)], isp)
<1> DEFINE n == Len(data)
           Loop(x) == x = [s \in SUBSET DOMAIN data |->
                              IF s = {} THEN NothingFound
                              ELSE Visit(x[s \ {Max(s)}], data[Max(s)], isp, policy)]
           f == CHOOSE x : Loop(x)
           F == [p \in (1 .. n) \X Found |-> Visit(p[2], data[p[1]], isp, policy)]
<1>1. n \in Nat /\ DOMAIN data = 1 .. n /\ \A k \in 1 .. n : data[k] \in Entry
  OBVIOUS
<1>2. NothingFound \in Found
  BY DEF NothingFound, Found
<1>3. F \in [(1 .. n) \X Found -> Found]
  BY <1>1, VisitTypes
<1>4. PICK x \in [SUBSET (1 .. n) -> Found] : IsFold(x, NothingFound, n, F)
  <2> HIDE DEF F, n, f, Loop
  <2>1. n \in Nat
    BY <1>1
  <2> QED BY <2>1, <1>2, <1>3, FoldExists
<1>5. Loop(x)
  <2>1. ASSUME NEW S \in SUBSET (1 .. n), S # {}
        PROVE  x[S] = Visit(x[S \ {Max(S)}], data[Max(S)], isp, policy)
    <3>1. Max(S) \in 1 .. n
      BY <1>1, <2>1, LastPosition
    <3>2. x[S \ {Max(S)}] \in Found
      BY <1>4
    <3>3. x[S] = F[<<Max(S), x[S \ {Max(S)}]>>]
      BY <1>4, <2>1 DEF IsFold
    <3> QED BY <3>1, <3>2, <3>3
  <2>2. x[{}] = NothingFound
    BY <1>4 DEF IsFold
  <2> HIDE DEF F
  <2> QED BY <1>1, <1>4, <2>1, <2>2
<1>6. Loop(f)
  BY <1>5
<1>7. Extract(data, isp, policy) = CheckIsp(f[DOMAIN data], isp)
  BY DEF Extract, FoldLeft, MapThenFoldSet, NothingFound, CheckIsp
<1> DEFINE acc == [k \in 0 .. n |-> f[1 .. k]]
<1> HIDE DEF f
<1>8. acc[0] = NothingFound
  BY <1>1, <1>6, Segments
<1>9. ASSUME NEW k \in 1 .. n PROVE acc[k] = Visit(acc[k - 1], data[k], isp, policy)
  <2>1. 1 .. k \in SUBSET DOMAIN data /\ 1 .. k # {}
    <3>1. k \in Nat /\ 1 <= k /\ k <= n
      BY <1>1
    <3>2. \A j \in 1 .. k : j \in 1 .. n
      BY <1>1, <3>1
    <3>3. k \in 1 .. k
      BY <3>1
    <3> QED BY <1>1, <3>2, <3>3
  <2>2. Max(1 .. k) = k /\ (1 .. k) \ {k} = 1 .. k - 1
    BY <1>1, Segments
  <2>3. f[1 .. k] = Visit(f[1 .. k - 1], data[k], isp, policy)
    BY <1>6, <2>1, <2>2
  <2> QED BY <1>1, <2>3
<1>10. acc \in [0 .. n -> Found]
  <2> DEFINE P == {k \in 0 .. n : acc[k] \in Found}
  <2>1. 0 \in P
    BY <1>1, <1>2, <1>8
  <2>2. ASSUME NEW k \in 0 .. n, k \in P, k < n PROVE k + 1 \in P
    <3>1. k + 1 \in 1 .. n /\ (k + 1) - 1 = k /\ acc[k] \in Found
      BY <1>1, <2>2
    <3> HIDE DEF acc
    <3> QED BY <1>1, <1>9, <3>1, VisitTypes
  <2> HIDE DEF P
  <2>3. 0 .. n \subseteq P
    BY <1>1, <2>1, <2>2, UpTo
  <2> USE DEF P
  <2> HIDE DEF n
  <2> QED BY <2>3
<1>11. Extract(data, isp, policy) = CheckIsp(acc[n], isp)
  BY <1>1, <1>7
<1> HIDE DEF acc
<1> QED BY <1>8, <1>9, <1>10, <1>11

-----------------------------------------------------------------------------
(* Their values *)

OddHero(e) == e.hero /\ e.ip # "none" /\ LatestState(e) = "odd"
Reports(e, i) == e.hero /\ LatestState(e) = "on" /\ e.ip = i
Point(e, i) == IF Reports(e, i) THEN 1 ELSE 0
ReportsOf(data, k, i) == {j \in 1 .. k : Reports(data[j], i)}

(* An entry that is not odd counts for the address it reports.             *)
LEMMA CountOne ==
    ASSUME NEW acc \in Counted, NEW e \in Entry, acc.raised = FALSE
    PROVE  /\ CountEntry(acc, e).raised <=> OddHero(e)
           /\ \A i \in Ips : CountEntry(acc, e).count[i] =
                                 acc.count[i] + Point(e, i)
<1>1. acc.count \in [Ips -> Nat]
  BY DEF Counted
<1>2. e.hero \in BOOLEAN
  BY DEF Entry
<1>3. CASE OddHero(e)
  <2>1. CountEntry(acc, e) = [acc EXCEPT !.raised = TRUE]
    BY <1>3 DEF CountEntry, OddHero
  <2>2. \A i \in Ips : ~Reports(e, i)
    BY <1>3 DEF OddHero, Reports
  <2> QED BY <1>1, <1>3, <2>1, <2>2 DEF Counted, Point
<1>4. CASE ~OddHero(e) /\ \E i \in Ips : Reports(e, i)
  <2>1. e.ip \in Ips /\ Reports(e, e.ip) /\ \A i \in Ips : Reports(e, i) => i = e.ip
    BY <1>4 DEF Reports
  <2>2. CountEntry(acc, e) = [acc EXCEPT !.count[e.ip] = @ + 1]
    BY <2>1, IpsAssumption DEF CountEntry, Reports
  <2>3. \A i \in Ips : CountEntry(acc, e).count[i] =
                            IF i = e.ip THEN acc.count[i] + 1 ELSE acc.count[i]
    BY <1>1, <2>1, <2>2 DEF Counted
  <2>4. CountEntry(acc, e).raised = FALSE
    BY <2>2 DEF Counted
  <2> QED BY <1>1, <1>4, <2>1, <2>3, <2>4 DEF Point
<1>5. CASE ~OddHero(e) /\ \A i \in Ips : ~Reports(e, i)
  <2>1. CountEntry(acc, e) = acc
    BY <1>2, <1>5 DEF CountEntry, OddHero, Reports
  <2>2. \A i \in Ips : acc.count[i] \in Nat
    BY <1>1
  <2> HIDE DEF Counted
  <2> QED BY <1>5, <2>1, <2>2 DEF Point
<1> QED BY <1>3, <1>4, <1>5

(* One entry more is one report more, or none.                             *)
LEMMA ReportsGrow ==
    ASSUME NEW data, NEW k \in Nat, NEW i
    PROVE  /\ IsFiniteSet(ReportsOf(data, k, i))
           /\ Cardinality(ReportsOf(data, k + 1, i)) =
                  Cardinality(ReportsOf(data, k, i))
                  + Point(data[k + 1], i)
<1> DEFINE S == ReportsOf(data, k, i)
<1>1. IsFiniteSet(S)
  <2>1. IsFiniteSet(1 .. k)
    BY FS_Interval
  <2>2. S \subseteq 1 .. k
    BY DEF ReportsOf
  <2> QED BY <2>1, <2>2, FS_Subset
<1>2. k + 1 \notin S
  BY DEF ReportsOf
<1>3. ReportsOf(data, k + 1, i) = IF Reports(data[k + 1], i) THEN S \cup {k + 1} ELSE S
  BY DEF ReportsOf
<1> HIDE DEF S
<1>4. Cardinality(S \cup {k + 1}) = Cardinality(S) + 1 /\ Cardinality(S) \in Nat
  BY <1>1, <1>2, FS_AddElement, FS_CardinalityType
<1> QED BY <1>1, <1>3, <1>4 DEF S, Point

(* The first loop fails for an odd entry, and counts the reports of each   *)
(* address otherwise.                                                      *)
LEMMA HeroValue ==
    ASSUME NEW data \in Seq(Entry)
    PROVE  /\ Hero(data) \in Counted
           /\ Hero(data).raised <=> \E j \in 1 .. Len(data) : OddHero(data[j])
           /\ ~Hero(data).raised =>
                  \A i \in Ips : Hero(data).count[i] =
                                     Cardinality(ReportsOf(data, Len(data), i))
<1>1. PICK acc \in [0 .. Len(data) -> Counted] :
           /\ acc[0] = NothingCounted
           /\ \A k \in 1 .. Len(data) : acc[k] = CountEntry(acc[k - 1], data[k])
           /\ Hero(data) = acc[Len(data)]
  BY HeroLoop
<1> DEFINE Value(k) ==
        /\ acc[k].raised <=> \E j \in 1 .. k : OddHero(data[j])
        /\ acc[k].raised = FALSE =>
              \A i \in Ips : acc[k].count[i] = Cardinality(ReportsOf(data, k, i))
           P == {k \in 0 .. Len(data) : Value(k)}
<1>2. Len(data) \in Nat /\ \A j \in 1 .. Len(data) : data[j] \in Entry
  OBVIOUS
<1>3. Value(0)
  <2>1. acc[0].raised = FALSE /\ \A i \in Ips : acc[0].count[i] = 0
    BY <1>1 DEF NothingCounted
  <2>2. \A i : ReportsOf(data, 0, i) = {}
    BY DEF ReportsOf
  <2>3. Cardinality({}) = 0
    BY FS_EmptySet
  <2>4. 1 .. 0 = {}
    BY Segments
  <2> QED BY <2>1, <2>2, <2>3, <2>4
<1>4. ASSUME NEW k \in 0 .. Len(data), Value(k), k < Len(data) PROVE Value(k + 1)
  <2>1. /\ k \in Nat /\ k + 1 \in 1 .. Len(data) /\ (k + 1) - 1 = k
        /\ acc[k] \in Counted /\ data[k + 1] \in Entry
    BY <1>1, <1>2, <1>4
  <2>2. acc[k + 1] = CountEntry(acc[k], data[k + 1])
    BY <1>1, <2>1
  <2>3. \A j : j \in 1 .. k + 1 <=> j \in 1 .. k \/ j = k + 1
    BY <2>1
  <2>4. acc[k].raised \in BOOLEAN
    BY <2>1 DEF Counted
  <2>5. CASE acc[k].raised = TRUE
    <3>1. acc[k + 1] = acc[k]
      BY <2>2, <2>5 DEF CountEntry
    <3> QED BY <1>4, <2>3, <2>5, <3>1
  <2>6. CASE acc[k].raised = FALSE
    <3>1. /\ acc[k + 1].raised <=> OddHero(data[k + 1])
          /\ \A i \in Ips : acc[k + 1].count[i] =
                                acc[k].count[i] + Point(data[k + 1], i)
      <4>1. /\ CountEntry(acc[k], data[k + 1]).raised <=> OddHero(data[k + 1])
            /\ \A i \in Ips : CountEntry(acc[k], data[k + 1]).count[i] =
                                  acc[k].count[i] + Point(data[k + 1], i)
        BY <2>1, <2>6, CountOne
      <4> QED BY <2>2, <4>1
    <3>2. \A i \in Ips : acc[k].count[i] = Cardinality(ReportsOf(data, k, i))
      BY <1>4, <2>6
    <3>3. \A i \in Ips : acc[k + 1].count[i] = Cardinality(ReportsOf(data, k + 1, i))
      BY <2>1, <3>1, <3>2, ReportsGrow
    <3>4. acc[k + 1].raised <=> \E j \in 1 .. k + 1 : OddHero(data[j])
      BY <1>4, <2>3, <2>6, <3>1
    <3> QED BY <3>3, <3>4
  <2> QED BY <2>4, <2>5, <2>6
<1>5. Value(Len(data))
  <2> HIDE DEF Value
  <2>1. 0 \in P /\ \A m \in 0 .. Len(data) : m \in P /\ m < Len(data) => m + 1 \in P
    BY <1>2, <1>3, <1>4
  <2> HIDE DEF P
  <2>2. 0 .. Len(data) \subseteq P
    BY <1>2, <2>1, UpTo
  <2>3. Len(data) \in P
    BY <1>2, <2>2
  <2> QED BY <2>3 DEF P
<1>6. acc[Len(data)] \in Counted
  BY <1>1, <1>2
<1> QED BY <1>1, <1>5, <1>6 DEF Counted

Wanted(e, isp) == isp \in {AnyIsp, e.isp}
Names(e, isp) == Wanted(e, isp) /\ ActiveNow(e) /\ e.ip \notin {"invalid", "none"}
Breaks(e, isp, policy) ==
    Wanted(e, isp) /\ (Odd(e) \/ (ActiveNow(e) /\ e.ip = "invalid" /\ policy = "fail"))
NamedIn(data, k, isp) == {data[j].ip : j \in {h \in 1 .. k : Names(data[h], isp)}}
IspsIn(data, k) == UNION {Provider(data[j]) : j \in 1 .. k}
TooMany(ips) == Cardinality(ips) > MaxDestinations

(* What an iteration makes of an entry.                                    *)
Visited(acc, e, isp, policy, v) ==
    /\ Breaks(e, isp, policy) => v.raised = TRUE
    /\ ~Breaks(e, isp, policy) =>
          /\ v.isps = acc.isps \cup Provider(e)
          /\ Names(e, isp) => /\ v.ips = acc.ips \cup {e.ip}
                              /\ v.raised <=> TooMany(acc.ips \cup {e.ip})
          /\ ~Names(e, isp) => v.ips = acc.ips /\ v.raised = FALSE

(* An iteration that starts without a failure leaves such a result.        *)
LEMMA VisitOne ==
    ASSUME NEW acc \in Found, NEW e \in Entry, NEW isp, NEW policy, acc.raised = FALSE,
           NEW v, v = Visit(acc, e, isp, policy)
    PROVE  Visited(acc, e, isp, policy, v)
<1> USE DEF Visited
<1> DEFINE b == NoteIsp(acc, e)
<1>1. /\ b.ips = acc.ips /\ b.isps = acc.isps \cup Provider(e) /\ b.raised = FALSE
      /\ DOMAIN b = {"ips", "isps", "raised"}
  BY DEF NoteIsp, Found
<1>2. ~(Odd(e) /\ ActiveNow(e))
  BY DEF Odd, ActiveNow
<1> HIDE DEF b
<1>3. CASE ~Wanted(e, isp)
  <2>1. v = b
    BY <1>3 DEF Visit, Wanted, b
  <2> QED BY <1>1, <1>3, <2>1 DEF Breaks, Names
<1>4. CASE Wanted(e, isp)
  <2>1. v = AddDestination(b, e, policy)
    BY <1>4 DEF Visit, Wanted, b
  <2>2. CASE Odd(e)
    <3>1. v = [b EXCEPT !.raised = TRUE]
      BY <2>1, <2>2 DEF AddDestination
    <3> QED BY <1>1, <1>2, <1>4, <2>2, <3>1 DEF Breaks
  <2>3. CASE ~Odd(e) /\ (~ActiveNow(e) \/ e.ip = "none")
    <3>1. v = b
      BY <2>1, <2>3 DEF AddDestination
    <3> QED BY <1>1, <2>3, <3>1 DEF Breaks, Names
  <2>4. CASE ActiveNow(e) /\ e.ip = "invalid"
    <3>1. v = [b EXCEPT !.raised = (policy = "fail")]
      BY <1>2, <2>1, <2>4 DEF AddDestination
    <3>2. v.ips = b.ips /\ v.isps = b.isps /\ (v.raised <=> policy = "fail")
      BY <1>1, <3>1
    <3>3. v.raised = (policy = "fail")
      BY <1>1, <3>1
    <3> QED BY <1>1, <1>2, <1>4, <2>4, <3>2, <3>3 DEF Breaks, Names
  <2>5. CASE ActiveNow(e) /\ e.ip \notin {"invalid", "none"}
    <3>1. v = [b EXCEPT !.ips = @ \cup {e.ip}, !.raised = TooMany(b.ips \cup {e.ip})]
      BY <1>2, <2>1, <2>5 DEF AddDestination, TooMany
    <3>2. /\ v.ips = acc.ips \cup {e.ip} /\ v.isps = acc.isps \cup Provider(e)
          /\ v.raised <=> TooMany(acc.ips \cup {e.ip})
      BY <1>1, <3>1
    <3> QED BY <1>2, <1>4, <2>5, <3>2 DEF Breaks, Names
  <2> QED BY <1>2, <2>2, <2>3, <2>4, <2>5
<1> QED BY <1>3, <1>4

(* One entry more is one address and one provider more, or none.           *)
LEMMA NamedGrow ==
    ASSUME NEW data, NEW k \in Nat, NEW isp
    PROVE  /\ NamedIn(data, k + 1, isp) =
                  NamedIn(data, k, isp)
                  \cup (IF Names(data[k + 1], isp) THEN {data[k + 1].ip} ELSE {})
           /\ IspsIn(data, k + 1) = IspsIn(data, k) \cup Provider(data[k + 1])
<1>1. 1 .. k + 1 = (1 .. k) \cup {k + 1}
  OBVIOUS
<1> QED BY <1>1 DEF NamedIn, IspsIn

(* Addresses that are named are addresses, and finitely many.              *)
LEMMA NamedTypes ==
    ASSUME NEW data \in Seq(Entry), NEW k \in 0 .. Len(data), NEW isp
    PROVE  /\ NamedIn(data, k, isp) \subseteq Ips
           /\ IsFiniteSet(NamedIn(data, k, isp))
           /\ Cardinality(NamedIn(data, k, isp)) \in Nat
<1>1. \A j \in 1 .. k : data[j] \in Entry
  OBVIOUS
<1>2. NamedIn(data, k, isp) \subseteq Ips
  BY <1>1 DEF NamedIn, Names, Entry
<1> QED BY <1>2, IpsAssumption, FS_Subset, FS_CardinalityType

(* The second loop fails for an entry that breaks it or for too many       *)
(* addresses, and finds what the entries of the provider name otherwise.   *)
LEMMA ExtractValue ==
    ASSUME NEW data \in Seq(Entry), NEW isp, NEW policy
    PROVE  /\ Extract(data, isp, policy).raised <=>
                  \/ \E j \in 1 .. Len(data) : Breaks(data[j], isp, policy)
                  \/ TooMany(NamedIn(data, Len(data), isp))
                  \/ isp \notin IspsIn(data, Len(data)) \cup {AnyIsp}
           /\ ~Extract(data, isp, policy).raised =>
                  Extract(data, isp, policy).ips = NamedIn(data, Len(data), isp)
<1>1. PICK acc \in [0 .. Len(data) -> Found] :
           /\ acc[0] = NothingFound
           /\ \A k \in 1 .. Len(data) : acc[k] = Visit(acc[k - 1], data[k], isp, policy)
           /\ Extract(data, isp, policy) = CheckIsp(acc[Len(data)], isp)
  BY ExtractLoop
<1> DEFINE Broken(k) == \E j \in 1 .. k : Breaks(data[j], isp, policy)
           Value(k) ==
               /\ acc[k].raised <=> Broken(k) \/ TooMany(NamedIn(data, k, isp))
               /\ acc[k].raised = FALSE => /\ acc[k].ips = NamedIn(data, k, isp)
                                           /\ acc[k].isps = IspsIn(data, k)
           P == {k \in 0 .. Len(data) : Value(k)}
<1>2. Len(data) \in Nat /\ \A j \in 1 .. Len(data) : data[j] \in Entry
  OBVIOUS
<1>3. Value(0)
  <2>1. acc[0].raised = FALSE /\ acc[0].ips = {} /\ acc[0].isps = {}
    BY <1>1 DEF NothingFound
  <2>2. NamedIn(data, 0, isp) = {} /\ IspsIn(data, 0) = {} /\ ~Broken(0)
    BY Segments DEF NamedIn, IspsIn
  <2>3. ~TooMany({})
    BY FS_EmptySet, ThresholdsAssumption DEF TooMany
  <2> HIDE DEF Broken
  <2> QED BY <2>1, <2>2, <2>3
<1>4. ASSUME NEW k \in 0 .. Len(data), Value(k), k < Len(data) PROVE Value(k + 1)
  <2> DEFINE e == data[k + 1]
  <2>1. /\ k \in Nat /\ k + 1 \in 1 .. Len(data) /\ (k + 1) - 1 = k
        /\ acc[k] \in Found /\ e \in Entry
    <3>1. k \in Nat /\ k + 1 \in 1 .. Len(data) /\ (k + 1) - 1 = k
      BY <1>2, <1>4
    <3>2. acc[k] \in Found
      BY <1>1
    <3>3. e \in Entry
      BY <1>2, <3>1
    <3> QED BY <3>1, <3>2, <3>3
  <2>2. acc[k + 1] = Visit(acc[k], e, isp, policy)
    BY <1>1, <2>1
  <2>3. Broken(k + 1) <=> Broken(k) \/ Breaks(e, isp, policy)
    <3>1. \A j : j \in 1 .. k + 1 <=> j \in 1 .. k \/ j = k + 1
      BY <2>1
    <3> QED BY <3>1
  <2>4. /\ Names(e, isp) => NamedIn(data, k + 1, isp) = NamedIn(data, k, isp) \cup {e.ip}
        /\ ~Names(e, isp) => NamedIn(data, k + 1, isp) = NamedIn(data, k, isp)
        /\ IspsIn(data, k + 1) = IspsIn(data, k) \cup Provider(e)
    <3>1. /\ NamedIn(data, k + 1, isp) =
                 NamedIn(data, k, isp) \cup (IF Names(e, isp) THEN {e.ip} ELSE {})
          /\ IspsIn(data, k + 1) = IspsIn(data, k) \cup Provider(e)
      <4>1. k \in Nat
        BY <2>1
      <4> QED BY <4>1, NamedGrow, Zenon
    <3>2. NamedIn(data, k, isp) \cup {} = NamedIn(data, k, isp)
      OBVIOUS
    <3> HIDE DEF e
    <3> QED BY <3>1, <3>2, Zenon
  <2>5. acc[k].raised \in BOOLEAN
    BY <2>1 DEF Found
  <2> HIDE DEF Broken, e
  <2>6. CASE acc[k].raised = TRUE
    <3>1. acc[k + 1] = acc[k]
      BY <2>2, <2>6 DEF Visit
    <3>2. TooMany(NamedIn(data, k, isp)) => TooMany(NamedIn(data, k + 1, isp))
      <4>1. k + 1 \in 0 .. Len(data) /\ NamedIn(data, k, isp) \subseteq NamedIn(data, k + 1, isp)
        BY <2>1, <2>4
      <4>2. /\ Cardinality(NamedIn(data, k, isp)) <= Cardinality(NamedIn(data, k + 1, isp))
            /\ Cardinality(NamedIn(data, k, isp)) \in Nat
            /\ Cardinality(NamedIn(data, k + 1, isp)) \in Nat
        BY <4>1, NamedTypes, FS_Subset
      <4> QED BY <4>2, ThresholdsAssumption DEF TooMany
    <3> QED BY <1>4, <2>3, <2>6, <3>1, <3>2
  <2>7. CASE acc[k].raised = FALSE
    <3>1. acc[k].ips = NamedIn(data, k, isp) /\ acc[k].isps = IspsIn(data, k)
          /\ ~Broken(k) /\ ~TooMany(NamedIn(data, k, isp))
      BY <1>4, <2>7
    <3>2. /\ Breaks(e, isp, policy) => acc[k + 1].raised = TRUE
          /\ ~Breaks(e, isp, policy) =>
                /\ acc[k + 1].isps = acc[k].isps \cup Provider(e)
                /\ Names(e, isp) => /\ acc[k + 1].ips = acc[k].ips \cup {e.ip}
                                    /\ acc[k + 1].raised <=> TooMany(acc[k].ips \cup {e.ip})
                /\ ~Names(e, isp) => acc[k + 1].ips = acc[k].ips /\ acc[k + 1].raised = FALSE
      <4>1. PICK v, a : v = acc[k + 1] /\ a = acc[k]
        OBVIOUS
      <4>2. a \in Found /\ e \in Entry /\ a.raised = FALSE /\ v = Visit(a, e, isp, policy)
        BY <2>1, <2>2, <2>7, <4>1
      <4>3. Visited(a, e, isp, policy, v)
        BY <4>2, VisitOne
      <4> QED BY <4>1, <4>3, Zenon DEF Visited
    <3> QED BY <2>3, <2>4, <3>1, <3>2
  <2> QED BY <2>5, <2>6, <2>7
<1>5. Value(Len(data))
  <2> HIDE DEF Value
  <2>1. 0 \in P /\ \A m \in 0 .. Len(data) : m \in P /\ m < Len(data) => m + 1 \in P
    BY <1>2, <1>3, <1>4
  <2> HIDE DEF P
  <2>2. 0 .. Len(data) \subseteq P
    BY <1>2, <2>1, UpTo
  <2>3. Len(data) \in P
    BY <1>2, <2>2
  <2> QED BY <2>3 DEF P
<1>6. acc[Len(data)] \in Found
  BY <1>1, <1>2
<1>7. /\ CheckIsp(acc[Len(data)], isp).raised <=>
             acc[Len(data)].raised = TRUE \/ isp \notin acc[Len(data)].isps \cup {AnyIsp}
      /\ CheckIsp(acc[Len(data)], isp).ips = acc[Len(data)].ips
      /\ acc[Len(data)].raised \in BOOLEAN
  BY <1>6 DEF CheckIsp, Found
<1> QED BY <1>1, <1>5, <1>7

-----------------------------------------------------------------------------
(* What a feed says *)

(* load_feed_snapshot: what it makes of the values of the two loops.       *)
LEMMA DecideValue ==
    ASSUME NEW p, NEW isp, NEW policy,
           NEW x, x = Extract(p.data, isp, policy),
           NEW hero, hero = Hero(p.data),
           NEW d, d = Decide(p, isp, policy)
    PROVE  /\ d.valid <=> ~(x.raised \/ p.flag = "odd" \/ (p.flag = "absent" /\ hero.raised))
           /\ d.valid =>
                  /\ d.destinations = x.ips
                  /\ p.flag # "absent" => (d.blocked <=> p.flag = "on")
                  /\ p.flag = "absent" => (d.blocked <=> HeroBlocked(hero.count))
<1> DEFINE Fails == x.raised \/ p.flag = "odd" \/ (p.flag = "absent" /\ hero.raised)
           b == IF p.flag = "absent" THEN HeroBlocked(hero.count) ELSE p.flag = "on"
<1>1. CASE Fails
  <2>1. d = Invalid
    BY <1>1 DEF Decide
  <2>2. ~d.valid
    BY <2>1 DEF Invalid
  <2> QED BY <1>1, <2>2
<1>2. CASE ~Fails
  <2>1. d = Snapshot(b, x.ips)
    BY <1>2, Zenon DEF Decide
  <2>2. \A v, w : Snapshot(v, w).valid = TRUE /\ Snapshot(v, w).destinations = w
                 /\ Snapshot(v, w).blocked = v
    BY DEF Snapshot
  <2>3. d.valid = TRUE /\ d.destinations = x.ips /\ d.blocked = b
    <3> HIDE DEF b
    <3> QED BY <2>1, <2>2
  <2>4. p.flag # "absent" => (b <=> p.flag = "on")
    OBVIOUS
  <2>5. p.flag = "absent" => (b <=> HeroBlocked(hero.count))
    OBVIOUS
  <2>6. d.blocked <=> b
    BY <2>3, Zenon
  <2> QED
    <3> HIDE DEF b
    <3> QED BY <1>2, <2>3, <2>4, <2>5, <2>6, Zenon
<1> QED BY <1>1, <1>2

(* load_feed_snapshot, without its loops: when a feed is refused, which    *)
(* destinations it names and when its history blocks, in terms of its      *)
(* entries and not of the order in which they are visited.  So no feed has *)
(* more destinations than the ceiling allows.                              *)
THEOREM SnapshotIsWhatTheFeedSays ==
    ASSUME NEW p \in Payload, NEW isp, NEW policy,
           NEW d, d = Decide(p, isp, policy),
           NEW n, n = Len(p.data)
    PROVE  /\ d.valid <=>
                  /\ \A j \in 1 .. n : ~Breaks(p.data[j], isp, policy)
                  /\ Cardinality(NamedIn(p.data, n, isp)) <= MaxDestinations
                  /\ isp \in IspsIn(p.data, n) \cup {AnyIsp}
                  /\ p.flag # "odd"
                  /\ p.flag = "absent" => \A j \in 1 .. n : ~OddHero(p.data[j])
           /\ d.valid =>
                  /\ d.destinations = NamedIn(p.data, n, isp)
                  /\ Cardinality(d.destinations) <= MaxDestinations
                  /\ p.flag # "absent" => (d.blocked <=> p.flag = "on")
                  /\ p.flag = "absent" =>
                         (d.blocked <=>
                             HeroBlocked([i \in Ips |-> Cardinality(ReportsOf(p.data, n, i))]))
<1>1. p.data \in Seq(Entry) /\ n \in Nat /\ n \in 0 .. n
  BY DEF Payload
<1>2. PICK x : x = Extract(p.data, isp, policy)
  OBVIOUS
<1>3. PICK hero : hero = Hero(p.data)
  OBVIOUS
<1>4. PICK named : named = NamedIn(p.data, n, isp)
  OBVIOUS
<1>5. PICK counts : counts = [i \in Ips |-> Cardinality(ReportsOf(p.data, n, i))]
  OBVIOUS
<1>6. TooMany(named) <=> ~(Cardinality(named) <= MaxDestinations)
  BY <1>1, <1>4, NamedTypes, ThresholdsAssumption DEF TooMany
<1>7. x.raised <=> \/ \E j \in 1 .. n : Breaks(p.data[j], isp, policy)
                   \/ TooMany(named)
                   \/ isp \notin IspsIn(p.data, n) \cup {AnyIsp}
  BY <1>1, <1>2, <1>4, ExtractValue
<1>8. ~x.raised => x.ips = named
  BY <1>1, <1>2, <1>4, ExtractValue
<1>9. hero.raised <=> \E j \in 1 .. n : OddHero(p.data[j])
  BY <1>1, <1>3, HeroValue
<1>10. ~hero.raised => hero.count = counts
  BY <1>1, <1>3, <1>5, HeroValue DEF Counted
<1>11. /\ d.valid <=> ~(x.raised \/ p.flag = "odd" \/ (p.flag = "absent" /\ hero.raised))
       /\ d.valid =>
              /\ d.destinations = x.ips
              /\ p.flag # "absent" => (d.blocked <=> p.flag = "on")
              /\ p.flag = "absent" => (d.blocked <=> HeroBlocked(hero.count))
  BY <1>2, <1>3, DecideValue
<1>12. d.valid <=>
          /\ \A j \in 1 .. n : ~Breaks(p.data[j], isp, policy)
          /\ Cardinality(named) <= MaxDestinations
          /\ isp \in IspsIn(p.data, n) \cup {AnyIsp}
          /\ p.flag # "odd"
          /\ p.flag = "absent" => \A j \in 1 .. n : ~OddHero(p.data[j])
  BY <1>6, <1>7, <1>9, <1>11, Zenon
<1>13. d.valid => d.destinations = named /\ Cardinality(d.destinations) <= MaxDestinations
  BY <1>8, <1>11, <1>12, Zenon
<1>14. d.valid /\ p.flag = "absent" => (d.blocked <=> HeroBlocked(counts))
  BY <1>10, <1>11, Zenon
<1> QED BY <1>4, <1>5, <1>11, <1>12, <1>13, <1>14, Zenon

-----------------------------------------------------------------------------
(* Feeds that say the same *)

(* Every entry of data stands in more too, at a place of its own, and more *)
(* has no other.                                                           *)
Places(data, more) ==
    {f \in Injection(1 .. Len(data), 1 .. Len(more)) :
        \A j \in 1 .. Len(data) : more[f[j]] = data[j]}

Repeats(data, more) ==
    /\ Places(data, more) # {}
    /\ \A k \in 1 .. Len(more) : \E j \in 1 .. Len(data) : more[k] = data[j]

(* An address has at least the reports it had.                             *)
LEMMA MoreReports ==
    ASSUME NEW data \in Seq(Entry), NEW more \in Seq(Entry), Repeats(data, more), NEW i
    PROVE  /\ Cardinality(ReportsOf(data, Len(data), i)) \in Nat
           /\ Cardinality(ReportsOf(more, Len(more), i)) \in Nat
           /\ Cardinality(ReportsOf(data, Len(data), i))
                  <= Cardinality(ReportsOf(more, Len(more), i))
<1> DEFINE S == ReportsOf(data, Len(data), i)
           T == ReportsOf(more, Len(more), i)
<1>1. PICK f \in Injection(1 .. Len(data), 1 .. Len(more)) :
           \A j \in 1 .. Len(data) : more[f[j]] = data[j]
  BY DEF Repeats, Places
<1>2. Len(data) \in Nat /\ Len(more) \in Nat
  OBVIOUS
<1>3. IsFiniteSet(S) /\ IsFiniteSet(T)
  BY <1>2, ReportsGrow
<1>4. /\ f \in [1 .. Len(data) -> 1 .. Len(more)]
      /\ \A a, b \in 1 .. Len(data) : f[a] = f[b] => a = b
  BY <1>1 DEF Injection, IsInjective
<1> DEFINE g == [j \in S |-> f[j]]
<1>5. \A j \in S : j \in 1 .. Len(data) /\ f[j] \in T
  BY <1>1, <1>4 DEF ReportsOf
<1>6. g \in [S -> T] /\ \A a, b \in S : g[a] = g[b] => a = b
  <2> HIDE DEF S, T
  <2> QED BY <1>4, <1>5
<1>7. g \in Injection(S, T)
  <2> HIDE DEF S, T
  <2>1. DOMAIN g = S
    OBVIOUS
  <2> HIDE DEF g
  <2> QED BY <1>6, <2>1 DEF Injection, IsInjective
<1> HIDE DEF g, S, T
<1>8. Cardinality(S) <= Cardinality(T)
  BY <1>3, <1>7, FS_Injection
<1>9. Cardinality(S) \in Nat /\ Cardinality(T) \in Nat
  BY <1>3, FS_CardinalityType
<1> QED BY <1>8, <1>9 DEF S, T

(* Counts that are at least as large block if the smaller ones do.         *)
LEMMA BlockedMonotone ==
    ASSUME NEW c \in [Ips -> Nat], NEW d \in [Ips -> Nat], \A i \in Ips : c[i] <= d[i],
           HeroBlocked(c)
    PROVE  HeroBlocked(d)
<1> DEFINE Over(x) == {i \in Ips : x[i] >= MinMatches}
<1>1. Over(c) \in SUBSET Over(d) /\ Over(d) \in SUBSET Ips
  <2>1. MinMatches \in Nat
    BY ThresholdsAssumption
  <2>2. \A i \in Ips : c[i] >= MinMatches => d[i] >= MinMatches
    BY <2>1
  <2> QED BY <2>2
<1>2. {i \in Ips : c[i] > 0} \subseteq {i \in Ips : d[i] > 0}
  <2>1. \A i \in Ips : c[i] > 0 => d[i] > 0
    OBVIOUS
  <2> QED BY <2>1
<1>3. /\ Cardinality(Over(c)) <= Cardinality(Over(d))
      /\ Cardinality(Over(c)) \in Nat /\ Cardinality(Over(d)) \in Nat
  <2> HIDE DEF Over
  <2>1. IsFiniteSet(Over(d))
    BY <1>1, IpsAssumption, FS_Subset
  <2> QED BY <1>1, <2>1, FS_Subset, FS_CardinalityType
<1>4. CASE Cardinality(Over(c)) >= MinConfirmed
  <2> HIDE DEF Over
  <2>1. Cardinality(Over(d)) >= MinConfirmed
    BY <1>3, <1>4, ThresholdsAssumption
  <2> QED BY <2>1 DEF HeroBlocked, Over
<1>5. CASE Sentinels \subseteq {i \in Ips : c[i] > 0}
  BY <1>2, <1>5 DEF HeroBlocked
<1> QED BY <1>4, <1>5 DEF HeroBlocked

(* The status from the history is an error in both feeds or in none, and a *)
(* block remains.                                                          *)
LEMMA HeroRepeats ==
    ASSUME NEW data \in Seq(Entry), NEW more \in Seq(Entry), Repeats(data, more)
    PROVE  /\ Hero(more).raised <=> Hero(data).raised
           /\ ~Hero(data).raised /\ HeroBlocked(Hero(data).count) => HeroBlocked(Hero(more).count)
<1>1. Hero(more).raised <=> Hero(data).raised
  <2>1. \A k \in 1 .. Len(more) : \E j \in 1 .. Len(data) : more[k] = data[j]
    BY DEF Repeats
  <2>2. \A j \in 1 .. Len(data) : \E k \in 1 .. Len(more) : more[k] = data[j]
    BY DEF Repeats, Places, Injection
  <2>3. /\ Hero(data).raised <=> \E j \in 1 .. Len(data) : OddHero(data[j])
        /\ Hero(more).raised <=> \E k \in 1 .. Len(more) : OddHero(more[k])
    BY HeroValue
  <2> QED BY <2>1, <2>2, <2>3
<1>2. ASSUME ~Hero(data).raised, HeroBlocked(Hero(data).count)
      PROVE  HeroBlocked(Hero(more).count)
  <2>1. Hero(data).count \in [Ips -> Nat] /\ Hero(more).count \in [Ips -> Nat]
    BY HeroValue DEF Counted
  <2>2. \A i \in Ips :
           /\ Hero(data).count[i] = Cardinality(ReportsOf(data, Len(data), i))
           /\ Hero(more).count[i] = Cardinality(ReportsOf(more, Len(more), i))
    BY <1>1, <1>2, HeroValue
  <2>3. \A i \in Ips : Hero(data).count[i] <= Hero(more).count[i]
    BY <2>2, MoreReports
  <2> QED BY <1>2, <2>1, <2>3, BlockedMonotone
<1> QED BY <1>1, <1>2

(* The destinations are the same, and so is the error.                     *)
LEMMA ExtractRepeats ==
    ASSUME NEW data \in Seq(Entry), NEW more \in Seq(Entry), Repeats(data, more),
           NEW isp, NEW policy
    PROVE  /\ Extract(more, isp, policy).raised <=> Extract(data, isp, policy).raised
           /\ ~Extract(data, isp, policy).raised =>
                  Extract(more, isp, policy).ips = Extract(data, isp, policy).ips
<1>1. \A k \in 1 .. Len(more) : \E j \in 1 .. Len(data) : more[k] = data[j]
  BY DEF Repeats
<1>2. \A j \in 1 .. Len(data) : \E k \in 1 .. Len(more) : more[k] = data[j]
  BY DEF Repeats, Places, Injection
<1>3. NamedIn(data, Len(data), isp) = NamedIn(more, Len(more), isp)
  <2>1. ASSUME NEW x \in NamedIn(data, Len(data), isp)
        PROVE  x \in NamedIn(more, Len(more), isp)
    <3>1. PICK j \in 1 .. Len(data) : Names(data[j], isp) /\ x = data[j].ip
      BY <2>1 DEF NamedIn
    <3>2. PICK k \in 1 .. Len(more) : more[k] = data[j]
      BY <1>2
    <3> QED BY <3>1, <3>2 DEF NamedIn
  <2>2. ASSUME NEW x \in NamedIn(more, Len(more), isp)
        PROVE  x \in NamedIn(data, Len(data), isp)
    <3>1. PICK k \in 1 .. Len(more) : Names(more[k], isp) /\ x = more[k].ip
      BY <2>2 DEF NamedIn
    <3>2. PICK j \in 1 .. Len(data) : more[k] = data[j]
      BY <1>1
    <3> QED BY <3>1, <3>2 DEF NamedIn
  <2> QED BY <2>1, <2>2
<1>4. IspsIn(data, Len(data)) = IspsIn(more, Len(more))
  <2>1. ASSUME NEW j \in 1 .. Len(data) PROVE Provider(data[j]) \subseteq IspsIn(more, Len(more))
    <3>1. PICK k \in 1 .. Len(more) : more[k] = data[j]
      BY <1>2
    <3> QED BY <3>1 DEF IspsIn
  <2>2. ASSUME NEW k \in 1 .. Len(more) PROVE Provider(more[k]) \subseteq IspsIn(data, Len(data))
    <3>1. PICK j \in 1 .. Len(data) : more[k] = data[j]
      BY <1>1
    <3> QED BY <3>1 DEF IspsIn
  <2> QED BY <2>1, <2>2 DEF IspsIn
<1>5. (\E j \in 1 .. Len(data) : Breaks(data[j], isp, policy))
          <=> \E k \in 1 .. Len(more) : Breaks(more[k], isp, policy)
  BY <1>1, <1>2
<1> QED BY <1>3, <1>4, <1>5, ExtractValue

(* A snapshot that blocks differs in that from one that does not.          *)
LEMMA SnapshotBlocked ==
    ASSUME NEW b, NEW ips, NEW c
    PROVE  [Snapshot(b, ips) EXCEPT !.blocked = c] = Snapshot(c, ips)
<1>1. \A v : [[blocked |-> b, destinations |-> ips, valid |-> v] EXCEPT !.blocked = c] =
                 [blocked |-> c, destinations |-> ips, valid |-> v]
  OBVIOUS
<1> QED BY <1>1, Zenon DEF Snapshot

(* load_feed_snapshot: where more repeats data, the snapshot is the same,  *)
(* or one that blocks as well.                                             *)
LEMMA DecideRepeats ==
    ASSUME NEW p \in Payload, NEW q \in Payload, q.flag = p.flag, Repeats(p.data, q.data),
           NEW isp, NEW policy
    PROVE  \/ Decide(q, isp, policy) = Decide(p, isp, policy)
           \/ Decide(q, isp, policy) =
                  [Decide(p, isp, policy) EXCEPT !.blocked = Decide(p, isp, policy).valid]
<1> DEFINE x == Extract(p.data, isp, policy)
           y == Extract(q.data, isp, policy)
           Fails == x.raised \/ p.flag = "odd" \/ (p.flag = "absent" /\ Hero(p.data).raised)
<1>1. p.data \in Seq(Entry) /\ q.data \in Seq(Entry)
  BY DEF Payload
<1>2. (y.raised <=> x.raised) /\ (~x.raised => y.ips = x.ips)
  BY <1>1, ExtractRepeats
<1>3. /\ Hero(q.data).raised <=> Hero(p.data).raised
      /\ ~Hero(p.data).raised /\ HeroBlocked(Hero(p.data).count) => HeroBlocked(Hero(q.data).count)
  BY <1>1, HeroRepeats
<1> HIDE DEF x, y
<1>4. CASE Fails
  BY <1>2, <1>3, <1>4 DEF Decide, x, y
<1>5. CASE ~Fails /\ p.flag # "absent"
  <2>1. Decide(p, isp, policy) = Snapshot(p.flag = "on", x.ips)
    BY <1>5, Zenon DEF Decide, x
  <2>2. Decide(q, isp, policy) = Snapshot(p.flag = "on", y.ips)
    BY <1>2, <1>5, Zenon DEF Decide, x, y
  <2> QED BY <1>2, <1>5, <2>1, <2>2
<1>6. CASE ~Fails /\ p.flag = "absent"
  <2>1. Decide(p, isp, policy) = Snapshot(HeroBlocked(Hero(p.data).count), x.ips)
    BY <1>6, Zenon DEF Decide, x
  <2>2. Decide(q, isp, policy) = Snapshot(HeroBlocked(Hero(q.data).count), x.ips)
    BY <1>2, <1>3, <1>6, Zenon DEF Decide, x, y
  <2>3. HeroBlocked(Hero(p.data).count) \in BOOLEAN /\ HeroBlocked(Hero(q.data).count) \in BOOLEAN
    BY DEF HeroBlocked
  <2>4. \A b, c \in BOOLEAN : \A ips : (b => c) =>
            \/ Snapshot(c, ips) = Snapshot(b, ips)
            \/ Snapshot(c, ips) = [Snapshot(b, ips) EXCEPT !.blocked = Snapshot(b, ips).valid]
    <3>1. \A b \in BOOLEAN : \A ips :
              [Snapshot(b, ips) EXCEPT !.blocked = TRUE] = Snapshot(TRUE, ips)
      BY SnapshotBlocked
    <3>2. \A b \in BOOLEAN : \A ips : Snapshot(b, ips).valid = TRUE
      BY DEF Snapshot
    <3> QED BY <3>1, <3>2
  <2> QED BY <1>3, <1>6, <2>1, <2>2, <2>3, <2>4
<1> QED BY <1>4, <1>5, <1>6

(* One more entry like one of the feed's, at any place.                    *)
LEMMA InsertRepeats ==
    ASSUME NEW data \in Seq(Entry), NEW i \in DOMAIN data, NEW k \in DOMAIN data
    PROVE  /\ InsertAt(data, k, data[i]) \in Seq(Entry)
           /\ Repeats(data, InsertAt(data, k, data[i]))
<1> DEFINE n == Len(data)
           more == InsertAt(data, k, data[i])
           f == [j \in 1 .. n |-> IF j < k THEN j ELSE j + 1]
<1>1. n \in Nat /\ DOMAIN data = 1 .. n /\ i \in 1 .. n /\ k \in 1 .. n
  OBVIOUS
<1>2. /\ more \in Seq(Entry) /\ Len(more) = n + 1
      /\ \A j \in 1 .. n + 1 : more[j] = IF j < k THEN data[j]
                                         ELSE IF j = k THEN data[i] ELSE data[j - 1]
  <2> DEFINE before == SubSeq(data, 1, k - 1)
             after == SubSeq(data, k, n)
  <2> HIDE DEF n
  <2>1. before \in Seq(Entry) /\ Len(before) = k - 1 /\ \A j \in 1 .. k - 1 : before[j] = data[j]
    BY <1>1 DEF n
  <2>2. /\ after \in Seq(Entry) /\ Len(after) = n - k + 1
        /\ \A j \in 1 .. n - k + 1 : after[j] = data[j + k - 1]
    BY <1>1 DEF n
  <2>3. data[i] \in Entry /\ more = before \o <<data[i]>> \o after
    BY <1>1 DEF InsertAt, n
  <2> HIDE DEF before, after, more
  <2> DEFINE start == before \o <<data[i]>>
  <2>4. start \in Seq(Entry) /\ Len(start) = k /\ start[k] = data[i]
        /\ \A j \in 1 .. k - 1 : start[j] = data[j]
    BY <1>1, <2>1, <2>3
  <2> HIDE DEF start
  <2>5. /\ more \in Seq(Entry) /\ Len(more) = n + 1
        /\ \A j \in 1 .. n + 1 : more[j] = IF j <= k THEN start[j] ELSE after[j - k]
    <3>1. more = start \o after
      BY <2>3 DEF start
    <3>2. \A j \in 1 .. n + 1 : j \in 1 .. k \/ (j > k /\ j - k \in 1 .. n - k + 1)
      BY <1>1
    <3>3. more \in Seq(Entry) /\ Len(more) = k + (n - k + 1)
      <4>1. more \in Seq(Entry) /\ Len(more) = Len(start) + Len(after)
        BY <2>2, <2>4, <3>1, ConcatProperties
      <4> QED BY <2>2, <2>4, <4>1
    <3>4. ASSUME NEW j \in 1 .. k PROVE more[j] = start[j]
      BY <1>1, <2>2, <2>4, <3>1
    <3>5. ASSUME NEW j \in 1 .. n + 1, j > k PROVE more[j] = after[j - k]
      BY <1>1, <2>2, <2>4, <3>1, <3>5
    <3> QED BY <1>1, <3>2, <3>3, <3>4, <3>5
  <2>6. \A j \in k + 1 .. n + 1 : j - k \in 1 .. n - k + 1 /\ (j - k) + k - 1 = j - 1
    BY <1>1
  <2>7. \A j \in k + 1 .. n + 1 : after[j - k] = data[j - 1]
    BY <2>2, <2>6
  <2>8. ASSUME NEW j \in 1 .. n + 1
        PROVE  more[j] = IF j < k THEN data[j] ELSE IF j = k THEN data[i] ELSE data[j - 1]
    <3>1. CASE j < k
      BY <1>1, <2>4, <2>5, <3>1
    <3>2. CASE j = k
      BY <1>1, <2>4, <2>5, <3>2
    <3>3. CASE j > k
      <4>1. j \in k + 1 .. n + 1 /\ ~(j <= k)
        BY <1>1, <3>3
      <4>2. more[j] = after[j - k]
        BY <2>5, <4>1
      <4>3. more[j] = data[j - 1]
        BY <2>7, <4>1, <4>2
      <4>4. ~(j < k) /\ j # k
        BY <1>1, <3>3
      <4> QED BY <4>3, <4>4
    <3> QED BY <1>1, <3>1, <3>2, <3>3
  <2> QED BY <2>5, <2>8
<1> HIDE DEF more, n
<1>3. f \in Injection(1 .. n, 1 .. n + 1)
  <2>1. f \in [1 .. n -> 1 .. n + 1]
    BY <1>1
  <2>2. \A a, b \in 1 .. n : f[a] = f[b] => a = b
    BY <1>1
  <2> HIDE DEF f
  <2>3. DOMAIN f = 1 .. n
    BY <2>1
  <2> QED BY <2>1, <2>2, <2>3 DEF Injection, IsInjective
<1>4. \A j \in 1 .. n : more[f[j]] = data[j]
  <2>1. ASSUME NEW j \in 1 .. n, j < k PROVE more[f[j]] = data[j]
    BY <1>1, <1>2, <2>1
  <2>2. ASSUME NEW j \in 1 .. n, ~(j < k) PROVE more[f[j]] = data[j]
    BY <1>1, <1>2, <2>2
  <2> QED BY <2>1, <2>2
<1>5. ASSUME NEW j \in 1 .. n + 1 PROVE \E h \in 1 .. n : more[j] = data[h]
  <2>1. CASE j < k
    BY <1>1, <1>2, <2>1
  <2>2. CASE j = k
    BY <1>1, <1>2, <2>2
  <2>3. CASE j > k
    <3>1. j - 1 \in 1 .. n
      BY <1>1, <2>3
    <3> QED BY <1>1, <1>2, <2>3, <3>1
  <2> QED BY <1>1, <2>1, <2>2, <2>3
<1> HIDE DEF f
<1>6. f \in Places(data, more)
  BY <1>2, <1>3, <1>4 DEF Places, n
<1> QED BY <1>2, <1>5, <1>6 DEF Repeats, n, more

(* load_feed_snapshot: the order of the entries does not matter.  Feeds    *)
(* that hold the same entries, each as often, give the same snapshot.      *)
THEOREM OrderOfEntriesIsIrrelevant ==
    ASSUME NEW p \in Payload, NEW q \in Payload, q.flag = p.flag,
           Places(p.data, q.data) # {}, Places(q.data, p.data) # {},
           NEW isp, NEW policy
    PROVE  Decide(q, isp, policy) = Decide(p, isp, policy)
<1>1. Repeats(p.data, q.data) /\ Repeats(q.data, p.data)
  BY DEF Repeats, Places, Injection
<1> DEFINE d == Decide(p, isp, policy)
           c == Decide(q, isp, policy)
<1>2. c = d \/ c = [d EXCEPT !.blocked = d.valid]
  BY <1>1, DecideRepeats
<1>3. d = c \/ d = [c EXCEPT !.blocked = c.valid]
  BY <1>1, DecideRepeats
<1>4. c = Invalid \/ \E b \in BOOLEAN : \E ips : c = Snapshot(b, ips)
  BY DEF Decide, HeroBlocked
<1> HIDE DEF c, d
<1> QED BY <1>2, <1>3, <1>4 DEF Invalid, Snapshot, c, d

(* The last change decides in both readings, if it has a state.            *)
LEMMA CurrentState ==
    ASSUME NEW e \in Entry, Current(e)
    PROVE  LatestState(e) = Last(e.changes).state
<1> DEFINE s == e.changes
           I == {h \in 1 .. Len(s) : HasState(s[h])}
<1>1. Len(s) \in Nat /\ Len(s) # 0 /\ HasState(s[Len(s)])
  BY DEF Current, Last, HasState, Entry
<1>2. PICK m \in Nat : Len(s) = m + 1
  <2>1. Len(s) - 1 \in Nat /\ Len(s) = (Len(s) - 1) + 1
    BY <1>1
  <2> QED BY <2>1
<1>3. I \in SUBSET (1 .. m + 1) /\ m + 1 \in I
  BY <1>1, <1>2
<1>4. Max(I) = Len(s) /\ I # {}
  BY <1>2, <1>3, Segments
<1>5. SelectLastInSeq(s, HasState) = Len(s)
  BY <1>4 DEF SelectLastInSeq
<1> QED BY <1>1, <1>5 DEF LatestState, Last

(* The two readings agree where all entries speak of now: an address that  *)
(* an entry reports is a destination.                                      *)
LEMMA CountedAreNamed ==
    ASSUME NEW p \in Payload, NEW policy, p.flag = "absent",
           Decide(p, AnyIsp, policy).valid = TRUE,
           \A j \in DOMAIN p.data : Current(p.data[j])
    PROVE  {i \in Ips : Hero(p.data).count[i] > 0} \subseteq Decide(p, AnyIsp, policy).destinations
<1> DEFINE data == p.data
           x == Extract(data, AnyIsp, policy)
<1>1. data \in Seq(Entry)
  BY DEF Payload
<1>2. ~x.raised /\ ~Hero(data).raised /\ Decide(p, AnyIsp, policy).destinations = x.ips
  BY DEF Decide, Invalid, Snapshot
<1>3. x.ips = NamedIn(data, Len(data), AnyIsp)
  BY <1>1, <1>2, ExtractValue
<1>4. ASSUME NEW i \in Ips, Hero(data).count[i] > 0
      PROVE  i \in NamedIn(data, Len(data), AnyIsp)
  <2>1. Cardinality(ReportsOf(data, Len(data), i)) > 0
    BY <1>1, <1>2, <1>4, HeroValue
  <2>2. PICK j \in 1 .. Len(data) : Reports(data[j], i)
    <3>1. Cardinality({}) = 0
      BY FS_EmptySet
    <3>2. ReportsOf(data, Len(data), i) # {}
      <4>1. ASSUME ReportsOf(data, Len(data), i) = {}
            PROVE  Cardinality(ReportsOf(data, Len(data), i)) = 0
        BY <3>1, <4>1, Zenon
      <4> QED BY <2>1, <4>1
    <3> QED BY <3>2 DEF ReportsOf
  <2>3. data[j] \in Entry /\ Current(data[j])
    BY <1>1, <2>2
  <2>4. Last(data[j].changes).state = "on" /\ data[j].ip = i
    BY <2>2, <2>3, CurrentState DEF Reports
  <2>5. Names(data[j], AnyIsp)
    BY <2>3, <2>4, IpsAssumption DEF Names, Wanted, ActiveNow, DecidingChange, Current
  <2> QED BY <2>4, <2>5 DEF NamedIn
<1> QED BY <1>2, <1>3, <1>4
=============================================================================
