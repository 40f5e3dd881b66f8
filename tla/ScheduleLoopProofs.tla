------------------------- MODULE ScheduleLoopProofs -------------------------
(***************************************************************************)
(* That the loop of CapabilityScheduler._schedule_ready computes the       *)
(* closed form of module CapabilityScheduler, for any tickets, resources   *)
(* and claims, with a queue of any length.                                 *)
(*                                                                         *)
(* A deque is a listing of its tickets by their stamps, and the only one   *)
(* (DequeIs).  One grant leaves the readiness of the other tickets as it   *)
(* was (GrantKeepsReady), so that the loop grants those that were ready    *)
(* when it started (LoopGrants).  The recursive definitions have solutions *)
(* and the claims about them hold for every length because a shortest      *)
(* counterexample has a shorter one.                                       *)
(***************************************************************************)
EXTENDS ScheduleLoop, CapabilitySchedulerProofs, FiniteSetTheorems, SequenceTheorems

(* The sequence q holds the tickets of S in the order of their stamps a. *)
Listing(q, S, a) ==
  /\ q \in Seq(Ticket)
  /\ Range(q) = S
  /\ \A i, j \in DOMAIN q : i < j => a[q[i]] < a[q[j]]

Stamped(a) == a \in [Ticket -> Nat]

(* Deque, for any queue and stamps. *)
DequeOf(S, a) ==
  CHOOSE q \in [1 .. Cardinality(S) -> S] :
    Range(q) = S /\ \A i, j \in DOMAIN q : i < j => a[q[i]] < a[q[j]]

-----------------------------------------------------------------------------
Less == {p \in Nat \X Nat : p[1] < p[2]}

LEMMA LessIsWellFounded == IsWellFoundedOn(Less, Nat)
  BY NatLessThanWellFounded, Zenon DEF OpToRel, Less

(* A nonempty set of numbers has a least one, and Min is it. *)
LEMMA MinIs ==
  ASSUME NEW S \in SUBSET Nat, S # {}
  PROVE  Min(S) \in S /\ \A y \in S : Min(S) <= y
<1>1. PICK x \in S : \A y \in S : ~ (<<y, x>> \in Less)
  BY LessIsWellFounded, WFMin
<1>2. \A y \in S : x <= y
  <2> TAKE y \in S
  <2>1. x \in Nat /\ y \in Nat /\ ~ (<<y, x>> \in Less)
    BY <1>1
  <2> QED
    BY <2>1 DEF Less
<1> QED
  BY <1>2 DEF Min

LEMMA IntervalCount ==
  ASSUME NEW n \in Nat
  PROVE  IsFiniteSet(1 .. n) /\ Cardinality(1 .. n) = n
<1>1. /\ IsFiniteSet(1 .. n)
      /\ Cardinality(1 .. n) = IF 1 > n THEN 0 ELSE n - 1 + 1
  BY FS_Interval
<1> QED
  BY <1>1

(* A listing repeats no ticket and is as long as there are tickets. *)
LEMMA ListingOnce ==
  ASSUME NEW S, NEW a, Stamped(a), NEW q, Listing(q, S, a)
  PROVE  /\ \A i, j \in DOMAIN q : q[i] = q[j] => i = j
         /\ IsFiniteSet(S) /\ Cardinality(S) = Len(q) /\ Len(q) \in Nat
         /\ S \subseteq Ticket
<1>1. q \in Seq(Ticket) /\ DOMAIN q = 1 .. Len(q) /\ Len(q) \in Nat /\ \A i \in DOMAIN q : q[i] \in Ticket
  BY DEF Listing
<1>2. \A i \in DOMAIN q : a[q[i]] \in Nat
  BY <1>1 DEF Stamped
<1>3. ASSUME NEW i \in DOMAIN q, NEW j \in DOMAIN q, q[i] = q[j] PROVE i = j
  <2>1. i \in Nat /\ j \in Nat
    BY <1>1
  <2>2. ~ (i < j)
    BY <1>2, <1>3 DEF Listing
  <2>3. ~ (j < i)
    BY <1>2, <1>3 DEF Listing
  <2> QED
    BY <2>1, <2>2, <2>3
<1>4. S = Range(q)
  BY DEF Listing
<1>5. IsFiniteSet(1 .. Len(q)) /\ Cardinality(1 .. Len(q)) = Len(q)
  BY <1>1, IntervalCount
<1>6. q \in Bijection(1 .. Len(q), S)
  BY <1>1, <1>3, <1>4 DEF Bijection, Injection, Surjection, IsInjective, Range
<1>7. IsFiniteSet(S) /\ Cardinality(S) = Len(q)
  BY <1>5, <1>6, FS_Bijection DEF ExistsBijection
<1>8. S \subseteq Ticket
  BY <1>1, <1>4 DEF Range
<1> QED
  BY <1>1, <1>3, <1>7, <1>8

(* There is one sequence of the tickets of S in the order of their stamps. *)
LEMMA ListingUnique ==
  ASSUME NEW S, NEW a, Stamped(a), NEW q, Listing(q, S, a), NEW r, Listing(r, S, a)
  PROVE  q = r
<1>1. /\ q \in Seq(Ticket) /\ r \in Seq(Ticket) /\ Len(q) = Len(r) /\ Len(q) \in Nat
      /\ DOMAIN q = 1 .. Len(q) /\ DOMAIN r = 1 .. Len(q)
  <2>1. Cardinality(S) = Len(q) /\ Len(q) \in Nat
    BY ListingOnce
  <2>2. Cardinality(S) = Len(r)
    BY ListingOnce
  <2>3. q \in Seq(Ticket) /\ r \in Seq(Ticket)
    BY DEF Listing
  <2>4. DOMAIN q = 1 .. Len(q) /\ DOMAIN r = 1 .. Len(r)
    BY <2>3
  <2> QED
    BY <2>1, <2>2, <2>3, <2>4
<1> DEFINE bad == {i \in 1 .. Len(q) : q[i] # r[i]}
<1>2. bad = {}
  <2> SUFFICES ASSUME bad # {} PROVE FALSE
    OBVIOUS
  <2> DEFINE i == Min(bad)
  <2>1. i \in bad /\ \A y \in bad : i <= y
    <3>1. bad \in SUBSET Nat
      BY <1>1
    <3> QED
      BY <3>1, MinIs
  <2>2. i \in 1 .. Len(q) /\ q[i] # r[i] /\ i \in Nat
    BY <1>1, <2>1
  <2>3. \A j \in 1 .. Len(q) : j < i => q[j] = r[j]
    BY <1>1, <2>1
  <2> HIDE DEF i, bad
  <2>4. q[i] \in Range(r) /\ r[i] \in Range(q)
    BY <1>1, <2>2 DEF Listing, Range
  <2>5. PICK j \in 1 .. Len(q) : r[j] = q[i]
    BY <1>1, <2>4 DEF Range
  <2>6. PICK k \in 1 .. Len(q) : q[k] = r[i]
    BY <1>1, <2>4 DEF Range
  <2>7. /\ \A m, n \in DOMAIN q : q[m] = q[n] => m = n
        /\ \A m, n \in DOMAIN r : r[m] = r[n] => m = n
    BY ListingOnce
  <2>8. ~ (j < i) /\ j # i
    <3>1. j < i => q[j] = r[j]
      BY <2>3
    <3>2. j < i => j = i
      BY <1>1, <2>2, <2>5, <2>7, <3>1
    <3> QED
      BY <1>1, <2>2, <2>5, <3>2
  <2>9. ~ (k < i) /\ k # i
    <3>1. k < i => q[k] = r[k]
      BY <2>3
    <3>2. k < i => k = i
      BY <1>1, <2>2, <2>6, <2>7, <3>1
    <3> QED
      BY <1>1, <2>2, <2>6, <3>2
  <2>10. i < j /\ i < k
    BY <1>1, <2>2, <2>8, <2>9
  <2>11. a[r[i]] < a[r[j]] /\ a[q[i]] < a[q[k]]
    BY <1>1, <2>2, <2>10 DEF Listing
  <2>12. a[r[i]] \in Nat /\ a[q[i]] \in Nat
    BY <1>1, <2>2 DEF Stamped
  <2> QED
    BY <2>5, <2>6, <2>11, <2>12
<1> QED
  BY <1>1, <1>2, SeqEqual

(* Any listing of the tickets is the deque. *)
LEMMA DequeIs ==
  ASSUME NEW S, NEW a, Stamped(a), NEW q, Listing(q, S, a)
  PROVE  DequeOf(S, a) = q
<1>1. q \in Seq(Ticket) /\ Cardinality(S) = Len(q) /\ Len(q) \in Nat /\ DOMAIN q = 1 .. Len(q) /\ S \subseteq Ticket
  BY ListingOnce DEF Listing
<1>2. q \in [1 .. Cardinality(S) -> S]
  <2>1. \A i \in DOMAIN q : q[i] \in S
    BY DEF Listing, Range
  <2> QED
    BY <1>1, <2>1
<1>3. /\ DequeOf(S, a) \in [1 .. Cardinality(S) -> S]
      /\ Range(DequeOf(S, a)) = S
      /\ \A i, j \in DOMAIN DequeOf(S, a) : i < j => a[DequeOf(S, a)[i]] < a[DequeOf(S, a)[j]]
  BY <1>2 DEF DequeOf, Listing
<1>4. DequeOf(S, a) \in Seq(Ticket)
  BY <1>1, <1>3
<1>5. Listing(DequeOf(S, a), S, a)
  BY <1>3, <1>4 DEF Listing
<1> QED
  BY <1>5, ListingUnique

LEMMA EmptyListing ==
  ASSUME NEW a
  PROVE  Listing(<<>>, {}, a)
BY DEF Listing, Range

(* What is left of a sequence without its element i. *)
LEMMA RemoveAtIs ==
  ASSUME NEW T, NEW q \in Seq(T), NEW i \in 1 .. Len(q)
  PROVE  /\ RemoveAt(q, i) \in Seq(T) /\ Len(RemoveAt(q, i)) = Len(q) - 1
         /\ \A j \in 1 .. Len(q) - 1 : RemoveAt(q, i)[j] = IF j < i THEN q[j] ELSE q[j + 1]
<1> DEFINE b == SubSeq(q, 1, i - 1)
           e == SubSeq(q, i + 1, Len(q))
<1>1. Len(q) \in Nat /\ i \in Nat /\ 1 <= i /\ i <= Len(q)
  OBVIOUS
<1>2. b \in Seq(T) /\ Len(b) = i - 1 /\ \A j \in 1 .. i - 1 : b[j] = q[j]
  BY <1>1
<1>3. e \in Seq(T) /\ Len(e) = Len(q) - i
  BY <1>1
<1>4. \A j \in 1 .. Len(q) - i : e[j] = q[j + i]
  BY <1>1
<1> HIDE DEF b, e
<1>5. b \o e \in Seq(T) /\ Len(b \o e) = Len(q) - 1
  BY <1>1, <1>2, <1>3
<1>6. \A j \in 1 .. Len(b) + Len(e) : (b \o e)[j] = IF j <= Len(b) THEN b[j] ELSE e[j - Len(b)]
  BY <1>2, <1>3
<1>7. ASSUME NEW j \in 1 .. Len(q) - 1
      PROVE  (b \o e)[j] = IF j < i THEN q[j] ELSE q[j + 1]
  <2>1. j \in 1 .. Len(b) + Len(e)
    BY <1>1, <1>2, <1>3
  <2>2. CASE j < i
    <3>1. j \in 1 .. i - 1 /\ j <= Len(b)
      BY <1>1, <1>2, <2>2
    <3> QED
      BY <1>2, <1>6, <2>1, <2>2, <3>1
  <2>3. CASE ~ (j < i)
    <3>1. ~ (j <= Len(b)) /\ j - Len(b) \in 1 .. Len(q) - i /\ (j - Len(b)) + i = j + 1
      BY <1>1, <1>2, <2>3
    <3>2. (b \o e)[j] = e[j - Len(b)]
      BY <1>6, <2>1, <3>1
    <3>3. e[j - Len(b)] = q[(j - Len(b)) + i]
      BY <1>4, <3>1
    <3> QED
      BY <2>3, <3>1, <3>2, <3>3
  <2> QED
    BY <2>2, <2>3
<1>8. RemoveAt(q, i) = b \o e
  BY DEF RemoveAt, b, e
<1> QED
  BY <1>5, <1>7, <1>8

(* Removing a ticket leaves a listing, as deque.remove and del do. *)
LEMMA RemoveAtListing ==
  ASSUME NEW S, NEW a, Stamped(a), NEW q, Listing(q, S, a), NEW i \in DOMAIN q
  PROVE  Listing(RemoveAt(q, i), S \ {q[i]}, a)
<1> DEFINE r == RemoveAt(q, i)
           at(j) == IF j < i THEN j ELSE j + 1
<1>1. q \in Seq(Ticket) /\ DOMAIN q = 1 .. Len(q) /\ Len(q) \in Nat /\ i \in 1 .. Len(q)
  BY DEF Listing
<1>2. r \in Seq(Ticket) /\ Len(r) = Len(q) - 1 /\ DOMAIN r = 1 .. Len(q) - 1
  <2>1. r \in Seq(Ticket) /\ Len(r) = Len(q) - 1
    BY <1>1, RemoveAtIs
  <2> HIDE DEF r
  <2>2. DOMAIN r = 1 .. Len(r)
    BY <2>1
  <2> QED
    BY <2>1, <2>2
<1>3. \A j \in DOMAIN r : at(j) \in DOMAIN q /\ at(j) # i /\ r[j] = q[at(j)]
  <2>1. \A j \in 1 .. Len(q) - 1 : r[j] = IF j < i THEN q[j] ELSE q[j + 1]
    BY <1>1, RemoveAtIs
  <2> QED
    BY <1>1, <1>2, <2>1
<1>4. \A j, k \in DOMAIN r : j < k => at(j) < at(k)
  BY <1>1, <1>2
<1>5. \A k \in DOMAIN q : k # i => \E j \in DOMAIN r : at(j) = k
  <2> TAKE k \in DOMAIN q
  <2>1. CASE k < i
    BY <1>1, <1>2, <2>1
  <2>2. CASE i < k
    <3>1. k - 1 \in DOMAIN r /\ ~ (k - 1 < i) /\ (k - 1) + 1 = k
      BY <1>1, <1>2, <2>2
    <3> QED
      BY <3>1
  <2> QED
    BY <1>1, <2>1, <2>2
<1> HIDE DEF r, at
<1>6. \A k \in DOMAIN q : q[k] = q[i] => k = i
  BY <1>1, ListingOnce
<1>7. Range(r) = S \ {q[i]}
  <2>1. S = {q[k] : k \in DOMAIN q}
    BY DEF Listing, Range
  <2>2. ASSUME NEW t \in Range(r) PROVE t \in S \ {q[i]}
    BY <1>3, <1>6, <2>1, <2>2 DEF Range
  <2>3. ASSUME NEW t \in S \ {q[i]} PROVE t \in Range(r)
    <3>1. PICK k \in DOMAIN q : q[k] = t
      BY <2>1
    <3>2. PICK j \in DOMAIN r : at(j) = k
      BY <1>5, <2>3, <3>1
    <3> QED
      BY <1>3, <3>1, <3>2 DEF Range
  <2> QED
    BY <2>2, <2>3
<1>8. \A j, k \in DOMAIN r : j < k => a[r[j]] < a[r[k]]
  BY <1>3, <1>4 DEF Listing
<1>9. Listing(r, S \ {q[i]}, a)
  BY <1>2, <1>7, <1>8 DEF Listing
<1> QED
  BY <1>9 DEF r

LEMMA RemoveFirstListing ==
  ASSUME NEW S, NEW a, Stamped(a), NEW q, Listing(q, S, a), NEW t \in S
  PROVE  Listing(RemoveFirst(q, t), S \ {t}, a)
<1> DEFINE at == {i \in 1 .. Len(q) : q[i] = t}
<1>1. q \in Seq(Ticket) /\ DOMAIN q = 1 .. Len(q) /\ Len(q) \in Nat
  BY DEF Listing
<1>2. at # {} /\ at \in SUBSET Nat
  BY <1>1 DEF Listing, Range
<1>3. RemoveFirst(q, t) = RemoveAt(q, Min(at))
  BY <1>2 DEF RemoveFirst, SelectInSeq
<1>4. Min(at) \in at
  BY <1>2, MinIs
<1>5. Min(at) \in DOMAIN q /\ q[Min(at)] = t
  BY <1>1, <1>4
<1> HIDE DEF at
<1> QED
  BY <1>3, <1>5, RemoveAtListing

(* Appending a younger ticket makes a listing. *)
LEMMA AppendListing ==
  ASSUME NEW S, NEW a, Stamped(a), NEW q, Listing(q, S, a),
         NEW t \in Ticket, NEW b,
         \A u \in S : b[u] = a[u] /\ a[u] < b[t]
  PROVE  Listing(Append(q, t), S \cup {t}, b)
<1> DEFINE r == Append(q, t)
<1>1. q \in Seq(Ticket) /\ DOMAIN q = 1 .. Len(q) /\ Len(q) \in Nat
  BY DEF Listing
<1>2. /\ r \in Seq(Ticket) /\ DOMAIN r = 1 .. Len(q) + 1
      /\ r[Len(q) + 1] = t /\ \A i \in 1 .. Len(q) : r[i] = q[i]
  <2>1. r \in Seq(Ticket) /\ Len(r) = Len(q) + 1
    BY <1>1
  <2>2. r[Len(q) + 1] = t /\ \A i \in 1 .. Len(q) : r[i] = q[i]
    BY <1>1
  <2> HIDE DEF r
  <2> QED
    BY <2>1, <2>2
<1> HIDE DEF r
<1>3. S = {q[i] : i \in 1 .. Len(q)}
  BY <1>1 DEF Listing, Range
<1>4. Range(r) = S \cup {t}
  <2>1. \A i \in 1 .. Len(q) + 1 : i \in 1 .. Len(q) \/ i = Len(q) + 1
    BY <1>1
  <2>2. \A i \in 1 .. Len(q) : i \in 1 .. Len(q) + 1
    BY <1>1
  <2>3. Len(q) + 1 \in 1 .. Len(q) + 1
    BY <1>1
  <2> QED
    BY <1>2, <1>3, <2>1, <2>2, <2>3 DEF Range
<1>5. ASSUME NEW i \in DOMAIN r, NEW j \in DOMAIN r, i < j PROVE b[r[i]] < b[r[j]]
  <2>1. i \in 1 .. Len(q)
    BY <1>1, <1>2, <1>5
  <2>2. r[i] = q[i] /\ q[i] \in S
    BY <1>2, <1>3, <2>1
  <2>3. CASE j = Len(q) + 1
    BY <1>2, <2>2, <2>3
  <2>4. CASE j # Len(q) + 1
    <3>1. j \in 1 .. Len(q)
      BY <1>1, <1>2, <2>4
    <3>2. r[j] = q[j] /\ q[j] \in S
      BY <1>2, <1>3, <3>1
    <3>3. a[q[i]] < a[q[j]]
      BY <1>1, <1>5, <2>1, <3>1 DEF Listing
    <3> QED
      BY <2>2, <3>2, <3>3
  <2> QED
    BY <2>3, <2>4
<1>6. Listing(r, S \cup {t}, b)
  BY <1>2, <1>4, <1>5 DEF Listing
<1> QED
  BY <1>6 DEF r

-----------------------------------------------------------------------------
(* The while loop solves its recursive definition. *)

Pairs == Seq(Ticket) \X SUBSET Ticket
Found(d) == {i \in DOMAIN d[1] : Grantable(d[1], d[2], i)}
After(d) == <<RemoveAt(d[1], Min(Found(d))), d[2] \cup {d[1][Min(Found(d))]}>>
Pass(f, d) == IF Found(d) = {} THEN d ELSE f[After(d)]

LEMMA LoopSolves == Loop = CHOOSE f : f = [d \in Pairs |-> Pass(f, d)]
BY DEF Loop, Pairs, Pass, After, Found

(* A scan that finds a ticket stops at the first one ... *)
LEMMA FoundIs ==
  ASSUME NEW d \in Pairs, Found(d) # {}
  PROVE  Min(Found(d)) \in Found(d) /\ Min(Found(d)) \in 1 .. Len(d[1])
<1>1. d[1] \in Seq(Ticket) /\ DOMAIN d[1] = 1 .. Len(d[1]) /\ Len(d[1]) \in Nat
  BY DEF Pairs
<1>2. Found(d) \in SUBSET Nat
  BY <1>1 DEF Found
<1>3. Min(Found(d)) \in Found(d)
  BY <1>2, MinIs
<1> HIDE DEF Grantable
<1> QED
  BY <1>1, <1>3 DEF Found

(* ... and the deque is one shorter for the next scan. *)
LEMMA AfterIs ==
  ASSUME NEW d \in Pairs, Found(d) # {}
  PROVE  /\ After(d) \in Pairs
         /\ Len(d[1]) \in Nat /\ Len(After(d)[1]) = Len(d[1]) - 1 /\ Len(d[1]) - 1 \in Nat
<1>1. d[1] \in Seq(Ticket) /\ d[2] \in SUBSET Ticket /\ Len(d[1]) \in Nat
  BY DEF Pairs
<1>2. PICK i \in 1 .. Len(d[1]) : i = Min(Found(d))
  BY FoundIs
<1>3. d[1][i] \in Ticket
  BY <1>1
<1>4. RemoveAt(d[1], i) \in Seq(Ticket) /\ Len(RemoveAt(d[1], i)) = Len(d[1]) - 1
  BY <1>1, RemoveAtIs
<1>5. After(d) = <<RemoveAt(d[1], i), d[2] \cup {d[1][i]}>>
  BY <1>2 DEF After
<1>6. Len(d[1]) - 1 \in Nat
  BY <1>1, <1>2
<1> QED
  BY <1>1, <1>3, <1>4, <1>5, <1>6 DEF Pairs

(* Deques of at most n tickets. *)
UpTo(n) == {d \in Pairs : Len(d[1]) <= n}

Solves(f, n) == f = [d \in UpTo(n) |-> Pass(f, d)]

(* The recursive definition has a solution for deques of any bounded length. *)
LEMMA SolvableUpTo ==
  ASSUME NEW n \in Nat
  PROVE  \E f : Solves(f, n)
<1> DEFINE bad == {m \in Nat : ~ \E f : Solves(f, m)}
<1>1. \A d \in Pairs : Len(d[1]) \in Nat
  BY DEF Pairs
<1>2. \E f : Solves(f, 0)
  <2> DEFINE f == [d \in UpTo(0) |-> d]
  <2>1. ASSUME NEW d \in UpTo(0) PROVE Pass(f, d) = d
    <3>1. d \in Pairs /\ Len(d[1]) <= 0 /\ Len(d[1]) \in Nat
      BY <1>1 DEF UpTo
    <3>2. Found(d) = {}
      <4> SUFFICES ASSUME Found(d) # {} PROVE FALSE
        OBVIOUS
      <4>1. Len(d[1]) - 1 \in Nat
        BY <3>1, AfterIs
      <4> QED
        BY <3>1, <4>1
    <3> QED
      BY <3>2 DEF Pass
  <2> QED
    BY <2>1 DEF Solves
<1>3. ASSUME NEW m \in Nat, \E f : Solves(f, m) PROVE \E f : Solves(f, m + 1)
  <2>1. PICK f : f = [d \in UpTo(m) |-> Pass(f, d)]
    BY <1>3 DEF Solves
  <2> DEFINE g == [d \in UpTo(m + 1) |-> Pass(f, d)]
  <2>2. UpTo(m) \subseteq UpTo(m + 1)
    BY <1>1 DEF UpTo
  <2>3. ASSUME NEW d \in UpTo(m) PROVE g[d] = f[d]
    <3>1. g[d] = Pass(f, d)
      BY <2>2
    <3>2. f[d] = Pass(f, d)
      BY <2>1
    <3> QED
      BY <3>1, <3>2
  <2> HIDE DEF g
  <2>4. ASSUME NEW d \in UpTo(m + 1) PROVE Pass(f, d) = Pass(g, d)
    <3>1. CASE Found(d) = {}
      BY <3>1 DEF Pass
    <3>2. CASE Found(d) # {}
      <4>1. d \in Pairs /\ Len(d[1]) <= m + 1
        BY DEF UpTo
      <4>2. After(d) \in Pairs /\ Len(After(d)[1]) = Len(d[1]) - 1 /\ Len(d[1]) \in Nat
        BY <3>2, <4>1, AfterIs
      <4>3. After(d) \in UpTo(m)
        BY <4>1, <4>2 DEF UpTo
      <4> QED
        BY <2>3, <4>3 DEF Pass
    <3> QED
      BY <3>1, <3>2
  <2>5. g = [d \in UpTo(m + 1) |-> Pass(g, d)]
    BY <2>4 DEF g
  <2> QED
    BY <2>5 DEF Solves
<1>4. bad = {}
  <2> SUFFICES ASSUME bad # {} PROVE FALSE
    OBVIOUS
  <2>1. bad \in SUBSET Nat
    OBVIOUS
  <2>2. PICK m \in bad : \A k \in bad : m <= k
    BY <2>1, MinIs
  <2>3. m # 0 /\ m - 1 \in Nat /\ m - 1 \notin bad
    BY <1>2, <2>2
  <2>4. \E f : Solves(f, (m - 1) + 1)
    BY <1>3, <2>3
  <2> QED
    BY <2>2, <2>3, <2>4
<1> QED
  BY <1>4

(* Two solutions agree where both are defined. *)
LEMMA SolutionsAgree ==
  ASSUME NEW m \in Nat, NEW n \in Nat, NEW f, Solves(f, m), NEW g, Solves(g, n),
         NEW d \in UpTo(m), d \in UpTo(n)
  PROVE  f[d] = g[d]
<1> DEFINE both == {e \in UpTo(m) : e \in UpTo(n) /\ f[e] # g[e]}
           bad == {Len(e[1]) : e \in both}
<1>1. \A e \in both : e \in Pairs /\ Len(e[1]) \in Nat /\ Len(e[1]) <= m /\ Len(e[1]) <= n
  BY DEF UpTo, Pairs
<1>2. bad = {}
  <2> SUFFICES ASSUME bad # {} PROVE FALSE
    OBVIOUS
  <2>1. bad \in SUBSET Nat
    BY <1>1
  <2>2. PICK e \in both : \A k \in bad : Len(e[1]) <= k
    <3>1. Min(bad) \in bad /\ \A k \in bad : Min(bad) <= k
      BY <2>1, MinIs
    <3> QED
      BY <3>1
  <2>3. f[e] = Pass(f, e) /\ g[e] = Pass(g, e)
    BY DEF Solves
  <2>4. Found(e) # {}
    BY <2>2, <2>3 DEF Pass
  <2>5. f[After(e)] # g[After(e)]
    BY <2>2, <2>3, <2>4 DEF Pass
  <2>6. /\ After(e) \in Pairs /\ Len(After(e)[1]) = Len(e[1]) - 1
        /\ Len(e[1]) \in Nat /\ Len(e[1]) <= m /\ Len(e[1]) <= n
    BY <1>1, <2>2, <2>4, AfterIs
  <2>7. After(e) \in UpTo(m) /\ After(e) \in UpTo(n)
    BY <2>6 DEF UpTo
  <2>8. Len(After(e)[1]) \in bad
    BY <2>5, <2>7
  <2>9. Len(e[1]) <= Len(After(e)[1])
    BY <2>2, <2>8
  <2> QED
    BY <2>6, <2>9
<1> QED
  BY <1>2

(* The solutions for all lengths together are one for every deque. *)
LEMMA LoopAt ==
  ASSUME NEW d \in Pairs
  PROVE  Loop[d] = Pass(Loop, d)
<1> DEFINE part(n) == CHOOSE f : Solves(f, n)
           F == [e \in Pairs |-> part(Len(e[1]))[e]]
<1>1. \A n \in Nat : Solves(part(n), n)
  BY SolvableUpTo
<1>2. \A e \in Pairs : Len(e[1]) \in Nat /\ e \in UpTo(Len(e[1]))
  BY DEF Pairs, UpTo
<1>3. ASSUME NEW e \in Pairs PROVE F[e] = Pass(F, e)
  <2> DEFINE n == Len(e[1])
  <2>1. n \in Nat /\ e \in UpTo(n)
    BY <1>2
  <2>2. F[e] = part(n)[e]
    OBVIOUS
  <2>3. part(n)[e] = Pass(part(n), e)
    BY <1>1, <2>1 DEF Solves
  <2>4. CASE Found(e) = {}
    BY <2>2, <2>3, <2>4 DEF Pass
  <2>5. CASE Found(e) # {}
    <3> DEFINE a == After(e)
    <3>1. a \in Pairs /\ Len(a[1]) = n - 1 /\ n - 1 \in Nat
      BY <2>5, AfterIs
    <3>2. a \in UpTo(n) /\ a \in UpTo(n - 1)
      BY <2>1, <3>1 DEF UpTo
    <3>3. part(n)[a] = part(n - 1)[a]
      BY <1>1, <2>1, <3>1, <3>2, SolutionsAgree
    <3>4. F[a] = part(n - 1)[a]
      BY <3>1
    <3>5. Pass(part(n), e) = part(n)[a] /\ Pass(F, e) = F[a]
      BY <2>5 DEF Pass
    <3> HIDE DEF F, part, n, a
    <3> QED
      BY <2>2, <2>3, <3>3, <3>4, <3>5
  <2> QED
    BY <2>4, <2>5
<1>4. F = [e \in Pairs |-> Pass(F, e)]
  BY <1>3
<1> HIDE DEF F
<1>5. Loop = [e \in Pairs |-> Pass(Loop, e)]
  BY <1>4, LoopSolves
<1> QED
  BY <1>5


-----------------------------------------------------------------------------
(* What the loop grants.                                                    *)

(* The tickets of S that can be granted next to the admitted ones of A. *)
ReadyIn(S, A, a) ==
  {t \in S : /\ \A u \in A : ~ Clash(t, u)
             /\ \A u \in S : a[u] < a[t] => ~ Clash(t, u)}

(* A grant changes nothing for the tickets that are left. *)
LEMMA GrantKeepsReady ==
  ASSUME NEW S \in SUBSET Ticket, NEW A \in SUBSET Ticket, NEW a, Stamped(a),
         \A u, v \in S : a[u] = a[v] => u = v,
         NEW t \in ReadyIn(S, A, a)
  PROVE  ReadyIn(S \ {t}, A \cup {t}, a) = ReadyIn(S, A, a) \ {t}
<1>1. \A u, v \in Ticket : Clash(u, v) <=> Clash(v, u)
  BY DEF Clash, Conflicts
<1>2. t \in S /\ \A u \in S : u # t => a[u] < a[t] \/ a[t] < a[u]
  BY DEF ReadyIn, Stamped
<1>3. ASSUME NEW u \in ReadyIn(S \ {t}, A \cup {t}, a) PROVE u \in ReadyIn(S, A, a) \ {t}
  <2>1. u \in S /\ u # t /\ ~ Clash(u, t) /\ \A v \in A : ~ Clash(u, v)
    BY DEF ReadyIn
  <2>2. \A v \in S : a[v] < a[u] => ~ Clash(u, v)
    BY <2>1 DEF ReadyIn
  <2> QED
    BY <2>1, <2>2 DEF ReadyIn
<1>4. ASSUME NEW u \in ReadyIn(S, A, a) \ {t} PROVE u \in ReadyIn(S \ {t}, A \cup {t}, a)
  <2>1. u \in S /\ u # t /\ (\A v \in A : ~ Clash(u, v))
        /\ (\A v \in S : a[v] < a[u] => ~ Clash(u, v))
    BY DEF ReadyIn
  <2>2. \A v \in S : a[v] < a[t] => ~ Clash(t, v)
    BY DEF ReadyIn
  <2>3. ~ Clash(u, t)
    BY <1>1, <1>2, <2>1, <2>2
  <2> QED
    BY <2>1, <2>3 DEF ReadyIn
<1> QED
  BY <1>3, <1>4

(* A scan finds the tickets that are ready. *)
LEMMA FoundReady ==
  ASSUME NEW S, NEW A \in SUBSET Ticket, NEW a, Stamped(a), NEW q, Listing(q, S, a)
  PROVE  Found(<<q, A>>) = {i \in DOMAIN q : q[i] \in ReadyIn(S, A, a)}
<1>1. q \in Seq(Ticket) /\ DOMAIN q = 1 .. Len(q) /\ Len(q) \in Nat
  BY DEF Listing
<1>2. S = {q[i] : i \in DOMAIN q}
  BY DEF Listing, Range
<1>3. ASSUME NEW i \in DOMAIN q, NEW j \in DOMAIN q PROVE a[q[j]] < a[q[i]] <=> j < i
  <2>1. q[i] \in Ticket /\ q[j] \in Ticket
    BY <1>1
  <2>2. a[q[i]] \in Nat /\ a[q[j]] \in Nat
    BY <2>1 DEF Stamped
  <2>3. i \in Nat /\ j \in Nat
    BY <1>1
  <2>4. j < i => a[q[j]] < a[q[i]]
    BY DEF Listing
  <2>5. i < j => a[q[i]] < a[q[j]]
    BY DEF Listing
  <2> QED
    BY <2>2, <2>3, <2>4, <2>5
<1>4. ASSUME NEW i \in DOMAIN q
      PROVE  (\A j \in 1 .. i - 1 : ~ Clash(q[i], q[j]))
               <=> (\A u \in S : a[u] < a[q[i]] => ~ Clash(q[i], u))
  <2>1. \A j : j \in 1 .. i - 1 <=> j \in DOMAIN q /\ j < i
    BY <1>1
  <2> QED
    BY <1>2, <1>3, <2>1
<1>5. \A i \in DOMAIN q : Grantable(q, A, i) <=> q[i] \in ReadyIn(S, A, a)
  BY <1>2, <1>4 DEF Grantable, ReadyIn
<1> QED
  BY <1>5 DEF Found

(* The loop grants what is ready when it starts and keeps the rest in order. *)
Grants(q, S, A, a) ==
  /\ Loop[<<q, A>>][2] = A \cup ReadyIn(S, A, a)
  /\ Listing(Loop[<<q, A>>][1], S \ ReadyIn(S, A, a), a)
  /\ Loop[<<q, A>>] = <<Loop[<<q, A>>][1], Loop[<<q, A>>][2]>>

(* If that holds of every deque one shorter, it holds of this one. *)
LEMMA PassGrants ==
  ASSUME NEW S, NEW A \in SUBSET Ticket, NEW a, Stamped(a), NEW q, Listing(q, S, a),
         \A r \in Seq(Ticket) : \A R \in SUBSET Ticket : \A B \in SUBSET Ticket :
            Len(r) = Len(q) - 1 /\ Listing(r, R, a) => Grants(r, R, B, a)
  PROVE  Grants(q, S, A, a)
<1> DEFINE d == <<q, A>>
<1>1. q \in Seq(Ticket) /\ S \in SUBSET Ticket /\ d \in Pairs
  <2>1. q \in Seq(Ticket)
    BY DEF Listing
  <2>2. S \in SUBSET Ticket
    BY ListingOnce
  <2> QED
    BY <2>1, <2>2 DEF Pairs
<1>2. Loop[d] = Pass(Loop, d)
  BY <1>1, LoopAt
<1>3. S = {q[i] : i \in DOMAIN q}
  BY DEF Listing, Range
<1>4. Found(d) = {i \in DOMAIN q : q[i] \in ReadyIn(S, A, a)}
  BY FoundReady
<1>5. CASE Found(d) = {}
  <2>1. ReadyIn(S, A, a) = {}
    BY <1>3, <1>4, <1>5 DEF ReadyIn
  <2>2. Loop[d] = d
    BY <1>2, <1>5 DEF Pass
  <2>3. S \ {} = S /\ A \cup {} = A
    OBVIOUS
  <2> QED
    BY <2>1, <2>2, <2>3 DEF Grants
<1>6. CASE Found(d) # {}
  <2> DEFINE i == Min(Found(d))
             t == q[i]
             r == RemoveAt(q, i)
  <2>1. i \in DOMAIN q /\ t \in ReadyIn(S, A, a) /\ i \in 1 .. Len(q)
    <3>1. i \in Found(d) /\ i \in 1 .. Len(q)
      BY <1>1, <1>6, FoundIs
    <3> QED
      BY <1>4, <3>1
  <2>2. After(d) = <<r, A \cup {t}>>
    BY DEF After
  <2> HIDE DEF i, d
  <2>3. Listing(r, S \ {t}, a)
    BY <2>1, RemoveAtListing
  <2>4. r \in Seq(Ticket) /\ Len(r) = Len(q) - 1
    BY <1>1, <2>1, RemoveAtIs
  <2> HIDE DEF r
  <2>5. t \in S /\ t \in Ticket
    BY <1>1, <2>1 DEF ReadyIn
  <2>6. \A u, v \in S : a[u] = a[v] => u = v
    <3> SUFFICES ASSUME NEW u \in S, NEW v \in S, a[u] = a[v] PROVE u = v
      OBVIOUS
    <3>1. PICK m \in DOMAIN q : q[m] = u
      BY <1>3
    <3>2. PICK n \in DOMAIN q : q[n] = v
      BY <1>3
    <3>3. m \in Nat /\ n \in Nat
      BY <1>1
    <3>4. a[u] \in Nat
      BY <1>1 DEF Stamped
    <3>5. ~ (m < n) /\ ~ (n < m)
      <4>1. m < n => a[u] < a[v]
        BY <3>1, <3>2 DEF Listing
      <4>2. n < m => a[v] < a[u]
        BY <3>1, <3>2 DEF Listing
      <4> QED
        BY <3>4, <4>1, <4>2
    <3> QED
      BY <3>1, <3>2, <3>3, <3>5
  <2>7. ReadyIn(S \ {t}, A \cup {t}, a) = ReadyIn(S, A, a) \ {t}
    BY <1>1, <2>1, <2>6, GrantKeepsReady
  <2>8. Grants(r, S \ {t}, A \cup {t}, a)
    <3>1. S \ {t} \in SUBSET Ticket /\ A \cup {t} \in SUBSET Ticket
      BY <1>1, <2>5
    <3> QED
      BY <2>3, <2>4, <3>1
  <2>9. Loop[d] = Loop[<<r, A \cup {t}>>]
    BY <1>2, <1>6, <2>2 DEF Pass
  <2>10. /\ (S \ {t}) \ (ReadyIn(S, A, a) \ {t}) = S \ ReadyIn(S, A, a)
         /\ (A \cup {t}) \cup (ReadyIn(S, A, a) \ {t}) = A \cup ReadyIn(S, A, a)
    BY <2>1
  <2> HIDE DEF t
  <2>11. /\ Loop[d][2] = A \cup ReadyIn(S, A, a)
         /\ Listing(Loop[d][1], S \ ReadyIn(S, A, a), a)
         /\ Loop[d] = <<Loop[d][1], Loop[d][2]>>
    BY <2>7, <2>8, <2>9, <2>10 DEF Grants
  <2> QED
    BY <2>11 DEF Grants, d
<1> QED
  BY <1>5, <1>6

(* The loop grants what is ready at its start, for a deque of any length. *)
LEMMA LoopGrants ==
  ASSUME NEW a, Stamped(a), NEW S \in SUBSET Ticket, NEW A \in SUBSET Ticket,
         NEW q, Listing(q, S, a)
  PROVE  Grants(q, S, A, a)
<1> DEFINE Wrong(r) == \E R \in SUBSET Ticket : \E B \in SUBSET Ticket :
                         Listing(r, R, a) /\ ~ Grants(r, R, B, a)
           bad == {Len(r) : r \in {r \in Seq(Ticket) : Wrong(r)}}
<1>1. bad = {}
  <2> SUFFICES ASSUME bad # {} PROVE FALSE
    OBVIOUS
  <2>1. bad \in SUBSET Nat
    OBVIOUS
  <2>2. Min(bad) \in bad /\ \A k \in bad : Min(bad) <= k
    BY <2>1, MinIs
  <2>3. PICK r \in Seq(Ticket) : Wrong(r) /\ \A k \in bad : Len(r) <= k
    BY <2>2
  <2>4. \A s \in Seq(Ticket) : Len(s) = Len(r) - 1 => ~ Wrong(s)
    <3> SUFFICES ASSUME NEW s \in Seq(Ticket), Len(s) = Len(r) - 1, Wrong(s) PROVE FALSE
      OBVIOUS
    <3>1. Len(s) \in bad
      OBVIOUS
    <3>2. Len(r) <= Len(s)
      BY <2>3, <3>1
    <3>3. Len(r) \in Nat
      OBVIOUS
    <3> QED
      BY <3>2, <3>3
  <2>5. PICK R \in SUBSET Ticket, B \in SUBSET Ticket : Listing(r, R, a) /\ ~ Grants(r, R, B, a)
    BY <2>3
  <2> HIDE DEF bad
  <2> QED
    BY <2>4, <2>5, PassGrants
<1>2. q \in Seq(Ticket)
  BY DEF Listing
<1> QED
  BY <1>1, <1>2


-----------------------------------------------------------------------------
(* The filter at the start of the call. *)

FilterStep(q, f, n) ==
  IF n = 0 THEN <<>>
  ELSE IF granted[q[n]] = "cancelled" THEN f[n - 1] ELSE Append(f[n - 1], q[n])

Filter(q) == CHOOSE f : f = [n \in 0 .. Len(q) |-> FilterStep(q, f, n)]

LEMMA LiveIsFilter ==
  ASSUME NEW q
  PROVE  Live(q) = Filter(q)[Len(q)]
BY DEF Live, Filter, FilterStep

(* The filter solves its recursive definition. *)
LEMMA FilterAt ==
  ASSUME NEW q \in Seq(Ticket), NEW n \in 0 .. Len(q)
  PROVE  Filter(q)[n] = FilterStep(q, Filter(q), n)
<1> DEFINE Fills(f, m) == f = [k \in 0 .. m |-> FilterStep(q, f, k)]
           bad == {m \in Nat : ~ \E f : Fills(f, m)}
<1>1. \E f : Fills(f, 0)
  <2> DEFINE f == [k \in 0 .. 0 |-> <<>>]
  <2>1. \A k \in 0 .. 0 : FilterStep(q, f, k) = <<>>
    BY DEF FilterStep
  <2>2. f = [k \in 0 .. 0 |-> FilterStep(q, f, k)]
    BY <2>1
  <2> QED
    BY <2>2
<1>2. ASSUME NEW m \in Nat, \E f : Fills(f, m) PROVE \E f : Fills(f, m + 1)
  <2>1. PICK f : f = [k \in 0 .. m |-> FilterStep(q, f, k)]
    BY <1>2
  <2> DEFINE g == [k \in 0 .. m + 1 |-> FilterStep(q, f, k)]
  <2>2. ASSUME NEW k \in 0 .. m PROVE g[k] = f[k]
    <3>1. k \in 0 .. m + 1
      OBVIOUS
    <3>2. g[k] = FilterStep(q, f, k)
      BY <3>1
    <3>3. f[k] = FilterStep(q, f, k)
      BY <2>1
    <3> QED
      BY <3>2, <3>3
  <2> HIDE DEF g
  <2>3. ASSUME NEW k \in 0 .. m + 1 PROVE FilterStep(q, f, k) = FilterStep(q, g, k)
    <3>1. CASE k = 0
      BY <3>1 DEF FilterStep
    <3>2. CASE k # 0
      <4>1. k - 1 \in 0 .. m
        BY <3>2
      <4>2. g[k - 1] = f[k - 1]
        BY <2>2, <4>1
      <4> QED
        BY <4>2 DEF FilterStep
    <3> QED
      BY <3>1, <3>2
  <2>4. g = [k \in 0 .. m + 1 |-> FilterStep(q, g, k)]
    BY <2>3 DEF g
  <2> QED
    BY <2>4
<1>3. bad = {}
  <2> SUFFICES ASSUME bad # {} PROVE FALSE
    OBVIOUS
  <2>1. bad \in SUBSET Nat
    OBVIOUS
  <2>2. PICK m \in bad : \A k \in bad : m <= k
    <3>1. Min(bad) \in bad /\ \A k \in bad : Min(bad) <= k
      BY <2>1, MinIs
    <3> QED
      BY <3>1
  <2> HIDE DEF Fills
  <2>3. m # 0 /\ m - 1 \in Nat /\ m - 1 \notin bad
    BY <1>1, <2>2
  <2>4. \E f : Fills(f, (m - 1) + 1)
    BY <1>2, <2>3
  <2> QED
    BY <2>2, <2>3, <2>4
<1>4. \E f : f = [k \in 0 .. Len(q) |-> FilterStep(q, f, k)]
  <2>1. Len(q) \in Nat
    OBVIOUS
  <2> QED
    BY <1>3, <2>1
<1> DEFINE F == Filter(q)
<1>5. F = [k \in 0 .. Len(q) |-> FilterStep(q, F, k)]
  BY <1>4 DEF Filter
<1> HIDE DEF F
<1>6. F[n] = FilterStep(q, F, n)
  BY <1>5
<1> QED
  BY <1>6 DEF F

(* The tickets of the first n places whose future is not cancelled. *)
LiveUpTo(q, n) == {t \in Ticket : granted[t] # "cancelled" /\ \E i \in 1 .. n : q[i] = t}

(* The filter keeps the order, and drops the cancelled tickets only. *)
LEMMA LiveListing ==
  ASSUME NEW S, NEW a, Stamped(a), NEW q, Listing(q, S, a)
  PROVE  Listing(Live(q), {t \in S : granted[t] # "cancelled"}, a)
<1>1. q \in Seq(Ticket) /\ DOMAIN q = 1 .. Len(q) /\ Len(q) \in Nat /\ \A i \in 1 .. Len(q) : q[i] \in Ticket
  BY DEF Listing
<1> DEFINE Agrees(n) == Listing(Filter(q)[n], LiveUpTo(q, n), a)
           bad == {n \in 0 .. Len(q) : ~ Agrees(n)}
<1>2. bad = {}
  <2> SUFFICES ASSUME bad # {} PROVE FALSE
    OBVIOUS
  <2>1. bad \in SUBSET Nat
    BY <1>1
  <2>2. PICK n \in 0 .. Len(q) : ~ Agrees(n) /\ \A k \in bad : n <= k
    <3>1. Min(bad) \in bad /\ \A k \in bad : Min(bad) <= k
      BY <2>1, MinIs
    <3> QED
      BY <3>1
  <2>3. Filter(q)[n] = FilterStep(q, Filter(q), n)
    BY <1>1, FilterAt
  <2>4. CASE n = 0
    <3>1. Filter(q)[n] = <<>>
      BY <2>3, <2>4 DEF FilterStep
    <3>2. LiveUpTo(q, n) = {}
      <4>1. 1 .. n = {}
        BY <2>4
      <4> QED
        BY <4>1 DEF LiveUpTo
    <3>3. Listing(<<>>, {}, a)
      BY EmptyListing
    <3> QED
      BY <2>2, <3>1, <3>2, <3>3
  <2>5. CASE n # 0
    <3> DEFINE before == Filter(q)[n - 1]
               U == LiveUpTo(q, n - 1)
               t == q[n]
    <3>1. n - 1 \in 0 .. Len(q) /\ n \in 1 .. Len(q) /\ n \in Nat
      BY <1>1, <2>5
    <3>2. n - 1 \notin bad
      BY <2>2, <3>1
    <3>3. Listing(before, U, a)
      BY <3>1, <3>2
    <3>4. t \in Ticket
      BY <1>1, <3>1
    <3>5. \A i : i \in 1 .. n <=> i \in 1 .. n - 1 \/ i = n
      BY <3>1
    <3>6. CASE granted[t] = "cancelled"
      <4>1. LiveUpTo(q, n) = U
        BY <3>5, <3>6 DEF LiveUpTo
      <4>2. Filter(q)[n] = before
        BY <2>3, <2>5, <3>6 DEF FilterStep
      <4> QED
        BY <2>2, <3>3, <4>1, <4>2
    <3>7. CASE granted[t] # "cancelled"
      <4>1. LiveUpTo(q, n) = U \cup {t}
        BY <3>4, <3>5, <3>7 DEF LiveUpTo
      <4>2. Filter(q)[n] = Append(before, t)
        BY <2>3, <2>5, <3>7 DEF FilterStep
      <4>3. \A u \in U : a[u] < a[t]
        <5> TAKE u \in U
        <5>1. PICK i \in 1 .. n - 1 : q[i] = u
          BY DEF LiveUpTo
        <5>2. i \in DOMAIN q /\ n \in DOMAIN q /\ i < n
          BY <1>1, <3>1
        <5> QED
          BY <5>1, <5>2 DEF Listing
      <4> HIDE DEF before, U, t
      <4>4. Listing(Append(before, t), U \cup {t}, a)
        BY <3>3, <3>4, <4>3, AppendListing
      <4> QED
        BY <2>2, <4>1, <4>2, <4>4
    <3> QED
      BY <3>6, <3>7
  <2> QED
    BY <2>4, <2>5
<1>3. Agrees(Len(q))
  BY <1>1, <1>2
<1>4. LiveUpTo(q, Len(q)) = {t \in S : granted[t] # "cancelled"}
  <2>1. S = {q[i] : i \in 1 .. Len(q)}
    BY <1>1 DEF Listing, Range
  <2> QED
    BY <1>1, <2>1 DEF LiveUpTo
<1> QED
  BY <1>3, <1>4, LiveIsFilter

-----------------------------------------------------------------------------
(* The call of the loop and the step of the model. *)

(* _schedule_ready, called with a deque of the tickets of Q, returns a deque *)
(* and an admitted set that are those of the closed form.                  *)
LEMMA CallReturns ==
  ASSUME NEW Q \in SUBSET Ticket, NEW A \in SUBSET Ticket, NEW q,
         Listing(q, Q, arrival'), Stamped(arrival'), NEW fut,
         \A t \in Q : fut[t] = "cancelled" <=> granted[t] = "cancelled",
         ScheduleReady(Q, A, fut)
  PROVE  /\ LoopResult(q, A) = <<Deque', active'>>
         /\ Listing(Deque', pending', arrival')
<1> DEFINE live  == {t \in Q : granted[t] # "cancelled"}
           ready == {t \in live : IsReady(t, live, A)}
           p     == Live(q)
<1>1. live = {t \in Q : fut[t] # "cancelled"}
  OBVIOUS
<1>2. pending' = live \ ready /\ active' = A \cup ready
  BY <1>1 DEF ScheduleReady
<1>3. ready = ReadyIn(live, A, arrival')
  BY DEF ReadyIn, IsReady
<1>4. Listing(p, live, arrival')
  BY LiveListing
<1> HIDE DEF p, ready
<1>5. live \in SUBSET Ticket
  OBVIOUS
<1> HIDE DEF live
<1>6. Grants(p, live, A, arrival')
  BY <1>4, <1>5, LoopGrants
<1> DEFINE r == Loop[<<p, A>>][1]
<1>7. Listing(r, pending', arrival') /\ Loop[<<p, A>>] = <<r, active'>>
  BY <1>2, <1>3, <1>6 DEF Grants
<1> HIDE DEF r
<1>8. Deque' = DequeOf(pending', arrival')
  BY DEF Deque, DequeOf, Older
<1>9. Deque' = r
  BY <1>7, <1>8, DequeIs
<1> QED
  BY <1>7, <1>9 DEF LoopResult, p

(* Every queue can be listed in the order of arrival. *)
Listed == \E q : Listing(q, pending, arrival)

(* The deque of the model is the queue in the order of arrival. *)
LEMMA DequeListing ==
  ASSUME Inv, Listed
  PROVE  Listing(Deque, pending, arrival) /\ Stamped(arrival)
<1>1. Stamped(arrival)
  BY DEF Inv, TypeOK, Stamped
<1>2. PICK q : Listing(q, pending, arrival)
  BY DEF Listed
<1>3. Deque = DequeOf(pending, arrival)
  BY DEF Deque, DequeOf, Older
<1> QED
  BY <1>1, <1>2, <1>3, DequeIs

(* LoopReturnsThat, of one ticket. *)
Calls(t) ==
  /\ (pc[t] = "new" /\ pc'[t] # "new") =>
       <<Deque', active'>> = LoopResult(Append(Deque, t), active)
  /\ (pc[t] # "left" /\ pc'[t] = "left" /\ t \in pending \cup active) =>
       <<Deque', active'>> = LoopResult(RemoveFirst(Deque, t), active \ {t})

(* The call made by a ticket that arrives ... *)
LEMMA EnterCalls ==
  ASSUME Inv, Listed, NEW t \in Ticket, Enter(t)
  PROVE  Listed' /\ \A u \in Ticket : Calls(u)
<1> DEFINE q == Append(Deque, t)
           fut == [granted EXCEPT ![t] = "pending"]
<1>1. /\ pc[t] = "new" /\ t \notin pending \cup active /\ granted[t] = "none"
      /\ arrival' = [arrival EXCEPT ![t] = clock + 1]
      /\ pc' = [pc EXCEPT ![t] = IF t \in active' THEN "body" ELSE "waiting"]
      /\ ScheduleReady(pending \cup {t}, active, fut)
  BY DEF Enter, Inv, Places, TypeOK
<1>2. Inv'
  BY EnterInv
<1>3. Stamped(arrival')
  BY <1>2 DEF Inv, TypeOK, Stamped
<1>4. \A u \in pending : arrival'[u] = arrival[u] /\ arrival[u] < arrival'[t]
  BY <1>1 DEF Inv, TypeOK, Stamps
<1>5. pending \cup {t} \in SUBSET Ticket /\ active \in SUBSET Ticket
  BY DEF Inv, TypeOK
<1>6. Listing(q, pending \cup {t}, arrival')
  BY <1>4, DequeListing, AppendListing
<1>7. \A u \in pending \cup {t} : fut[u] = "cancelled" <=> granted[u] = "cancelled"
  BY <1>1, <1>5 DEF Inv, TypeOK
<1> HIDE DEF q, fut
<1>8. LoopResult(q, active) = <<Deque', active'>> /\ Listing(Deque', pending', arrival')
  BY <1>1, <1>3, <1>5, <1>6, <1>7, CallReturns
<1>9. Listed'
  BY <1>8 DEF Listed
<1>10. ASSUME NEW u \in Ticket PROVE Calls(u)
  <2>1. u # t => pc'[u] = pc[u]
    BY <1>1 DEF Inv, TypeOK
  <2>2. pc'[t] # "left"
    BY <1>1 DEF Inv, TypeOK
  <2> QED
    BY <1>1, <1>8, <2>1, <2>2 DEF Calls, q
<1> QED
  BY <1>9, <1>10

(* ... and by one that gives its place back. *)
LEMMA LeaveCalls ==
  ASSUME Inv, Listed, NEW t \in Ticket, pc[t] \in {"waiting", "body"}, Leave(t)
  PROVE  Listed' /\ \A u \in Ticket : Calls(u)
<1>1. arrival' = arrival /\ pc' = [pc EXCEPT ![t] = "left"]
  BY DEF Leave
<1>2. /\ pc \in [Ticket -> {"new", "waiting", "body", "left"}]
      /\ pending \in SUBSET Ticket /\ active \in SUBSET Ticket /\ pending \cap active = {}
  BY DEF Inv, TypeOK, Lists
<1>3. Listing(Deque, pending, arrival) /\ Stamped(arrival)
  BY DequeListing
<1> DEFINE q == RemoveFirst(Deque, t)
<1>4. t \in pending => Listing(q, pending \ {t}, arrival)
  BY <1>3, RemoveFirstListing
<1>5. t \notin pending => q = Deque /\ pending \ {t} = pending
  <2>1. t \notin pending => ~ \E i \in 1 .. Len(Deque) : Deque[i] = t
    BY <1>3 DEF Listing, Range
  <2> QED
    BY <2>1 DEF RemoveFirst
<1> HIDE DEF q
<1>6. Listing(q, pending \ {t}, arrival')
  BY <1>1, <1>3, <1>4, <1>5
<1>7. CASE t \in pending \cup active
  <2>1. ScheduleReady(pending \ {t}, active \ {t}, granted)
    <3>1. CASE t \in pending
      <4>1. active \ {t} = active
        BY <1>2, <3>1
      <4> QED
        BY <3>1, <4>1 DEF Leave
    <3>2. CASE t \notin pending
      BY <1>5, <1>7, <3>2 DEF Leave
    <3> QED
      BY <3>1, <3>2
  <2>2. pending \ {t} \in SUBSET Ticket /\ active \ {t} \in SUBSET Ticket
    BY <1>2
  <2>3. LoopResult(q, active \ {t}) = <<Deque', active'>> /\ Listing(Deque', pending', arrival')
    BY <1>1, <1>3, <1>6, <2>1, <2>2, CallReturns
  <2>4. Listed'
    BY <2>3 DEF Listed
  <2>5. ASSUME NEW u \in Ticket PROVE Calls(u)
    BY <1>1, <1>2, <2>3 DEF Calls, q
  <2> QED
    BY <2>4, <2>5
<1>8. CASE t \notin pending \cup active
  <2>1. pending' = pending
    BY <1>8 DEF Leave
  <2>2. Listed'
    BY <1>1, <2>1 DEF Listed
  <2>3. ASSUME NEW u \in Ticket PROVE Calls(u)
    BY <1>1, <1>2, <1>8 DEF Calls
  <2> QED
    BY <2>2, <2>3
<1> QED
  BY <1>7, <1>8

LEMMA StepCalls ==
  ASSUME Inv, Listed, [Next]_vars
  PROVE  Listed' /\ \A u \in Ticket : Calls(u)
<1>1. ASSUME NEW t \in Ticket, Enter(t) PROVE Listed' /\ \A u \in Ticket : Calls(u)
  BY <1>1, EnterCalls
<1>2. ASSUME NEW t \in Ticket, Withdraw(t) \/ Exit(t) PROVE Listed' /\ \A u \in Ticket : Calls(u)
  BY <1>2, LeaveCalls DEF Withdraw, Exit
<1>3. ASSUME pending' = pending, arrival' = arrival,
             \A u \in Ticket : pc'[u] = pc[u] \/ (pc[u] = "waiting" /\ pc'[u] = "body")
      PROVE  Listed' /\ \A u \in Ticket : Calls(u)
  BY <1>3 DEF Listed, Calls
<1>4. ASSUME NEW t \in Ticket, Resume(t) \/ CancelWaiting(t)
      PROVE  /\ pending' = pending /\ arrival' = arrival
             /\ \A u \in Ticket : pc'[u] = pc[u] \/ (pc[u] = "waiting" /\ pc'[u] = "body")
  BY <1>4 DEF Resume, CancelWaiting, Inv, TypeOK
<1>5. CASE AllLeft \/ UNCHANGED vars
  BY <1>3, <1>5 DEF AllLeft, vars
<1> QED
  BY <1>1, <1>2, <1>3, <1>4, <1>5 DEF Next

LEMMA InitListed == Init => Listed
<1>1. Init => pending = {}
  BY DEF Init
<1>2. Listing(<<>>, {}, arrival)
  BY EmptyListing
<1> QED
  BY <1>1, <1>2 DEF Listed

(* Every call of _schedule_ready, whatever the order of its restarts, admits *)
(* exactly the tickets of the closed form of module CapabilityScheduler    *)
(* and leaves the others queued in their order of arrival.                 *)
THEOREM LoopReturnsThatHolds == Spec => LoopReturnsThat
<1>1. Init => Inv /\ Listed
  BY InitInv, InitListed
<1>2. Inv /\ Listed /\ [Next]_vars => Inv' /\ Listed'
  BY NextInv, StepCalls
<1>3. Inv /\ Listed /\ [Next]_vars =>
        [\A t \in Ticket :
           /\ (pc[t] = "new" /\ pc'[t] # "new") =>
                <<Deque', active'>> = LoopResult(Append(Deque, t), active)
           /\ (pc[t] # "left" /\ pc'[t] = "left" /\ t \in pending \cup active) =>
                <<Deque', active'>> = LoopResult(RemoveFirst(Deque, t), active \ {t})]_vars
  BY StepCalls DEF Calls
<1> QED
  BY <1>1, <1>2, <1>3, PTL DEF Spec, LoopReturnsThat

=============================================================================
