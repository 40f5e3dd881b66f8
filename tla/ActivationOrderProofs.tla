------------------------ MODULE ActivationOrderProofs ------------------------
(***************************************************************************)
(* Lemmas about LeastOrder for any finite set of ids: it solves its        *)
(* recursive definition, and what it returns respects the requirements.    *)
(* The proofs about ExtensionResolver and ExtensionHost both rest on it.   *)
(*                                                                         *)
(* Induction over the ids left to place is done by taking a least          *)
(* counterexample: the set of the numbers of ids for which a claim is      *)
(* wrong has a least element, unless it is empty.                          *)
(***************************************************************************)
EXTENDS ActivationOrder, FiniteSetTheorems, SequenceTheorems, TLAPS

NoRepetition(s) == \A j, k \in DOMAIN s : s[j] = s[k] => j = k

-----------------------------------------------------------------------------
(* Least numbers, and the elements of a sequence.                           *)

Less == {p \in Nat \X Nat : p[1] < p[2]}

LEMMA LessIsWellFounded == IsWellFoundedOn(Less, Nat)
  BY NatLessThanWellFounded, Zenon DEF OpToRel, Less

LEMMA MinIs ==
  ASSUME NEW S \in SUBSET Nat, S # {}
  PROVE  Min(S) \in S /\ \A y \in S : Min(S) <= y
<1>1. PICK x \in S : \A y \in S : ~ (<<y, x>> \in Less)
  BY LessIsWellFounded, WFMin
<1>2. \A y \in S : x <= y
  <2> TAKE y \in S
  <2>1. x \in Nat /\ y \in Nat /\ ~ (<<y, x>> \in Less)
    BY <1>1
  <2> QED
    BY <2>1 DEF Less
<1> QED
  BY <1>2 DEF Min

LEMMA RangeAppend ==
  ASSUME NEW S, NEW s \in Seq(S), NEW e \in S
  PROVE  Range(Append(s, e)) = Range(s) \cup {e}
<1>1. /\ Append(s, e) \in Seq(S) /\ Len(Append(s, e)) = Len(s) + 1
      /\ Append(s, e)[Len(s) + 1] = e /\ \A k \in 1 .. Len(s) : Append(s, e)[k] = s[k]
  OBVIOUS
<1>2. DOMAIN s = 1 .. Len(s) /\ DOMAIN Append(s, e) = 1 .. Len(s) + 1 /\ Len(s) \in Nat
  BY <1>1
<1>3. \A k : k \in 1 .. Len(s) + 1 <=> k \in 1 .. Len(s) \/ k = Len(s) + 1
  BY <1>2
<1> QED
  BY <1>1, <1>2, <1>3 DEF Range

LEMMA NoRepetitionAppend ==
  ASSUME NEW S, NEW s \in Seq(S), NEW e \in S, NoRepetition(s), e \notin Range(s)
  PROVE  NoRepetition(Append(s, e))
BY DEF NoRepetition, Range

LEMMA IntervalCount ==
  ASSUME NEW n \in Nat
  PROVE  IsFiniteSet(1 .. n) /\ Cardinality(1 .. n) = n
<1>1. /\ IsFiniteSet(1 .. n)
      /\ Cardinality(1 .. n) = IF 1 > n THEN 0 ELSE n - 1 + 1
  BY FS_Interval
<1> QED
  BY <1>1

LEMMA NoRepetitionCount ==
  ASSUME NEW S, NEW s \in Seq(S), NoRepetition(s)
  PROVE  IsFiniteSet(Range(s)) /\ Cardinality(Range(s)) = Len(s)
<1>1. DOMAIN s = 1 .. Len(s) /\ Len(s) \in Nat
  OBVIOUS
<1>2. IsFiniteSet(1 .. Len(s)) /\ Cardinality(1 .. Len(s)) = Len(s)
  BY <1>1, IntervalCount
<1>3. s \in Bijection(1 .. Len(s), Range(s))
  BY <1>1 DEF Bijection, Injection, Surjection, IsInjective, NoRepetition, Range
<1> QED
  BY <1>2, <1>3, FS_Bijection DEF ExistsBijection
-----------------------------------------------------------------------------
Could(ids, req, placed) == {i \in ids \ placed : req[i] \subseteq placed}

(* One unfolding of From, in LeastOrder. *)
Unfold(ids, req, f, placed) ==
  IF Could(ids, req, placed) = {} THEN <<>>
  ELSE <<Min(Could(ids, req, placed))>> \o f[placed \cup {Min(Could(ids, req, placed))}]

From(ids, req) == CHOOSE f : f = [placed \in SUBSET ids |-> Unfold(ids, req, f, placed)]

LEMMA LeastOrderIs ==
  ASSUME NEW ids, NEW req
  PROVE  LeastOrder(ids, req) = From(ids, req)[{}]
BY DEF LeastOrder, From, Unfold, Could

(* Sets of ids that leave at most n of them to place. *)
Leaving(ids, n) == {placed \in SUBSET ids : Cardinality(ids \ placed) <= n}

LEMMA CouldIs ==
  ASSUME NEW ids \in SUBSET Nat, IsFiniteSet(ids), NEW req, NEW placed \in SUBSET ids,
         Could(ids, req, placed) # {}
  PROVE  LET m == Min(Could(ids, req, placed)) IN
           /\ m \in ids \ placed /\ placed \cup {m} \in SUBSET ids
           /\ Cardinality(ids \ placed) \in Nat
           /\ Cardinality(ids \ (placed \cup {m})) = Cardinality(ids \ placed) - 1
<1> DEFINE m == Min(Could(ids, req, placed))
<1>1. Could(ids, req, placed) \in SUBSET Nat
  BY DEF Could
<1>2. m \in ids \ placed
  BY <1>1, MinIs DEF Could
<1> HIDE DEF m
<1>3. IsFiniteSet(ids \ placed) /\ ids \ placed \in SUBSET ids
  BY FS_Subset
<1>4. ids \ (placed \cup {m}) = (ids \ placed) \ {m}
  OBVIOUS
<1>5. /\ placed \cup {m} \in SUBSET ids
      /\ Cardinality(ids \ placed) \in Nat
      /\ Cardinality(ids \ (placed \cup {m})) = Cardinality(ids \ placed) - 1
  <2>1. Cardinality(ids \ placed) \in Nat
    BY <1>3, FS_CardinalityType
  <2>2. Cardinality((ids \ placed) \ {m}) = Cardinality(ids \ placed) - 1
    BY <1>2, <1>3, FS_RemoveElement
  <2> QED
    BY <1>2, <1>4, <2>1, <2>2
<1> QED
  BY <1>2, <1>5 DEF m

(* The recursive definition of From has a solution, found for more and more *)
(* ids left to place.                                                      *)
LEMMA FromExists ==
  ASSUME NEW ids \in SUBSET Nat, IsFiniteSet(ids), NEW req
  PROVE  \E f : f = [placed \in SUBSET ids |-> Unfold(ids, req, f, placed)]
<1> DEFINE Solved(n) == \E f : f = [placed \in Leaving(ids, n) |-> Unfold(ids, req, f, placed)]
           bad == {n \in Nat : ~ Solved(n)}
<1>1. Cardinality(ids) \in Nat
  BY FS_CardinalityType
<1>2. \A placed \in SUBSET ids : Cardinality(ids \ placed) \in Nat /\ Cardinality(ids \ placed) <= Cardinality(ids)
  <2> TAKE placed \in SUBSET ids
  <2>1. ids \ placed \in SUBSET ids
    OBVIOUS
  <2> QED
    BY <2>1, FS_Subset, FS_CardinalityType
<1>3. Leaving(ids, Cardinality(ids)) = SUBSET ids
  BY <1>2 DEF Leaving
<1>4. Solved(0)
  <2> DEFINE f == [placed \in Leaving(ids, 0) |-> <<>>]
  <2>1. ASSUME NEW placed \in Leaving(ids, 0) PROVE Unfold(ids, req, f, placed) = <<>>
    <3>1. CASE Could(ids, req, placed) # {}
      <4> DEFINE m == Min(Could(ids, req, placed))
      <4>1. placed \in SUBSET ids /\ Cardinality(ids \ placed) <= 0
        BY DEF Leaving
      <4>2. placed \cup {m} \in SUBSET ids /\ Cardinality(ids \ placed) \in Nat
            /\ Cardinality(ids \ (placed \cup {m})) = Cardinality(ids \ placed) - 1
        BY <3>1, <4>1, CouldIs
      <4> DEFINE c == Cardinality(ids \ placed)
                 d == Cardinality(ids \ (placed \cup {m}))
      <4>3. d \in Nat
        BY <1>2, <4>2
      <4>4. c \in Nat /\ c <= 0 /\ d = c - 1
        BY <4>1, <4>2
      <4> HIDE DEF c, d
      <4> QED
        BY <4>3, <4>4
    <3> QED
      BY <3>1 DEF Unfold
  <2>2. f = [placed \in Leaving(ids, 0) |-> Unfold(ids, req, f, placed)]
    BY <2>1
  <2> QED
    BY <2>2
<1>5. ASSUME NEW n \in Nat, Solved(n) PROVE Solved(n + 1)
  <2>1. PICK f : f = [placed \in Leaving(ids, n) |-> Unfold(ids, req, f, placed)]
    BY <1>5
  <2> DEFINE g == [placed \in Leaving(ids, n + 1) |-> Unfold(ids, req, f, placed)]
  <2>2. Leaving(ids, n) \subseteq Leaving(ids, n + 1)
    BY <1>2 DEF Leaving
  <2>3. \A placed \in Leaving(ids, n) : g[placed] = f[placed]
    <3> TAKE placed \in Leaving(ids, n)
    <3>1. g[placed] = Unfold(ids, req, f, placed)
      BY <2>2
    <3>2. f[placed] = Unfold(ids, req, f, placed)
      BY <2>1
    <3> QED
      BY <3>1, <3>2
  <2> HIDE DEF g
  <2>4. ASSUME NEW placed \in Leaving(ids, n + 1)
        PROVE  Unfold(ids, req, f, placed) = Unfold(ids, req, g, placed)
    <3>1. CASE Could(ids, req, placed) = {}
      BY <3>1 DEF Unfold
    <3>2. CASE Could(ids, req, placed) # {}
      <4> DEFINE m == Min(Could(ids, req, placed))
      <4>1. placed \cup {m} \in Leaving(ids, n)
        BY <1>2, <3>2, CouldIs DEF Leaving
      <4> QED
        BY <2>3, <4>1 DEF Unfold
    <3> QED
      BY <3>1, <3>2
  <2>5. g = [placed \in Leaving(ids, n + 1) |-> Unfold(ids, req, g, placed)]
    BY <2>4 DEF g
  <2> QED
    BY <2>5
<1>6. bad = {}
  <2> SUFFICES ASSUME bad # {} PROVE FALSE
    OBVIOUS
  <2>1. bad \in SUBSET Nat
    OBVIOUS
  <2>2. PICK n \in bad : \A k \in bad : n <= k
    <3>1. Min(bad) \in bad /\ \A k \in bad : Min(bad) <= k
      BY <2>1, MinIs
    <3> QED
      BY <3>1
  <2> HIDE DEF Solved
  <2>3. n # 0 /\ n - 1 \in Nat /\ n - 1 \notin bad
    BY <1>4, <2>2
  <2>4. Solved((n - 1) + 1)
    BY <1>5, <2>3
  <2> QED
    BY <2>2, <2>3, <2>4
<1>7. Solved(Cardinality(ids))
  BY <1>1, <1>6
<1> QED
  BY <1>3, <1>7

LEMMA FromIs ==
  ASSUME NEW ids \in SUBSET Nat, IsFiniteSet(ids), NEW req, NEW placed \in SUBSET ids
  PROVE  From(ids, req)[placed] = Unfold(ids, req, From(ids, req), placed)
<1> DEFINE F == From(ids, req)
<1>1. F = [p \in SUBSET ids |-> Unfold(ids, req, F, p)]
  BY FromExists DEF From
<1> HIDE DEF F
<1>2. F[placed] = Unfold(ids, req, F, placed)
  BY <1>1
<1> QED
  BY <1>2 DEF F

(* A sequence that places ids that are not placed yet, each once and after  *)
(* its requirements.                                                       *)
Respects(ids, req, placed, s) ==
  /\ s \in Seq(ids \ placed)
  /\ NoRepetition(s)
  /\ \A k \in DOMAIN s : req[s[k]] \subseteq placed \cup {s[j] : j \in 1 .. k - 1}

LEMMA OneMoreRespects ==
  ASSUME NEW ids, NEW req, NEW placed, NEW m \in ids \ placed, req[m] \subseteq placed,
         NEW t, Respects(ids, req, placed \cup {m}, t)
  PROVE  Respects(ids, req, placed, <<m>> \o t)
<1> DEFINE rest == ids \ (placed \cup {m})
           s == <<m>> \o t
<1>1. t \in Seq(rest) /\ NoRepetition(t) /\ m \notin rest /\ rest \subseteq ids \ placed
  BY DEF Respects
<1>2. \A k \in DOMAIN t : req[t[k]] \subseteq (placed \cup {m}) \cup {t[j] : j \in 1 .. k - 1}
  BY DEF Respects
<1>3. t \in Seq(ids \ placed) /\ <<m>> \in Seq(ids \ placed)
  BY <1>1
<1>4. /\ s \in Seq(ids \ placed) /\ Len(s) = Len(t) + 1 /\ s[1] = m
      /\ \A k \in 1 .. Len(t) : s[k + 1] = t[k]
  BY <1>3
<1>5. DOMAIN s = 1 .. Len(t) + 1 /\ DOMAIN t = 1 .. Len(t) /\ Len(t) \in Nat
  BY <1>1, <1>4
<1>6. \A k \in 1 .. Len(t) : t[k] \in rest
  BY <1>1
<1> HIDE DEF s, rest
<1>7. \A k \in 2 .. Len(t) + 1 : k - 1 \in 1 .. Len(t) /\ s[k] = t[k - 1]
  <2> TAKE k \in 2 .. Len(t) + 1
  <2>1. k - 1 \in 1 .. Len(t) /\ (k - 1) + 1 = k
    BY <1>5
  <2>2. s[(k - 1) + 1] = t[k - 1]
    BY <1>4, <2>1
  <2> QED
    BY <2>1, <2>2
<1>8. NoRepetition(s)
  <2> SUFFICES ASSUME NEW j \in DOMAIN s, NEW k \in DOMAIN s, s[j] = s[k] PROVE j = k
    BY DEF NoRepetition
  <2>1. CASE j = 1 /\ k # 1
    <3>1. k \in 2 .. Len(t) + 1
      BY <1>5, <2>1
    <3> QED
      BY <1>1, <1>4, <1>6, <1>7, <2>1, <3>1
  <2>2. CASE j # 1 /\ k = 1
    <3>1. j \in 2 .. Len(t) + 1
      BY <1>5, <2>2
    <3> QED
      BY <1>1, <1>4, <1>6, <1>7, <2>2, <3>1
  <2>3. CASE j # 1 /\ k # 1
    <3>1. j \in 2 .. Len(t) + 1 /\ k \in 2 .. Len(t) + 1
      BY <1>5, <2>3
    <3>2. j - 1 \in DOMAIN t /\ k - 1 \in DOMAIN t /\ t[j - 1] = t[k - 1]
      BY <1>5, <1>7, <3>1
    <3>3. j - 1 = k - 1
      BY <1>1, <3>2 DEF NoRepetition
    <3> QED
      BY <3>1, <3>3
  <2> QED
    BY <2>1, <2>2, <2>3
<1>9. ASSUME NEW k \in DOMAIN s
      PROVE  req[s[k]] \subseteq placed \cup {s[j] : j \in 1 .. k - 1}
  <2>1. CASE k = 1
    BY <1>4, <2>1
  <2>2. CASE k # 1
    <3>1. k \in 2 .. Len(t) + 1
      BY <1>5, <2>2
    <3>2. k - 1 \in DOMAIN t /\ s[k] = t[k - 1]
      BY <1>5, <1>7, <3>1
    <3> SUFFICES ASSUME NEW r \in req[s[k]], r \notin placed
                 PROVE  \E j \in 1 .. k - 1 : s[j] = r
      OBVIOUS
    <3>3. r = m \/ \E j \in 1 .. (k - 1) - 1 : t[j] = r
      BY <1>2, <3>2
    <3>4. CASE r = m
      <4>1. 1 \in 1 .. k - 1
        BY <3>1
      <4> QED
        BY <1>4, <3>4, <4>1
    <3>5. CASE \E j \in 1 .. (k - 1) - 1 : t[j] = r
      <4>1. PICK j \in 1 .. (k - 1) - 1 : t[j] = r
        BY <3>5
      <4>2. j \in 1 .. Len(t) /\ j + 1 \in 1 .. k - 1
        BY <1>5, <3>1, <4>1
      <4>3. s[j + 1] = r
        BY <1>4, <4>1, <4>2
      <4> QED
        BY <4>2, <4>3
    <3> QED
      BY <3>3, <3>4, <3>5
  <2> QED
    BY <2>1, <2>2
<1> QED
  BY <1>4, <1>8, <1>9 DEF Respects, s

(* What From makes of the ids left to place respects their requirements. *)
LEMMA FromRespects ==
  ASSUME NEW ids \in SUBSET Nat, IsFiniteSet(ids), NEW req
  PROVE  \A placed \in SUBSET ids : Respects(ids, req, placed, From(ids, req)[placed])
<1> DEFINE F == From(ids, req)
           bad == {n \in Nat : \E p \in SUBSET ids : Cardinality(ids \ p) = n /\ ~ Respects(ids, req, p, F[p])}
<1>1. bad = {}
  <2> SUFFICES ASSUME bad # {} PROVE FALSE
    OBVIOUS
  <2>1. Min(bad) \in bad /\ \A k \in bad : Min(bad) <= k
    BY MinIs
  <2>2. PICK p \in SUBSET ids : Cardinality(ids \ p) = Min(bad) /\ ~ Respects(ids, req, p, F[p])
    BY <2>1
  <2>3. F[p] = Unfold(ids, req, F, p)
    BY FromIs
  <2>4. Could(ids, req, p) # {}
    <3>1. Respects(ids, req, p, <<>>)
      BY DEF Respects, NoRepetition
    <3> QED
      BY <2>2, <2>3, <3>1 DEF Unfold
  <2> DEFINE m == Min(Could(ids, req, p))
  <2>5. /\ m \in ids \ p /\ p \cup {m} \in SUBSET ids
        /\ Cardinality(ids \ p) \in Nat
        /\ Cardinality(ids \ (p \cup {m})) = Cardinality(ids \ p) - 1
    BY <2>4, CouldIs
  <2>6. req[m] \subseteq p
    <3>1. Could(ids, req, p) \in SUBSET Nat
      BY DEF Could
    <3>2. m \in Could(ids, req, p)
      BY <2>4, <3>1, MinIs
    <3> HIDE DEF m
    <3> QED
      BY <3>2 DEF Could
  <2>7. Cardinality(ids \ (p \cup {m})) \in Nat
    <3>1. ids \ (p \cup {m}) \in SUBSET ids
      OBVIOUS
    <3> QED
      BY <3>1, FS_Subset, FS_CardinalityType
  <2>8. F[p] = <<m>> \o F[p \cup {m}]
    BY <2>3, <2>4 DEF Unfold
  <2> HIDE DEF F, m
  <2>9. ~ Respects(ids, req, p \cup {m}, F[p \cup {m}])
    BY <2>2, <2>5, <2>6, <2>8, OneMoreRespects
  <2>10. Cardinality(ids \ (p \cup {m})) \in bad
    BY <2>5, <2>7, <2>9
  <2> DEFINE c == Cardinality(ids \ p)
             d == Cardinality(ids \ (p \cup {m}))
  <2>11. c \in Nat /\ d = c - 1 /\ c <= d
    BY <2>1, <2>2, <2>5, <2>10
  <2> HIDE DEF c, d
  <2> QED
    BY <2>11
<1> SUFFICES ASSUME NEW placed \in SUBSET ids, ~ Respects(ids, req, placed, F[placed]) PROVE FALSE
  OBVIOUS
<1>2. Cardinality(ids \ placed) \in Nat
  <2>1. ids \ placed \in SUBSET ids
    OBVIOUS
  <2> QED
    BY <2>1, FS_Subset, FS_CardinalityType
<1> QED
  BY <1>1, <1>2

LEMMA FromType ==
  ASSUME NEW ids \in SUBSET Nat, IsFiniteSet(ids), NEW req
  PROVE  \A placed \in SUBSET ids : From(ids, req)[placed] \in Seq(ids)
<1> TAKE placed \in SUBSET ids
<1>1. From(ids, req)[placed] \in Seq(ids \ placed)
  BY FromRespects DEF Respects
<1> QED
  BY <1>1

(* The order in which extensions are installed and registered has no id     *)
(* twice and puts every id after all the ids it requires, whatever the     *)
(* graph, for TopologicalExtensionResolver (extensions.py:104-130).        *)
THEOREM LeastOrderRespects ==
  ASSUME NEW ids \in SUBSET Nat, IsFiniteSet(ids), NEW req
  PROVE  Respects(ids, req, {}, LeastOrder(ids, req))
BY FromRespects, LeastOrderIs

=============================================================================
