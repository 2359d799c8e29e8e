---------------------------- MODULE LedgerProofs ----------------------------
(***************************************************************************)
(* Proofs about what is counted: the bytes of the AmneziaWG profiles and   *)
(* the money of the referral programme, for any number of nodes, peers,    *)
(* customers and orders. Both are sums over finite sets, so the module     *)
(* begins with what a sum of natural numbers is.                           *)
(***************************************************************************)
EXTENDS AwgTraffic, ReferralLedger, FiniteSetTheorems, WellFoundedInduction, TLAPS

-----------------------------------------------------------------------------
(* Sums. A sum of natural numbers counts units: as many for x as f[x] says. *)
Units(f, S) == UNION {{x} \X (1..f[x]) : x \in S}

(* The units of one member are as many as its number says. *)
LEMMA UnitsOfOne ==
  ASSUME NEW x, NEW n \in Nat
  PROVE  IsFiniteSet({x} \X (1..n)) /\ Cardinality({x} \X (1..n)) = n
<1>1. IsFiniteSet({x}) /\ Cardinality({x}) = 1
  BY FS_Singleton
<1>2. IsFiniteSet(1..n) /\ Cardinality(1..n) = n
  BY FS_Interval
<1>3. /\ IsFiniteSet({x} \X (1..n))
      /\ Cardinality({x} \X (1..n)) = Cardinality({x}) * Cardinality(1..n)
  BY <1>1, <1>2, FS_Product, Zenon
<1>4. Cardinality({x}) * Cardinality(1..n) = n
  BY <1>1, <1>2
<1> QED BY <1>3, <1>4

(* The members of a finite set have finitely many units. *)
LEMMA UnitsFinite ==
  ASSUME NEW S, IsFiniteSet(S), NEW f, \A x \in S : f[x] \in Nat
  PROVE  IsFiniteSet(Units(f, S)) /\ Cardinality(Units(f, S)) \in Nat
<1> DEFINE parts == {{x} \X (1..f[x]) : x \in S}
           part == [x \in S |-> {x} \X (1..f[x])]
<1>1. part \in Surjection(S, parts)
  BY DEF Surjection
<1>2. IsFiniteSet(parts)
  BY <1>1, FS_Surjection
<1>3. ASSUME NEW p \in parts PROVE IsFiniteSet(p)
  <2>1. PICK x \in S : p = {x} \X (1..f[x])
    OBVIOUS
  <2>2. f[x] \in Nat
    OBVIOUS
  <2>3. IsFiniteSet({x} \X (1..f[x]))
    BY <2>2, UnitsOfOne, Zenon
  <2> QED BY <2>1, <2>3
<1>4. IsFiniteSet(UNION parts)
  BY <1>2, <1>3, FS_UNION
<1> QED BY <1>4, FS_CardinalityType DEF Units

(* The units of two disjoint sets add up. *)
LEMMA UnitsSplit ==
  ASSUME NEW S, IsFiniteSet(S), NEW T, IsFiniteSet(T), S \cap T = {},
         NEW f, \A x \in S \cup T : f[x] \in Nat
  PROVE  Cardinality(Units(f, S \cup T)) = Cardinality(Units(f, S)) + Cardinality(Units(f, T))
<1>1. Units(f, S \cup T) = Units(f, S) \cup Units(f, T)
  BY DEF Units
<1>2. Units(f, S) \cap Units(f, T) = {}
  <2>1. ASSUME NEW p \in Units(f, S), p \in Units(f, T) PROVE FALSE
    <3>1. PICK x \in S : p \in {x} \X (1..f[x])
      BY DEF Units
    <3>2. PICK y \in T : p \in {y} \X (1..f[y])
      BY <2>1 DEF Units
    <3>3. p[1] = x /\ p[1] = y
      BY <3>1, <3>2
    <3> QED BY <3>3
  <2> QED BY <2>1
<1>3. IsFiniteSet(Units(f, S)) /\ IsFiniteSet(Units(f, T))
  BY UnitsFinite
<1>4. Cardinality(Units(f, S)) \in Nat /\ Cardinality(Units(f, T)) \in Nat
  BY UnitsFinite
<1>5. Cardinality(Units(f, S) \cup Units(f, T)) =
        Cardinality(Units(f, S)) + Cardinality(Units(f, T)) - Cardinality(Units(f, S) \cap Units(f, T))
  BY <1>3, FS_Union, Zenon
<1>6. Cardinality(Units(f, S) \cap Units(f, T)) = 0
  BY <1>2, FS_EmptySet, Zenon
<1>7. Cardinality(Units(f, S \cup T)) = Cardinality(Units(f, S)) + Cardinality(Units(f, T)) - 0
  BY <1>1, <1>5, <1>6, Zenon
<1> HIDE DEF Units
<1> QED BY <1>4, <1>7

(* Those of one member apart from the others. *)
LEMMA UnitsWithout ==
  ASSUME NEW S, IsFiniteSet(S), NEW f, \A x \in S : f[x] \in Nat, NEW x \in S
  PROVE  Cardinality(Units(f, S)) = f[x] + Cardinality(Units(f, S \ {x}))
<1>1. S = {x} \cup (S \ {x}) /\ {x} \cap (S \ {x}) = {}
  OBVIOUS
<1>2. IsFiniteSet({x}) /\ IsFiniteSet(S \ {x})
  BY FS_Singleton, FS_Difference
<1>3. Cardinality(Units(f, S)) = Cardinality(Units(f, {x})) + Cardinality(Units(f, S \ {x}))
  BY <1>1, <1>2, UnitsSplit
<1>4. Units(f, {x}) = {x} \X (1..f[x])
  BY DEF Units
<1>5. Cardinality(Units(f, {x})) = f[x]
  BY <1>4, UnitsOfOne
<1> QED BY <1>3, <1>5

(* The equation by which a sum is defined, one chosen member after the other. *)
AddsUp(g, f, S) ==
  g = [s \in SUBSET S |-> IF s = {} THEN 0
                          ELSE f[CHOOSE x \in s : TRUE] + g[s \ {CHOOSE x \in s : TRUE}]]

(* A sum is the number of the units: they satisfy the equation, and nothing else
   does, since a smallest set on which two solutions differ cannot be. *)
LEMMA SumCountsUnits ==
  ASSUME NEW S, IsFiniteSet(S), NEW f, \A x \in S : f[x] \in Nat
  PROVE  SumFunctionOnSet(f, S) = Cardinality(Units(f, S))
<1> DEFINE count == [s \in SUBSET S |-> Cardinality(Units(f, s))]
           sum == CHOOSE g : AddsUp(g, f, S)
<1>1. SumFunctionOnSet(f, S) = sum[S]
  BY DEF SumFunctionOnSet, FoldFunctionOnSet, MapThenFoldSet, AddsUp
<1>2. ASSUME NEW s \in SUBSET S
      PROVE  IsFiniteSet(s) /\ \A x \in s : f[x] \in Nat
  BY <1>2, FS_Subset
<1>3. AddsUp(count, f, S)
  <2>1. ASSUME NEW s \in SUBSET S, s # {}
        PROVE  LET x == CHOOSE x \in s : TRUE IN count[s] = f[x] + count[s \ {x}]
    <3> DEFINE x == CHOOSE x \in s : TRUE
    <3>1. x \in s
      BY <2>1
    <3> HIDE DEF x
    <3>2. Cardinality(Units(f, s)) = f[x] + Cardinality(Units(f, s \ {x}))
      BY <1>2, <3>1, UnitsWithout
    <3>3. s \ {x} \in SUBSET S
      OBVIOUS
    <3>4. count[s] = f[x] + count[s \ {x}]
      BY <3>2, <3>3
    <3> QED BY <3>4 DEF x
  <2>2. Units(f, {}) = {}
    BY DEF Units
  <2>3. count[{}] = 0
    BY <2>2, FS_EmptySet
  <2> HIDE DEF count
  <2>4. count = [s \in SUBSET S |-> count[s]]
    BY DEF count
  <2>5. ASSUME NEW s \in SUBSET S
        PROVE  count[s] = IF s = {} THEN 0
                          ELSE f[CHOOSE x \in s : TRUE] + count[s \ {CHOOSE x \in s : TRUE}]
    BY <2>1, <2>3
  <2> QED BY <2>4, <2>5, Zenon DEF AddsUp
<1>4. AddsUp(sum, f, S)
  BY <1>3
<1>5. ASSUME NEW T \in SUBSET S, sum[T] # count[T]
      PROVE  FALSE
  <2> DEFINE sizes == {Cardinality(s) : s \in {t \in SUBSET S : sum[t] # count[t]}}
  <2>1. sizes \subseteq Nat /\ sizes # {}
    BY <1>2, <1>5, FS_CardinalityType
  <2>2. PICK n \in sizes : \A m \in sizes : ~(<<m, n>> \in OpToRel(<, Nat))
    <3> HIDE DEF sizes
    <3> QED BY <2>1, NatLessThanWellFounded, WFMin
  <2>3. PICK s \in SUBSET S : sum[s] # count[s] /\ Cardinality(s) = n
    OBVIOUS
  <2>4. \A t \in SUBSET S : Cardinality(t) < Cardinality(s) => sum[t] = count[t]
    <3>1. ASSUME NEW t \in SUBSET S, Cardinality(t) < Cardinality(s), sum[t] # count[t]
          PROVE  FALSE
      <4>1. Cardinality(t) \in sizes
        BY <3>1
      <4>2. Cardinality(t) \in Nat /\ n \in Nat
        BY <2>1, <4>1
      <4> QED BY <2>2, <2>3, <3>1, <4>1, <4>2 DEF OpToRel
    <3> QED BY <3>1
  <2> HIDE DEF sum, count, sizes
  <2>5. CASE s = {}
    <3>1. sum[s] = 0 /\ count[s] = 0
      BY <1>3, <1>4, <2>5 DEF AddsUp
    <3> QED BY <2>3, <3>1
  <2>6. CASE s # {}
    <3> DEFINE x == CHOOSE x \in s : TRUE
    <3>1. x \in s
      BY <2>6
    <3>2. sum[s] = f[x] + sum[s \ {x}] /\ count[s] = f[x] + count[s \ {x}]
      BY <1>3, <1>4, <2>6, Zenon DEF AddsUp
    <3> HIDE DEF x
    <3>3. IsFiniteSet(s) /\ Cardinality(s) \in Nat
      BY <1>2, FS_CardinalityType
    <3>4. Cardinality(s \ {x}) = Cardinality(s) - 1
      BY <3>1, <3>3, FS_RemoveElement
    <3>5. sum[s \ {x}] = count[s \ {x}]
      BY <2>4, <3>3, <3>4
    <3> QED BY <2>3, <3>2, <3>5
  <2> QED BY <2>5, <2>6
<1>6. sum[S] = count[S]
  <2> HIDE DEF sum, count
  <2> QED BY <1>5
<1> QED BY <1>1, <1>6
(* What is needed of sums: no terms, one term apart, two disjoint parts, and
   larger terms of more members. *)
LEMMA SumIsNat ==
  ASSUME NEW S, IsFiniteSet(S), NEW f, \A x \in S : f[x] \in Nat
  PROVE  SumFunctionOnSet(f, S) \in Nat
BY SumCountsUnits, UnitsFinite

(* One term apart from the others. *)
LEMMA SumWithout ==
  ASSUME NEW S, IsFiniteSet(S), NEW f, \A x \in S : f[x] \in Nat, NEW x \in S
  PROVE  SumFunctionOnSet(f, S) = f[x] + SumFunctionOnSet(f, S \ {x})
<1>1. IsFiniteSet(S \ {x})
  BY FS_Difference
<1>2. SumFunctionOnSet(f, S) = Cardinality(Units(f, S))
  BY SumCountsUnits
<1>3. SumFunctionOnSet(f, S \ {x}) = Cardinality(Units(f, S \ {x}))
  BY <1>1, SumCountsUnits
<1> QED BY <1>2, <1>3, UnitsWithout

(* Two disjoint parts. *)
LEMMA SumSplit ==
  ASSUME NEW S, IsFiniteSet(S), NEW T, IsFiniteSet(T), S \cap T = {},
         NEW f, \A x \in S \cup T : f[x] \in Nat
  PROVE  SumFunctionOnSet(f, S \cup T) = SumFunctionOnSet(f, S) + SumFunctionOnSet(f, T)
<1>1. IsFiniteSet(S \cup T)
  BY FS_Union
<1>2. SumFunctionOnSet(f, S \cup T) = Cardinality(Units(f, S \cup T))
  BY <1>1, SumCountsUnits
<1>3. SumFunctionOnSet(f, S) = Cardinality(Units(f, S))
  BY SumCountsUnits
<1>4. SumFunctionOnSet(f, T) = Cardinality(Units(f, T))
  BY SumCountsUnits
<1> QED BY <1>2, <1>3, <1>4, UnitsSplit

(* Larger terms of more members. *)
LEMMA SumGrows ==
  ASSUME NEW T, IsFiniteSet(T), NEW S \in SUBSET T, NEW f, NEW g,
         \A x \in S : f[x] \in Nat /\ f[x] <= g[x], \A x \in T : g[x] \in Nat
  PROVE  SumFunctionOnSet(f, S) <= SumFunctionOnSet(g, T)
<1>1. IsFiniteSet(S)
  BY FS_Subset
<1>2. Units(f, S) \subseteq Units(g, T)
  <2>1. ASSUME NEW p \in Units(f, S) PROVE p \in Units(g, T)
    <3>1. PICK x \in S : p \in {x} \X (1..f[x])
      BY DEF Units
    <3>2. 1..f[x] \subseteq 1..g[x]
      OBVIOUS
    <3>3. p \in {x} \X (1..g[x])
      BY <3>1, <3>2
    <3> QED BY <3>3 DEF Units
  <2> QED BY <2>1
<1>3. SumFunctionOnSet(f, S) = Cardinality(Units(f, S))
  BY <1>1, SumCountsUnits
<1>4. SumFunctionOnSet(g, T) = Cardinality(Units(g, T)) /\ IsFiniteSet(Units(g, T))
  BY SumCountsUnits, UnitsFinite
<1> QED BY <1>2, <1>3, <1>4, FS_Subset

(* The same terms. *)
LEMMA SumSame ==
  ASSUME NEW S, IsFiniteSet(S), NEW f, NEW g, \A x \in S : f[x] \in Nat /\ g[x] = f[x]
  PROVE  SumFunctionOnSet(f, S) = SumFunctionOnSet(g, S)
<1>1. S \in SUBSET S /\ \A x \in S : f[x] <= g[x] /\ g[x] <= f[x] /\ g[x] \in Nat
  OBVIOUS
<1>2. SumFunctionOnSet(f, S) \in Nat /\ SumFunctionOnSet(g, S) \in Nat
  BY <1>1, SumIsNat
<1>3. SumFunctionOnSet(f, S) <= SumFunctionOnSet(g, S)
  BY <1>1, SumGrows
<1>4. SumFunctionOnSet(g, S) <= SumFunctionOnSet(f, S)
  BY <1>1, SumGrows
<1> QED BY <1>2, <1>3, <1>4

(* No terms but zeros. *)
LEMMA SumOfNothing ==
  ASSUME NEW S, IsFiniteSet(S), NEW f, \A x \in S : f[x] = 0
  PROVE  SumFunctionOnSet(f, S) = 0
<1>1. Units(f, S) = {}
  <2>1. ASSUME NEW p \in Units(f, S) PROVE FALSE
    <3>1. PICK x \in S : p \in {x} \X (1..f[x])
      BY DEF Units
    <3>2. p[2] \in 1..0
      BY <3>1
    <3> QED BY <3>2
  <2> QED BY <2>1
<1>2. SumFunctionOnSet(f, S) = Cardinality(Units(f, S))
  BY SumCountsUnits
<1> QED BY <1>1, <1>2, FS_EmptySet

(* One term changed. *)
LEMMA SumChanges ==
  ASSUME NEW S, IsFiniteSet(S), NEW x \in S, NEW f, NEW g,
         \A y \in S : f[y] \in Nat /\ g[y] \in Nat, \A y \in S \ {x} : g[y] = f[y]
  PROVE  SumFunctionOnSet(g, S) = SumFunctionOnSet(f, S) - f[x] + g[x]
<1>1. IsFiniteSet(S \ {x})
  BY FS_Difference
<1>2. SumFunctionOnSet(f, S \ {x}) = SumFunctionOnSet(g, S \ {x})
  BY <1>1, SumSame
<1>3. SumFunctionOnSet(f, S) = f[x] + SumFunctionOnSet(f, S \ {x})
  BY SumWithout
<1>4. SumFunctionOnSet(g, S) = g[x] + SumFunctionOnSet(g, S \ {x})
  BY SumWithout
<1>5. SumFunctionOnSet(f, S \ {x}) \in Nat
  BY <1>1, SumIsNat
<1> QED BY <1>2, <1>3, <1>4, <1>5

-----------------------------------------------------------------------------
(* The bytes of an AmneziaWG profile. Types as far as bytes are counted. *)
TrafficTypes ==
  /\ counter \in [Row -> Nat] /\ seen \in [Row -> Int]
  /\ delta \in [Node -> Nat] /\ sums \in [Node -> Nat] /\ daemon = [n \in Node |-> daemon[n]]
  /\ used \in Nat /\ cycleSum \in Nat /\ booked \in Nat /\ bookedBefore \in Nat /\ moved \in Nat

(* Every byte that was moved is waiting in a counter, collected, or booked, or
   it was lost; none is in two of these places. *)
BytesInv ==
  /\ booked + SumFunctionOnSet(delta, Node) + SumFunctionOnSet(DeltaOf, Row) <= moved
  /\ \A n \in Node : daemon[n] # "record" => delta[n] = 0

(* The ledger's sum of a month holds no more than was booked since it began (a
   row that was collected earlier is not in it); a daemon that begins the month
   anew has read no more than that, and the counter grows with what is booked. *)
CycleInv ==
  /\ cycleSum <= booked - bookedBefore
  /\ resetDue => "cycle" \in awgEvents
  /\ \A n \in Node : daemon[n] \in {"newCycle", "renewed"} =>
       "cycle" \in awgEvents /\ sums[n] <= cycleSum
  /\ ~resetDue => used <= booked - bookedBefore

(* Each term of the two sums is a natural number. *)
LEMMA TermsOfBytes ==
  ASSUME TrafficTypes
  PROVE  /\ IsFiniteSet(Node) /\ IsFiniteSet(Row)
         /\ \A n \in Node : delta[n] \in Nat
         /\ \A r \in Row : DeltaOf[r] \in Nat
         /\ SumFunctionOnSet(delta, Node) \in Nat /\ SumFunctionOnSet(DeltaOf, Row) \in Nat
<1>1. IsFiniteSet(Node) /\ IsFiniteSet(Row)
  BY AwgAssumption
<1>2. \A n \in Node : delta[n] \in Nat
  BY DEF TrafficTypes
<1>3. \A r \in Row : DeltaOf[r] \in Nat
  BY DEF TrafficTypes, DeltaOf
<1> QED BY <1>1, <1>2, <1>3, SumIsNat

(* Peers whose counter starts at zero or stays are owed no more than before. *)
LEMMA CountersLost ==
  ASSUME TrafficTypes, TrafficTypes', seen' = seen, \A r \in Row : counter'[r] \in {counter[r], 0}
  PROVE  SumFunctionOnSet(DeltaOf', Row) <= SumFunctionOnSet(DeltaOf, Row)
<1>1. \A r \in Row : DeltaOf[r] \in Nat
  BY TermsOfBytes
<1>2. \A r \in Row : DeltaOf'[r] \in Nat
  BY DEF TrafficTypes, DeltaOf
<1>3. \A r \in Row : DeltaOf'[r] <= DeltaOf[r]
  BY DEF TrafficTypes, DeltaOf
<1>4. Row \in SUBSET Row /\ IsFiniteSet(Row)
  BY TermsOfBytes
<1> QED BY <1>1, <1>2, <1>3, <1>4, SumGrows

(* A new set of peers in a kernel. *)
LEMMA KernelSet ==
  ASSUME TrafficTypes, NEW peers, SetKernel(peers)
  PROVE  counter' \in [Row -> Nat] /\ \A r \in Row : counter'[r] \in {counter[r], 0}
BY DEF TrafficTypes, SetKernel

(* A step that may lose counters, and leaves all that was collected and booked. *)
LEMMA OnlyCountersLost ==
  ASSUME TrafficTypes, BytesInv, CycleInv,
         counter' \in [Row -> Nat], \A r \in Row : counter'[r] \in {counter[r], 0},
         UNCHANGED <<seen, delta, sums, used, cycleSum, booked, bookedBefore, resetDue, moved>>,
         awgEvents \subseteq awgEvents',
         daemon' = [n \in Node |-> daemon'[n]],
         \A n \in Node : /\ daemon[n] = "record" => daemon'[n] = "record"
                         /\ daemon'[n] \in {"newCycle", "renewed"} => daemon'[n] = daemon[n]
  PROVE  TrafficTypes' /\ BytesInv' /\ CycleInv'
<1>1. TrafficTypes'
  BY DEF TrafficTypes
<1>2. SumFunctionOnSet(DeltaOf', Row) <= SumFunctionOnSet(DeltaOf, Row)
  BY <1>1, CountersLost
<1>3. SumFunctionOnSet(DeltaOf', Row) \in Nat
  <2>1. \A r \in Row : DeltaOf'[r] \in Nat
    BY <1>1 DEF TrafficTypes, DeltaOf
  <2> QED BY <2>1, TermsOfBytes, SumIsNat
<1>4. BytesInv'
  BY <1>2, <1>3, TermsOfBytes DEF BytesInv, TrafficTypes
<1>5. CycleInv'
  BY DEF CycleInv, TrafficTypes
<1> QED BY <1>1, <1>4, <1>5

(* The first states. *)
LEMMA TrafficStarts == AwgInit => TrafficTypes /\ BytesInv /\ CycleInv
<1> SUFFICES ASSUME AwgInit PROVE TrafficTypes /\ BytesInv /\ CycleInv
  OBVIOUS
<1>1. TrafficTypes
  BY DEF AwgInit, TrafficTypes
<1>2. SumFunctionOnSet(delta, Node) = 0
  <2>1. \A n \in Node : delta[n] = 0
    BY DEF AwgInit
  <2> QED BY <2>1, AwgAssumption, SumOfNothing
<1>3. SumFunctionOnSet(DeltaOf, Row) = 0
  <2>1. \A r \in Row : DeltaOf[r] = 0
    BY DEF AwgInit, DeltaOf
  <2> QED BY <2>1, AwgAssumption, SumOfNothing
<1>4. booked = 0 /\ moved = 0 /\ \A n \in Node : delta[n] = 0 /\ daemon[n] = "cycle"
  BY DEF AwgInit
<1>5. cycleSum <= booked - bookedBefore /\ ~resetDue /\ used <= booked - bookedBefore
  BY DEF AwgInit
<1> QED BY <1>1, <1>2, <1>3, <1>4, <1>5 DEF BytesInv, CycleInv

(* A byte that is moved is owed by its counter, or is lost in a reset. *)
LEMMA MoveDataStep ==
  ASSUME TrafficTypes, BytesInv, CycleInv, NEW r \in Row, MoveData(r)
  PROVE  TrafficTypes' /\ BytesInv' /\ CycleInv'
<1>1. /\ counter' = [counter EXCEPT ![r] = counter[r] + 1] /\ moved' = moved + 1
      /\ UNCHANGED <<seen, delta, sums, daemon, used, cycleSum, booked, bookedBefore, resetDue, awgEvents>>
  BY DEF MoveData, ledgerVars, passVars
<1>2. TrafficTypes'
  BY <1>1 DEF TrafficTypes
<1>3. \A q \in Row : DeltaOf'[q] \in Nat
  BY <1>2 DEF TrafficTypes, DeltaOf
<1>4. \A q \in Row \ {r} : DeltaOf'[q] = DeltaOf[q]
  BY <1>1 DEF TrafficTypes, DeltaOf
<1>5. DeltaOf'[r] <= DeltaOf[r] + 1
  <2>1. counter'[r] = counter[r] + 1 /\ seen'[r] = seen[r] /\ counter[r] \in Nat /\ seen[r] \in Int
    BY <1>1 DEF TrafficTypes
  <2> QED BY <2>1 DEF DeltaOf
<1>6. SumFunctionOnSet(DeltaOf', Row) = SumFunctionOnSet(DeltaOf, Row) - DeltaOf[r] + DeltaOf'[r]
  BY <1>3, <1>4, TermsOfBytes, SumChanges
<1>7. SumFunctionOnSet(DeltaOf', Row) <= SumFunctionOnSet(DeltaOf, Row) + 1
  BY <1>3, <1>5, <1>6, TermsOfBytes
<1>8. SumFunctionOnSet(DeltaOf', Row) \in Nat
  BY <1>3, TermsOfBytes, SumIsNat
<1>9. BytesInv'
  BY <1>1, <1>7, <1>8, TermsOfBytes DEF BytesInv, TrafficTypes
<1>10. CycleInv'
  BY <1>1 DEF CycleInv
<1> QED BY <1>2, <1>9, <1>10

(* Collected bytes are no longer owed by their counters. *)
LEMMA CollectStep ==
  ASSUME TrafficTypes, BytesInv, CycleInv, NEW n \in Node, Collect(n)
  PROVE  TrafficTypes' /\ BytesInv' /\ CycleInv'
<1> DEFINE sum == SumFunctionOnSet(DeltaOf, Peers(n))
           rest == Row \ Peers(n)
<1>1. /\ seen' = [r \in Row |-> IF r \in Peers(n) THEN counter[r] ELSE seen[r]]
      /\ delta' = [delta EXCEPT ![n] = sum]
      /\ daemon[n] = "collect" /\ daemon' = [daemon EXCEPT ![n] = IF delta'[n] = 0 THEN "cycle" ELSE "record"]
      /\ UNCHANGED <<counter, sums, used, cycleSum, booked, bookedBefore, resetDue, moved, awgEvents>>
  BY DEF Collect, Advance, peerVars, ledgerVars
<1>2. Peers(n) \subseteq Row /\ rest \subseteq Row /\ Peers(n) \cup rest = Row /\ Peers(n) \cap rest = {}
  BY DEF Peers, At
<1>3. IsFiniteSet(Peers(n)) /\ IsFiniteSet(rest)
  BY <1>2, TermsOfBytes, FS_Subset
<1>4. sum \in Nat
  BY <1>2, <1>3, TermsOfBytes, SumIsNat
<1>5. SumFunctionOnSet(DeltaOf, Row) = sum + SumFunctionOnSet(DeltaOf, rest)
  <2>1. SumFunctionOnSet(DeltaOf, Peers(n) \cup rest) = sum + SumFunctionOnSet(DeltaOf, rest)
    <3>1. \A r \in Peers(n) \cup rest : DeltaOf[r] \in Nat
      BY <1>2, TermsOfBytes
    <3> QED BY <1>2, <1>3, <3>1, SumSplit
  <2> QED BY <1>2, <2>1
<1>6. /\ \A r \in Peers(n) : DeltaOf'[r] = 0
      /\ \A r \in rest : DeltaOf'[r] = DeltaOf[r] /\ DeltaOf[r] \in Nat
  <2>1. ASSUME NEW r \in Peers(n) PROVE DeltaOf'[r] = 0
    <3>1. r \in Row /\ counter[r] \in Nat /\ seen'[r] = counter[r] /\ counter'[r] = counter[r]
      BY <1>1, <1>2 DEF TrafficTypes
    <3> QED BY <3>1 DEF DeltaOf
  <2>2. ASSUME NEW r \in rest PROVE DeltaOf'[r] = DeltaOf[r] /\ DeltaOf[r] \in Nat
    <3>1. r \in Row /\ seen'[r] = seen[r] /\ counter'[r] = counter[r]
      BY <1>1, <1>2
    <3> QED BY <3>1, TermsOfBytes DEF DeltaOf
  <2> QED BY <2>1, <2>2
<1> HIDE DEF rest, sum
<1>7. SumFunctionOnSet(DeltaOf', Row) = SumFunctionOnSet(DeltaOf, rest)
  <2>1. \A r \in Peers(n) \cup rest : DeltaOf'[r] \in Nat
    BY <1>6
  <2>2. SumFunctionOnSet(DeltaOf', Peers(n) \cup rest) =
          SumFunctionOnSet(DeltaOf', Peers(n)) + SumFunctionOnSet(DeltaOf', rest)
    BY <1>2, <1>3, <2>1, SumSplit
  <2>3. SumFunctionOnSet(DeltaOf', Peers(n)) = 0
    BY <1>3, <1>6, SumOfNothing
  <2>4. SumFunctionOnSet(DeltaOf', rest) = SumFunctionOnSet(DeltaOf, rest)
    BY <1>3, <1>6, SumSame
  <2>5. SumFunctionOnSet(DeltaOf, rest) \in Nat
    BY <1>3, <1>6, SumIsNat
  <2>6. SumFunctionOnSet(DeltaOf', Peers(n) \cup rest) = 0 + SumFunctionOnSet(DeltaOf, rest)
    BY <2>2, <2>3, <2>4, Zenon
  <2>7. SumFunctionOnSet(DeltaOf', Peers(n) \cup rest) = SumFunctionOnSet(DeltaOf, rest)
    BY <2>5, <2>6
  <2> QED BY <1>2, <2>7, Zenon
<1>8. SumFunctionOnSet(delta', Node) = SumFunctionOnSet(delta, Node) - delta[n] + delta'[n]
  <2>1. \A m \in Node : delta'[m] \in Nat
    BY <1>1, <1>4 DEF TrafficTypes
  <2>2. \A m \in Node \ {n} : delta'[m] = delta[m]
    BY <1>1 DEF TrafficTypes
  <2> QED BY <2>1, <2>2, TermsOfBytes, SumChanges
<1>9. delta[n] = 0 /\ delta'[n] = sum
  BY <1>1 DEF BytesInv, TrafficTypes
<1>10. SumFunctionOnSet(DeltaOf, rest) \in Nat
  BY <1>3, <1>6, SumIsNat
<1>11. SumFunctionOnSet(delta', Node) + SumFunctionOnSet(DeltaOf', Row) =
         SumFunctionOnSet(delta, Node) + SumFunctionOnSet(DeltaOf, Row)
  BY <1>4, <1>5, <1>7, <1>8, <1>9, <1>10, TermsOfBytes
<1>12. TrafficTypes'
  BY <1>1, <1>4 DEF TrafficTypes
<1>13. BytesInv'
  <2>1. \A m \in Node : daemon'[m] # "record" => delta'[m] = 0
    BY <1>1, <1>9 DEF BytesInv, TrafficTypes
  <2>2. booked' + SumFunctionOnSet(delta', Node) + SumFunctionOnSet(DeltaOf', Row) <= moved'
    <3>1. /\ SumFunctionOnSet(delta', Node) \in Nat /\ SumFunctionOnSet(DeltaOf', Row) \in Nat
          /\ booked' = booked /\ moved' = moved /\ booked \in Nat /\ moved \in Nat
      BY <1>1, <1>4, <1>7, <1>8, <1>9, <1>10, TermsOfBytes DEF TrafficTypes
    <3> QED BY <1>11, <3>1, TermsOfBytes DEF BytesInv
  <2> QED BY <2>1, <2>2 DEF BytesInv
<1>14. CycleInv'
  BY <1>1 DEF CycleInv, TrafficTypes
<1> QED BY <1>12, <1>13, <1>14

(* Booked bytes are no longer collected; the month's sum grows with the ledger. *)
LEMMA RecordStep ==
  ASSUME TrafficTypes, BytesInv, CycleInv, NEW n \in Node, Record(n)
  PROVE  TrafficTypes' /\ BytesInv' /\ CycleInv'
<1>1. /\ used' = used + delta[n] /\ cycleSum' \in {cycleSum, cycleSum + delta[n]} /\ booked' = booked + delta[n]
      /\ delta' = [delta EXCEPT ![n] = 0] /\ daemon' = [daemon EXCEPT ![n] = "recheck"]
      /\ UNCHANGED <<counter, seen, sums, bookedBefore, resetDue, moved, awgEvents>>
  BY DEF Record, Advance, peerVars
<1>2. delta[n] \in Nat
  BY DEF TrafficTypes
<1>3. TrafficTypes'
  BY <1>1, <1>2 DEF TrafficTypes
<1>4. DeltaOf' = DeltaOf
  BY <1>1 DEF DeltaOf
<1>5. SumFunctionOnSet(delta', Node) = SumFunctionOnSet(delta, Node) - delta[n] + delta'[n]
  <2>1. \A m \in Node : delta'[m] \in Nat
    BY <1>3 DEF TrafficTypes
  <2>2. \A m \in Node \ {n} : delta'[m] = delta[m]
    BY <1>1 DEF TrafficTypes
  <2> QED BY <2>1, <2>2, TermsOfBytes, SumChanges
<1>6. delta'[n] = 0
  BY <1>1 DEF TrafficTypes
<1>7. booked' + SumFunctionOnSet(delta', Node) + SumFunctionOnSet(DeltaOf', Row) <= moved'
  BY <1>1, <1>2, <1>4, <1>5, <1>6, TermsOfBytes DEF BytesInv, TrafficTypes
<1>8. BytesInv'
  BY <1>1, <1>7 DEF BytesInv, TrafficTypes
<1>9. CycleInv'
  BY <1>1, <1>2 DEF CycleInv, TrafficTypes
<1> QED BY <1>3, <1>8, <1>9

(* A daemon that dies loses what it has collected. *)
LEMMA CrashDaemonStep ==
  ASSUME TrafficTypes, BytesInv, CycleInv, NEW n \in Node, CrashDaemon(n)
  PROVE  TrafficTypes' /\ BytesInv' /\ CycleInv'
<1>1. /\ delta' = [delta EXCEPT ![n] = 0] /\ daemon' = [daemon EXCEPT ![n] = "cycle"]
      /\ sums' = [sums EXCEPT ![n] = 0] /\ awgEvents \subseteq awgEvents'
      /\ UNCHANGED <<counter, seen, used, cycleSum, booked, bookedBefore, resetDue, moved>>
  BY DEF CrashDaemon, Advance, Count, peerVars, ledgerVars
<1>2. TrafficTypes'
  BY <1>1 DEF TrafficTypes
<1>3. DeltaOf' = DeltaOf
  BY <1>1 DEF DeltaOf
<1>4. SumFunctionOnSet(delta', Node) <= SumFunctionOnSet(delta, Node)
  <2>1. \A m \in Node : delta'[m] \in Nat /\ delta'[m] <= delta[m]
    BY <1>1 DEF TrafficTypes
  <2>2. Node \in SUBSET Node
    OBVIOUS
  <2> QED BY <2>1, <2>2, TermsOfBytes, SumGrows
<1>5. SumFunctionOnSet(delta', Node) \in Nat
  <2>1. \A m \in Node : delta'[m] \in Nat
    BY <1>2 DEF TrafficTypes
  <2> QED BY <2>1, TermsOfBytes, SumIsNat
<1>6. BytesInv'
  <2>1. \A m \in Node : daemon'[m] # "record" => delta'[m] = 0
    BY <1>1 DEF BytesInv, TrafficTypes
  <2> QED BY <1>1, <1>3, <1>4, <1>5, <2>1, TermsOfBytes DEF BytesInv, TrafficTypes
<1>7. CycleInv'
  BY <1>1 DEF CycleInv, TrafficTypes
<1> QED BY <1>2, <1>6, <1>7

(* The month: it begins once, with an empty sum; a daemon reads the sum while
   the reset is due, and writes it as what is used. *)
LEMMA MonthSteps ==
  ASSUME TrafficTypes, BytesInv, CycleInv,
         BeginCycle \/ \E n \in Node : ReadCycle(n) \/ WriteCycle(n)
  PROVE  TrafficTypes' /\ BytesInv' /\ CycleInv'
<1>1. UNCHANGED <<counter, seen, delta, booked, moved>> /\ DeltaOf' = DeltaOf
  BY DEF BeginCycle, ReadCycle, WriteCycle, peerVars, ledgerVars, passVars, DeltaOf
<1>2. CASE BeginCycle
  <2>1. /\ resetDue' = TRUE /\ cycleSum' = 0 /\ bookedBefore' = booked /\ "cycle" \notin awgEvents
        /\ "cycle" \in awgEvents' /\ UNCHANGED <<used, daemon, sums>>
    BY <1>2 DEF BeginCycle, Count, passVars
  <2>2. TrafficTypes'
    BY <1>1, <2>1 DEF TrafficTypes
  <2>3. BytesInv'
    BY <1>1, <2>1 DEF BytesInv
  <2>4. CycleInv'
    BY <1>1, <2>1 DEF CycleInv, TrafficTypes
  <2> QED BY <2>2, <2>3, <2>4
<1>3. ASSUME NEW n \in Node, ReadCycle(n)
      PROVE  TrafficTypes' /\ BytesInv' /\ CycleInv'
  <2>1. /\ UNCHANGED <<used, cycleSum, bookedBefore, resetDue, awgEvents>>
        /\ daemon[n] \in {"cycle", "recheck"}
        /\ \/ /\ resetDue /\ sums' = [sums EXCEPT ![n] = cycleSum]
              /\ \E s \in {"newCycle", "renewed"} : daemon' = [daemon EXCEPT ![n] = s]
           \/ /\ sums' = sums
              /\ \E s \in {"reconcile", "evaluate"} : daemon' = [daemon EXCEPT ![n] = s]
    BY <1>3 DEF ReadCycle, Advance, ledgerVars
  <2>2. TrafficTypes'
    BY <1>1, <2>1 DEF TrafficTypes
  <2>3. BytesInv'
    BY <1>1, <2>1 DEF BytesInv, TrafficTypes
  <2>4. CycleInv'
    BY <1>1, <2>1 DEF CycleInv, TrafficTypes
  <2> QED BY <2>2, <2>3, <2>4
<1>4. ASSUME NEW n \in Node, WriteCycle(n)
      PROVE  TrafficTypes' /\ BytesInv' /\ CycleInv'
  <2>1. /\ UNCHANGED <<cycleSum, bookedBefore, awgEvents>>
        /\ used' = sums[n] /\ resetDue' = FALSE /\ sums' = [sums EXCEPT ![n] = 0]
        /\ daemon[n] \in {"newCycle", "renewed"}
        /\ \E s \in {"reconcile", "evaluate"} : daemon' = [daemon EXCEPT ![n] = s]
    BY <1>4 DEF WriteCycle, Advance
  <2>2. TrafficTypes'
    BY <1>1, <2>1 DEF TrafficTypes
  <2>3. BytesInv'
    BY <1>1, <2>1 DEF BytesInv, TrafficTypes
  <2>4. CycleInv'
    BY <1>1, <2>1 DEF CycleInv, TrafficTypes
  <2> QED BY <2>2, <2>3, <2>4
<1> QED BY <1>2, <1>3, <1>4

(* The other steps lose counters at most: peers leave kernels and enter them
   anew, interfaces restart. *)
LEMMA OtherTrafficSteps ==
  ASSUME TrafficTypes, BytesInv, CycleInv,
         \/ UNCHANGED awgVars
         \/ \E n \in Node : \/ ReconcilePeers(n) \/ Evaluate(n) \/ RemovePeer(n) \/ RestartInterface(n)
                            \/ \E r \in Row : DisableRow(n, r)
         \/ \E from, to \in Row, host \in WebNode : CheckSwitch(from, to, host)
         \/ SwitchStep \/ CrashSwitch \/ OthersExpire
  PROVE  TrafficTypes' /\ BytesInv' /\ CycleInv'
<1>1. UNCHANGED <<seen, delta, sums, used, cycleSum, booked, bookedBefore, resetDue, moved>>
  BY DEF ReconcilePeers, Evaluate, RemovePeer, RemoveSlotPeer, RestartInterface, DisableRow, CheckSwitch,
     SwitchStep, AddTarget, RemoveCurrent, SwitchRow, CrashSwitch, OthersExpire, ledgerVars, passVars, awgVars
<1>2. awgEvents \subseteq awgEvents'
  BY DEF ReconcilePeers, Evaluate, RemovePeer, RemoveSlotPeer, RestartInterface, DisableRow, CheckSwitch,
     SwitchStep, AddTarget, RemoveCurrent, SwitchRow, CrashSwitch, OthersExpire, Count, awgVars
<1>3. counter' = counter \/ (\E peers : SetKernel(peers))
        \/ (\E n \in Node : counter' = [r \in Row |-> IF r \in At(n) THEN 0 ELSE counter[r]])
  BY DEF ReconcilePeers, Evaluate, RemovePeer, RemoveSlotPeer, RestartInterface, DisableRow, CheckSwitch,
     SwitchStep, AddTarget, RemoveCurrent, SwitchRow, CrashSwitch, OthersExpire, peerVars, awgVars
<1>4. counter' \in [Row -> Nat] /\ \A r \in Row : counter'[r] \in {counter[r], 0}
  <2>1. CASE counter' = counter
    BY <2>1 DEF TrafficTypes
  <2>2. ASSUME NEW peers, SetKernel(peers)
        PROVE  counter' \in [Row -> Nat] /\ \A r \in Row : counter'[r] \in {counter[r], 0}
    BY <2>2, KernelSet
  <2>3. ASSUME NEW n \in Node, counter' = [r \in Row |-> IF r \in At(n) THEN 0 ELSE counter[r]]
        PROVE  counter' \in [Row -> Nat] /\ \A r \in Row : counter'[r] \in {counter[r], 0}
    BY <2>3 DEF TrafficTypes
  <2> QED BY <1>3, <2>1, <2>2, <2>3
<1>5. \/ daemon' = daemon
      \/ \E n \in Node, s \in {"collect", "cycle", "disable", "remove"} :
           daemon[n] # "record" /\ daemon' = [daemon EXCEPT ![n] = s]
  BY DEF ReconcilePeers, Evaluate, RemovePeer, RestartInterface, DisableRow, CheckSwitch,
     SwitchStep, AddTarget, RemoveCurrent, SwitchRow, CrashSwitch, OthersExpire, Advance, awgVars
<1>6. /\ daemon' = [n \in Node |-> daemon'[n]]
      /\ \A n \in Node : /\ daemon[n] = "record" => daemon'[n] = "record"
                         /\ daemon'[n] \in {"newCycle", "renewed"} => daemon'[n] = daemon[n]
  BY <1>5 DEF TrafficTypes
<1> QED BY <1>1, <1>2, <1>4, <1>6, OnlyCountersLost

(* NeverOvercharged: no byte is booked that was not moved, none twice, and the
   counter of a month that was reset holds no more than was booked since it
   began, deltas collected just before it included (collect_node_deltas,
   record_awg_traffic_deltas, ensure_awg_cycle_up_to_date), for any number of
   nodes, slots, bytes and restarts. *)
THEOREM NobodyIsOvercharged == AwgSpec => []NeverOvercharged
<1>1. ASSUME TrafficTypes, BytesInv, CycleInv, [AwgNext]_awgVars
      PROVE  TrafficTypes' /\ BytesInv' /\ CycleInv'
  <2>1. CASE \E r \in Row : MoveData(r)
    BY <1>1, <2>1, MoveDataStep
  <2>2. CASE \E n \in Node : Collect(n)
    BY <1>1, <2>2, CollectStep
  <2>3. CASE \E n \in Node : Record(n)
    BY <1>1, <2>3, RecordStep
  <2>4. CASE \E n \in Node : CrashDaemon(n)
    BY <1>1, <2>4, CrashDaemonStep
  <2>5. CASE BeginCycle \/ \E n \in Node : ReadCycle(n) \/ WriteCycle(n)
    BY <1>1, <2>5, MonthSteps
  <2>6. CASE \/ UNCHANGED awgVars
             \/ \E n \in Node : \/ ReconcilePeers(n) \/ Evaluate(n) \/ RemovePeer(n) \/ RestartInterface(n)
                                \/ \E r \in Row : DisableRow(n, r)
             \/ \E from, to \in Row, host \in WebNode : CheckSwitch(from, to, host)
             \/ SwitchStep \/ CrashSwitch \/ OthersExpire
    BY <1>1, <2>6, OtherTrafficSteps
  <2> QED BY <1>1, <2>1, <2>2, <2>3, <2>4, <2>5, <2>6 DEF AwgNext, DaemonStep
<1>2. TrafficTypes /\ BytesInv /\ CycleInv => NeverOvercharged
  BY TermsOfBytes DEF TrafficTypes, BytesInv, CycleInv, NeverOvercharged
<1> QED BY TrafficStarts, <1>1, <1>2, PTL DEF AwgSpec
-----------------------------------------------------------------------------
(* Referral books. What the rows and the orders are, as far as the sums need it. *)
OrderSet == [customer : Customer, ref : AnyReferrer, renews : Nat, brought : AnyReferrer,
             state : OrderState, books : BookState]
RowSet == [referrer : Referrer, order : Nat, amount : {1, 2}, at : Nat, marked : BOOLEAN]

OrderOK(o) ==
  /\ o \in OrderSet
  /\ o.renews = 0 \/ o.renews \in DOMAIN shopOrder
  /\ o.brought # NoReferrer => attribution[o.customer] = o.brought

RowOK(w) ==
  /\ w \in RowSet
  /\ w.order \in DOMAIN shopOrder
  /\ shopOrder[w.order].brought # NoReferrer => w.referrer = shopOrder[w.order].brought

ReferralTypes ==
  /\ attribution \in [Customer -> AnyReferrer]
  /\ shopOrder \in Seq(OrderSet)
  /\ \A o \in DOMAIN shopOrder : OrderOK(shopOrder[o])
  /\ ledger \in Seq(RowSet)
  /\ \A i \in DOMAIN ledger : RowOK(ledger[i])
  /\ paidOut \in [Referrer -> Nat]
  /\ pressed = NoPress \/ pressed \in [referrer : Referrer, amount : Nat]

(* The rows of whoever is not misdated are in the order of their stamps, and a
   marked one is covered by what was paid; a debt paid in full leaves no row
   pending. The sums of BooksAgree say less: they are not inductive. *)
Books(r) ==
  /\ paidOut[r] <= Earned(r)
  /\ paidOut[r] = Earned(r) => \A i \in Rows(r) : ledger[i].marked
  /\ r \notin misdated =>
       /\ \A i, j \in Rows(r) : i <= j => ledger[i].at <= ledger[j].at
       /\ \A i \in Rows(r) : ledger[i].marked => Covered(r, paidOut[r], i)

ReferralInv ==
  /\ ReferralTypes
  /\ \A r \in Referrer : Books(r)

(* The rows of a referrer are finitely many, and each has an amount. *)
LEMMA RowsAddUp ==
  ASSUME ReferralTypes, NEW r \in Referrer
  PROVE  /\ IsFiniteSet(Rows(r))
         /\ \A i \in Rows(r) : Amounts[i] \in Nat /\ Amounts[i] > 0
         /\ \A S \in SUBSET Rows(r) : IsFiniteSet(S) /\ SumFunctionOnSet(Amounts, S) \in Nat
<1>1. DOMAIN ledger = 1..Len(ledger) /\ Len(ledger) \in Nat
  BY DEF ReferralTypes
<1>2. Rows(r) \subseteq 1..Len(ledger)
  BY <1>1 DEF Rows
<1>3. IsFiniteSet(1..Len(ledger))
  BY <1>1, FS_Interval
<1>4. IsFiniteSet(Rows(r))
  BY <1>2, <1>3, FS_Subset
<1>5. \A i \in Rows(r) : Amounts[i] \in Nat /\ Amounts[i] > 0
  <2>1. ASSUME NEW i \in Rows(r) PROVE Amounts[i] \in {1, 2}
    <3>1. i \in DOMAIN ledger /\ RowOK(ledger[i])
      BY DEF Rows, ReferralTypes
    <3>2. ledger[i].amount \in {1, 2}
      BY <3>1 DEF RowOK, RowSet
    <3> QED BY <3>1, <3>2 DEF Amounts
  <2> QED BY <2>1
<1>6. ASSUME NEW S \in SUBSET Rows(r)
      PROVE  IsFiniteSet(S) /\ SumFunctionOnSet(Amounts, S) \in Nat
  <2>1. IsFiniteSet(S)
    BY <1>4, FS_Subset
  <2>2. \A i \in S : Amounts[i] \in Nat
    BY <1>5
  <2> QED BY <2>1, <2>2, SumIsNat
<1> QED BY <1>4, <1>5, <1>6

(* Fewer rows add up to less. *)
LEMMA FewerRows ==
  ASSUME ReferralTypes, NEW r \in Referrer, NEW T \in SUBSET Rows(r), NEW S \in SUBSET T
  PROVE  SumFunctionOnSet(Amounts, S) <= SumFunctionOnSet(Amounts, T)
<1>1. IsFiniteSet(T) /\ \A i \in T : Amounts[i] \in Nat
  BY RowsAddUp
<1>2. \A i \in S : Amounts[i] \in Nat /\ Amounts[i] <= Amounts[i]
  BY <1>1
<1> QED BY <1>1, <1>2, SumGrows

(* Of some rows, one is the last. *)
LEMMA LastRow ==
  ASSUME NEW N \in Nat, NEW S \in SUBSET (1..N), S # {}
  PROVE  \E m \in S : \A i \in S : i <= m
<1> DEFINE left == {N - i : i \in S}
<1>1. left \subseteq Nat /\ left # {}
  <2>1. \A i \in S : i \in 1..N /\ N - i \in Nat
    OBVIOUS
  <2> QED BY <2>1
<1>2. PICK n \in left : \A k \in left : ~(<<k, n>> \in OpToRel(<, Nat))
  <2> HIDE DEF left
  <2> QED BY <1>1, NatLessThanWellFounded, WFMin
<1>3. PICK m \in S : n = N - m
  OBVIOUS
<1>4. ASSUME NEW i \in S PROVE i <= m
  <2>1. N - i \in left /\ n \in Nat /\ N - i \in Nat
    BY <1>1
  <2>2. ~(N - i < n)
    BY <1>2, <2>1 DEF OpToRel
  <2> QED BY <1>3, <2>2
<1> QED BY <1>4

(* The sums of the marked rows follow: the last marked row covers them all. *)
LEMMA BooksImply ==
  ASSUME ReferralInv PROVE BooksAgree
<1>1. AttributionSticks
  BY DEF AttributionSticks, ReferralInv, ReferralTypes, RowOK, OrderOK
<1> SUFFICES ASSUME NEW r \in Referrer
             PROVE  /\ paidOut[r] <= Earned(r)
                    /\ paidOut[r] = Earned(r) => MarkedPaid(r) = Earned(r)
                    /\ r \notin misdated => MarkedPaid(r) <= paidOut[r]
  BY <1>1 DEF BooksAgree
<1> DEFINE done == {i \in Rows(r) : ledger[i].marked}
<1>2. ReferralTypes /\ Books(r) /\ paidOut[r] \in Nat
  BY DEF ReferralInv, ReferralTypes
<1>3. done \in SUBSET Rows(r) /\ IsFiniteSet(done) /\ MarkedPaid(r) \in Nat
  BY <1>2, RowsAddUp DEF MarkedPaid
<1>4. ASSUME r \notin misdated PROVE MarkedPaid(r) <= paidOut[r]
  <2>1. CASE done = {}
    <3>1. IsFiniteSet({}) /\ \A i \in {} : Amounts[i] = 0
      BY FS_EmptySet
    <3>2. SumFunctionOnSet(Amounts, {}) = 0
      BY <3>1, SumOfNothing
    <3> QED BY <1>2, <2>1, <3>2 DEF MarkedPaid
  <2>2. CASE done # {}
    <3>1. Len(ledger) \in Nat /\ done \in SUBSET (1..Len(ledger))
      BY <1>2 DEF Rows, ReferralTypes
    <3>2. PICK m \in done : \A i \in done : i <= m
      <4> HIDE DEF done
      <4> QED BY <2>2, <3>1, LastRow
    <3> DEFINE early == {j \in Rows(r) : NoLater(j, m)}
    <3>3. ASSUME NEW i \in done PROVE NoLater(i, m)
      <4>1. i <= m /\ ledger[i].at <= ledger[m].at
        BY <1>2, <1>4, <3>2 DEF Books
      <4>2. ledger[i].at \in Nat /\ ledger[m].at \in Nat
        BY <1>2, <3>2 DEF ReferralTypes, RowOK, RowSet, Rows
      <4>3. i \in Rows(r) /\ m \in Rows(r)
        BY <3>2
      <4> HIDE DEF done
      <4> QED BY <4>1, <4>2 DEF NoLater
    <3>4. early \in SUBSET Rows(r) /\ done \in SUBSET early
      BY <3>3
    <3>5. MarkedPaid(r) <= SumFunctionOnSet(Amounts, early)
      BY <1>2, <3>4, FewerRows DEF MarkedPaid
    <3>6. SumFunctionOnSet(Amounts, early) <= paidOut[r]
      BY <1>2, <1>4 DEF Books, Covered
    <3>7. SumFunctionOnSet(Amounts, early) \in Nat
      BY <1>2, <3>4, RowsAddUp
    <3> QED BY <1>2, <1>3, <3>5, <3>6, <3>7
  <2> QED BY <2>1, <2>2
<1>5. paidOut[r] = Earned(r) => MarkedPaid(r) = Earned(r)
  <2>1. ASSUME paidOut[r] = Earned(r) PROVE done = Rows(r)
    BY <1>2, <2>1 DEF Books
  <2> QED BY <2>1 DEF MarkedPaid, Earned
<1> QED BY <1>2, <1>4, <1>5 DEF Books

(* Referrers: who is asked first for a commission, and what a link changes. *)
LEMMA WhoEarns ==
  ASSUME ReferralTypes, NEW o \in DOMAIN shopOrder
  PROVE  /\ ReferrerOf(o) \in AnyReferrer
         /\ LET c == shopOrder[o].customer
            IN attribution[c] # NoReferrer => ReferrerOf(o) = attribution[c]
<1> DEFINE first == IF shopOrder[o].renews = 0 THEN o ELSE shopOrder[o].renews
           asked == <<attribution[shopOrder[o].customer], shopOrder[o].ref,
                      attribution[shopOrder[first].customer], shopOrder[first].ref>>
           found == {k \in 1..4 : asked[k] # NoReferrer}
<1>1. first \in DOMAIN shopOrder
  BY DEF ReferralTypes, OrderOK, OrderSet
<1>2. /\ attribution[shopOrder[o].customer] \in AnyReferrer /\ shopOrder[o].ref \in AnyReferrer
      /\ attribution[shopOrder[first].customer] \in AnyReferrer /\ shopOrder[first].ref \in AnyReferrer
  <2> HIDE DEF first
  <2> QED BY <1>1 DEF ReferralTypes, OrderOK, OrderSet
<1>3. ReferrerOf(o) = IF found = {} THEN NoReferrer ELSE asked[Min(found)]
  BY DEF ReferrerOf
<1> HIDE DEF first
<1>4. \A k \in 1..4 : asked[k] \in AnyReferrer
  <2>1. /\ asked[1] = attribution[shopOrder[o].customer] /\ asked[2] = shopOrder[o].ref
        /\ asked[3] = attribution[shopOrder[first].customer] /\ asked[4] = shopOrder[first].ref
    OBVIOUS
  <2> HIDE DEF asked
  <2>2. \A k \in 1..4 : k = 1 \/ k = 2 \/ k = 3 \/ k = 4
    OBVIOUS
  <2> QED BY <1>2, <2>1, <2>2
<1>5. asked[1] = attribution[shopOrder[o].customer]
  OBVIOUS
<1> HIDE DEF asked
<1>6. ASSUME found # {}
      PROVE  Min(found) \in found /\ \A k \in found : Min(found) <= k
  <2>1. \E m \in found : \A k \in found : m <= k
    <3>1. CASE 1 \in found
      BY <3>1
    <3>2. CASE 1 \notin found /\ 2 \in found
      BY <3>2
    <3>3. CASE 1 \notin found /\ 2 \notin found /\ 3 \in found
      BY <3>3
    <3>4. CASE 1 \notin found /\ 2 \notin found /\ 3 \notin found
      BY <1>6, <3>4
    <3> QED BY <3>1, <3>2, <3>3, <3>4
  <2> HIDE DEF found
  <2> QED BY <2>1 DEF Min
<1>7. ReferrerOf(o) \in AnyReferrer
  BY <1>3, <1>4, <1>6 DEF AnyReferrer
<1>8. ASSUME attribution[shopOrder[o].customer] # NoReferrer
      PROVE  ReferrerOf(o) = attribution[shopOrder[o].customer]
  <2>1. 1 \in found
    BY <1>5, <1>8
  <2>2. Min(found) = 1
    <3>1. Min(found) \in found /\ Min(found) <= 1
      BY <1>6, <2>1
    <3> QED BY <3>1
  <2> QED BY <1>3, <1>5, <2>1, <2>2
<1> QED BY <1>7, <1>8

(* A link changes nothing for a customer whom somebody brought. *)
LEMMA LinkOnce ==
  ASSUME ReferralTypes, NEW c \in Customer, NEW r \in AnyReferrer
  PROVE  /\ Attach(c, r) \in [Customer -> AnyReferrer]
         /\ \A d \in Customer : attribution[d] # NoReferrer => Attach(c, r)[d] = attribution[d]
BY DEF ReferralTypes, Attach

(* What is booked stays as it was when neither rows nor payouts change. *)
LEMMA BooksUntouched ==
  ASSUME NEW r \in Referrer, Books(r), UNCHANGED <<ledger, paidOut, misdated>>
  PROVE  Books(r)'
<1>1. Earned(r)' = Earned(r) /\ Rows(r)' = Rows(r)
  BY DEF Earned, Rows, Amounts
<1>2. \A i : Covered(r, paidOut[r], i)' = Covered(r, paidOut[r], i)
  BY DEF Covered, Rows, Amounts, NoLater
<1> QED BY <1>1, <1>2 DEF Books

(* An order appended or closed leaves the rows what they were. *)
LEMMA OrdersMove ==
  ASSUME ReferralInv, UNCHANGED <<ledger, paidOut, misdated>>,
         shopOrder' \in Seq(OrderSet),
         DOMAIN shopOrder \subseteq DOMAIN shopOrder',
         \A o \in DOMAIN shopOrder' : OrderOK(shopOrder[o])',
         attribution' \in [Customer -> AnyReferrer],
         pressed' = NoPress \/ pressed' \in [referrer : Referrer, amount : Nat],
         \A o \in DOMAIN shopOrder : shopOrder'[o].brought = shopOrder[o].brought
  PROVE  ReferralInv'
<1>1. ReferralTypes'
  <2>1. \A i \in DOMAIN ledger : RowOK(ledger[i])'
    BY DEF RowOK, RowSet, ReferralInv, ReferralTypes
  <2>2. OrderSet' = OrderSet /\ RowSet' = RowSet /\ NoPress' = NoPress
    BY DEF OrderSet, RowSet, NoPress
  <2> QED BY <2>1, <2>2 DEF ReferralInv, ReferralTypes
<1>2. \A r \in Referrer : Books(r)'
  BY BooksUntouched DEF ReferralInv
<1> QED BY <1>1, <1>2 DEF ReferralInv

(* Amounts: the lesser of two, and a debt that the books do not exceed. *)
LEMMA LeastOfTwo ==
  ASSUME NEW a \in Nat, NEW b \in Nat
  PROVE  Min({a, b}) \in {a, b} /\ Min({a, b}) <= a /\ Min({a, b}) <= b /\ Min({a, b}) \in Nat
<1>1. \E x \in {a, b} : \A y \in {a, b} : x <= y
  <2>1. CASE a <= b
    BY <2>1
  <2>2. CASE ~(a <= b)
    BY <2>2
  <2> QED BY <2>1, <2>2
<1>2. Min({a, b}) \in {a, b} /\ \A y \in {a, b} : Min({a, b}) <= y
  BY <1>1 DEF Min
<1> QED BY <1>2

(* The balance of a referrer is what he earned less what he was paid. *)
LEMMA DebtIs ==
  ASSUME ReferralTypes, NEW r \in Referrer
  PROVE  /\ Balance(r) \in Nat /\ Earned(r) \in Nat /\ paidOut[r] \in Nat
         /\ paidOut[r] <= Earned(r) => Balance(r) = Earned(r) - paidOut[r]
<1> DEFINE owed == Earned(r) - paidOut[r]
<1>1. Earned(r) \in Nat /\ paidOut[r] \in Nat
  BY RowsAddUp DEF Earned, ReferralTypes
<1>2. owed \in Int /\ (paidOut[r] <= Earned(r) <=> owed >= 0)
  BY <1>1
<1>3. Balance(r) = Max({0, owed})
  BY DEF Balance
<1> HIDE DEF owed
<1>4. \E x \in {0, owed} : \A y \in {0, owed} : x >= y
  <2>1. CASE owed >= 0
    BY <1>2, <2>1
  <2>2. CASE ~(owed >= 0)
    BY <1>2, <2>2
  <2> QED BY <2>1, <2>2
<1>5. Max({0, owed}) \in {0, owed} /\ \A y \in {0, owed} : Max({0, owed}) >= y
  BY <1>4 DEF Max
<1>6. Balance(r) \in Nat /\ (owed >= 0 => Balance(r) = owed)
  BY <1>2, <1>3, <1>5
<1> QED BY <1>1, <1>2, <1>6 DEF owed

(* A new order leaves the other orders, and the books, as they are. *)
LEMMA OrderAppended ==
  ASSUME ReferralInv, NEW o \in OrderSet,
         o.renews = 0 \/ o.renews \in DOMAIN shopOrder,
         o.brought # NoReferrer => attribution'[o.customer] = o.brought,
         shopOrder' = Append(shopOrder, o), UNCHANGED <<ledger, paidOut, pressed, misdated>>,
         attribution' \in [Customer -> AnyReferrer],
         \A d \in Customer : attribution[d] # NoReferrer => attribution'[d] = attribution[d]
  PROVE  ReferralInv'
<1>1. /\ shopOrder \in Seq(OrderSet)
      /\ \A q \in DOMAIN shopOrder : OrderOK(shopOrder[q])
      /\ pressed = NoPress \/ pressed \in [referrer : Referrer, amount : Nat]
  BY DEF ReferralInv, ReferralTypes
<1>2. /\ shopOrder' \in Seq(OrderSet)
      /\ DOMAIN shopOrder \subseteq DOMAIN shopOrder'
      /\ \A q \in DOMAIN shopOrder : shopOrder'[q] = shopOrder[q]
      /\ \A q \in DOMAIN shopOrder' : q \in DOMAIN shopOrder \/ shopOrder'[q] = o
  BY <1>1
<1>3. ASSUME NEW q \in DOMAIN shopOrder' PROVE OrderOK(shopOrder[q])'
  <2>1. CASE q \in DOMAIN shopOrder
    BY <1>1, <1>2, <2>1 DEF OrderOK, OrderSet
  <2>2. CASE shopOrder'[q] = o
    BY <1>2, <2>2 DEF OrderOK, OrderSet
  <2> QED BY <1>2, <2>1, <2>2
<1>4. /\ UNCHANGED <<ledger, paidOut, misdated>>
      /\ pressed' = NoPress \/ pressed' \in [referrer : Referrer, amount : Nat]
      /\ \A q \in DOMAIN shopOrder : shopOrder'[q].brought = shopOrder[q].brought
  BY <1>1, <1>2
<1> QED BY <1>2, <1>3, <1>4, OrdersMove

(* A function of 1..n is a sequence. *)
LEMMA IsASeq ==
  ASSUME NEW S, NEW n \in Nat, NEW f, f = [i \in 1..n |-> f[i]], \A i \in 1..n : f[i] \in S
  PROVE  f \in Seq(S)
OBVIOUS

(* The fields of an order written over. *)
LEMMA OrderWritten ==
  ASSUME ReferralInv, NEW q \in DOMAIN shopOrder, NEW s \in OrderState, NEW b \in BookState,
         shopOrder' = [shopOrder EXCEPT ![q].state = s, ![q].books = b],
         UNCHANGED attribution
  PROVE  /\ shopOrder' \in Seq(OrderSet) /\ DOMAIN shopOrder' = DOMAIN shopOrder
         /\ \A o \in DOMAIN shopOrder' : OrderOK(shopOrder[o])'
         /\ \A o \in DOMAIN shopOrder : shopOrder'[o].brought = shopOrder[o].brought
<1>1. shopOrder \in Seq(OrderSet) /\ \A o \in DOMAIN shopOrder : OrderOK(shopOrder[o])
  BY DEF ReferralInv, ReferralTypes
<1>2. PICK x : x = shopOrder[q]
  OBVIOUS
<1>3. PICK y : y = [x EXCEPT !.state = s, !.books = b]
  OBVIOUS
<1>4. x \in OrderSet
  BY <1>1, <1>2 DEF OrderOK
<1>5. /\ y \in OrderSet /\ y.brought = x.brought /\ y.renews = x.renews
      /\ y.customer = x.customer
  BY <1>3, <1>4 DEF OrderSet
<1>6. shopOrder' = [shopOrder EXCEPT ![q] = y]
  BY <1>2, <1>3
<1>7. /\ shopOrder' \in Seq(OrderSet) /\ DOMAIN shopOrder' = DOMAIN shopOrder
      /\ shopOrder'[q] = y /\ \A o \in DOMAIN shopOrder \ {q} : shopOrder'[o] = shopOrder[o]
  <2>1. /\ DOMAIN shopOrder' = DOMAIN shopOrder
        /\ shopOrder'[q] = y /\ \A o \in DOMAIN shopOrder \ {q} : shopOrder'[o] = shopOrder[o]
    BY <1>6
  <2>2. PICK n \in Nat : DOMAIN shopOrder = 1..n
    BY <1>1
  <2>3. \A o \in 1..n : shopOrder'[o] \in OrderSet
    BY <1>1, <1>5, <2>1, <2>2
  <2>4. shopOrder' = [o \in 1..n |-> shopOrder'[o]]
    BY <1>6, <2>2
  <2> QED BY <2>1, <2>3, <2>4, IsASeq
<1>8. ASSUME NEW o \in DOMAIN shopOrder' PROVE OrderOK(shopOrder[o])'
  <2>1. OrderSet' = OrderSet
    BY DEF OrderSet
  <2>2. CASE o = q
    BY <1>1, <1>2, <1>5, <1>7, <2>1, <2>2 DEF OrderOK
  <2>3. CASE o # q
    BY <1>1, <1>7, <2>1, <2>3 DEF OrderOK
  <2> QED BY <2>2, <2>3
<1>9. \A o \in DOMAIN shopOrder : shopOrder'[o].brought = shopOrder[o].brought
  BY <1>2, <1>5, <1>7
<1> QED BY <1>7, <1>8, <1>9

(* Steps of an order that book nothing keep the books. *)
LEMMA OrderStep ==
  ASSUME ReferralInv,
         \/ \E c \in Customer :
              \/ \E r \in Referrer : FollowLink(c, r)
              \/ \E r \in AnyReferrer : PlaceOrder(c, r)
              \/ \E o \in DOMAIN shopOrder : PlaceRenewal(c, o)
         \/ \E o \in DOMAIN shopOrder, s \in {"delivered", "cancelled"} : CloseOrder(o, s)
         \/ \E r \in Referrer, amount \in 1..(2 * MaxOrders) : PressPayout(r, amount)
  PROVE  ReferralInv'
<1>1. /\ ReferralTypes
      /\ attribution \in [Customer -> AnyReferrer]
      /\ shopOrder \in Seq(OrderSet)
      /\ \A o \in DOMAIN shopOrder : OrderOK(shopOrder[o])
      /\ pressed = NoPress \/ pressed \in [referrer : Referrer, amount : Nat]
  BY DEF ReferralInv, ReferralTypes
<1>3. ASSUME NEW c \in Customer, NEW r \in Referrer, FollowLink(c, r)
      PROVE  ReferralInv'
  <2>1. /\ attribution' = Attach(c, r) /\ shopOrder' = shopOrder
        /\ UNCHANGED <<ledger, paidOut, misdated>> /\ pressed' = pressed
    BY <1>3 DEF FollowLink
  <2>2. /\ attribution' \in [Customer -> AnyReferrer]
        /\ \A d \in Customer : attribution[d] # NoReferrer => attribution'[d] = attribution[d]
    BY <1>1, <2>1, LinkOnce DEF AnyReferrer
  <2>3. ASSUME NEW o \in DOMAIN shopOrder' PROVE OrderOK(shopOrder[o])'
    BY <1>1, <2>1, <2>2 DEF OrderOK, OrderSet
  <2> QED BY <1>1, <2>1, <2>2, <2>3, OrdersMove
<1>4. ASSUME NEW c \in Customer, NEW r \in AnyReferrer, PlaceOrder(c, r)
      PROVE  ReferralInv'
  <2>1. PICK ref \in AnyReferrer :
           /\ attribution' = IF ref = NoReferrer THEN attribution ELSE Attach(c, ref)
           /\ shopOrder' = Append(shopOrder, NewOrder(c, ref, 0, attribution'[c]))
    BY <1>4 DEF PlaceOrder, AnyReferrer
  <2>2. /\ attribution' \in [Customer -> AnyReferrer]
        /\ \A d \in Customer : attribution[d] # NoReferrer => attribution'[d] = attribution[d]
    BY <1>1, <2>1, LinkOnce
  <2> DEFINE o == NewOrder(c, ref, 0, attribution'[c])
  <2>3. o \in OrderSet /\ o.renews = 0 /\ o.customer = c /\ o.brought = attribution'[c]
    BY <2>2 DEF NewOrder, OrderSet, OrderState, BookState
  <2>4. shopOrder' = Append(shopOrder, o) /\ UNCHANGED <<ledger, paidOut, pressed, misdated>>
    BY <1>4, <2>1 DEF PlaceOrder
  <2> HIDE DEF o
  <2> QED BY <2>2, <2>3, <2>4, OrderAppended
<1>5. ASSUME NEW c \in Customer, NEW first \in DOMAIN shopOrder, PlaceRenewal(c, first)
      PROVE  ReferralInv'
  <2> DEFINE o == NewOrder(c, NoReferrer, first, attribution[c])
  <2>1. first \in Nat
    BY <1>1
  <2>2. /\ o \in OrderSet /\ o.renews = first /\ o.customer = c /\ o.brought = attribution[c]
    BY <1>1, <2>1 DEF NewOrder, OrderSet, OrderState, BookState, AnyReferrer
  <2>3. shopOrder' = Append(shopOrder, o) /\ UNCHANGED <<attribution, ledger, paidOut, pressed, misdated>>
    BY <1>5 DEF PlaceRenewal
  <2> HIDE DEF o
  <2> QED BY <1>1, <2>2, <2>3, OrderAppended
<1>6. ASSUME NEW q \in DOMAIN shopOrder, NEW s \in {"delivered", "cancelled"}, CloseOrder(q, s)
      PROVE  ReferralInv'
  <2>1. PICK b : b = IF s = "delivered" /\ shopOrder[q].books = "none" THEN "due" ELSE shopOrder[q].books
    OBVIOUS
  <2>2. shopOrder' = [shopOrder EXCEPT ![q].state = s, ![q].books = b]
    BY <1>6, <2>1 DEF CloseOrder
  <2>3. UNCHANGED <<ledger, paidOut, misdated>> /\ UNCHANGED <<attribution, pressed>>
    BY <1>6 DEF CloseOrder
  <2>4. s \in OrderState /\ b \in BookState
    BY <1>1, <2>1 DEF OrderOK, OrderSet, OrderState, BookState
  <2>5. /\ shopOrder' \in Seq(OrderSet) /\ DOMAIN shopOrder' = DOMAIN shopOrder
        /\ \A o \in DOMAIN shopOrder' : OrderOK(shopOrder[o])'
        /\ \A o \in DOMAIN shopOrder : shopOrder'[o].brought = shopOrder[o].brought
    BY <2>2, <2>3, <2>4, OrderWritten
  <2> QED BY <1>1, <2>3, <2>5, OrdersMove
<1>7. ASSUME NEW r \in Referrer, NEW amount \in 1..(2 * MaxOrders), PressPayout(r, amount)
      PROVE  ReferralInv'
  <2>1. /\ pressed' = [referrer |-> r, amount |-> Min({amount, Balance(r)})]
        /\ UNCHANGED <<ledger, paidOut, misdated>> /\ UNCHANGED <<attribution, shopOrder>>
    BY <1>7 DEF PressPayout
  <2>2. Balance(r) \in Nat
    BY <1>1, DebtIs
  <2>3. Min({amount, Balance(r)}) \in Nat
    <3>1. amount \in Nat
      BY ReferralAssumption
    <3> QED BY <2>2, <3>1, LeastOfTwo
  <2>4. pressed' \in [referrer : Referrer, amount : Nat]
    BY <2>1, <2>3
  <2>5. \A o \in DOMAIN shopOrder' : OrderOK(shopOrder[o])'
    BY <1>1, <2>1 DEF OrderOK, OrderSet
  <2> QED BY <1>1, <2>1, <2>4, <2>5, OrdersMove
<1> QED BY <1>3, <1>4, <1>5, <1>6, <1>7

(* The same of the rows of the next state. *)
LEMMA RowsPrimed ==
  ASSUME ReferralTypes', NEW r \in Referrer
  PROVE  IsFiniteSet(Rows(r)') /\ \A i \in Rows(r)' : Amounts'[i] \in Nat /\ Amounts'[i] > 0
<1>1. DOMAIN ledger' = 1..Len(ledger') /\ Len(ledger') \in Nat
  BY DEF ReferralTypes
<1>2. Rows(r)' \subseteq 1..Len(ledger')
  BY <1>1 DEF Rows
<1>3. IsFiniteSet(Rows(r)')
  <2>1. IsFiniteSet(1..Len(ledger'))
    BY <1>1, FS_Interval
  <2> QED BY <1>2, <2>1, FS_Subset
<1>4. ASSUME NEW i \in Rows(r)' PROVE Amounts'[i] \in {1, 2}
  <2>1. i \in DOMAIN ledger' /\ RowOK(ledger[i])'
    BY DEF Rows, ReferralTypes
  <2>2. ledger'[i].amount \in {1, 2}
    BY <2>1 DEF RowOK, RowSet
  <2> QED BY <2>1, <2>2 DEF Amounts
<1> QED BY <1>3, <1>4

(* A row at the end: what is booked before it stays, and its referrer is owed more. *)
LEMMA RowAppended ==
  ASSUME ReferralInv, NEW w \in RowSet, ~w.marked, ledger' = Append(ledger, w),
         UNCHANGED <<paidOut, pressed, attribution>>,
         misdated' = IF \E i \in Rows(w.referrer) : ledger[i].at > w.at THEN misdated \cup {w.referrer} ELSE misdated,
         NEW r \in Referrer, ReferralTypes'
  PROVE  Books(r)'
<1>1. /\ ledger \in Seq(RowSet)
      /\ ReferralTypes /\ Books(r) /\ paidOut[r] \in Nat
  BY DEF ReferralInv, ReferralTypes
<1> DEFINE new == Len(ledger) + 1
           mine == IF w.referrer = r THEN {new} ELSE {}
<1>2. /\ Len(ledger) \in Nat /\ DOMAIN ledger = 1..Len(ledger) /\ DOMAIN ledger' = 1..new
      /\ \A i \in DOMAIN ledger : ledger'[i] = ledger[i]
      /\ ledger'[new] = w
  BY <1>1
<1>3. Rows(r) \subseteq DOMAIN ledger /\ Rows(r)' = Rows(r) \cup mine /\ Rows(r) \cap mine = {}
  BY <1>2 DEF Rows
<1>4. \A i \in DOMAIN ledger : Amounts'[i] = Amounts[i]
  BY <1>2 DEF Amounts
<1>5. \A i \in Rows(r)' : Amounts'[i] \in Nat /\ Amounts'[i] > 0
  <2>1. IsFiniteSet(Rows(r)') /\ \A i \in Rows(r)' : Amounts'[i] \in Nat /\ Amounts'[i] > 0
    BY RowsPrimed
  <2> QED BY <2>1
<1>6. ASSUME NEW S \in SUBSET Rows(r)
      PROVE  SumFunctionOnSet(Amounts', S) = SumFunctionOnSet(Amounts, S) /\ SumFunctionOnSet(Amounts, S) \in Nat
  <2>1. IsFiniteSet(S) /\ SumFunctionOnSet(Amounts, S) \in Nat
    BY <1>1, RowsAddUp
  <2>2. \A i \in S : Amounts[i] \in Nat /\ Amounts'[i] = Amounts[i]
    BY <1>1, <1>3, <1>4, RowsAddUp
  <2> QED BY <2>1, <2>2, SumSame
<1>7. Earned(r) \in Nat /\ SumFunctionOnSet(Amounts', Rows(r)) = Earned(r)
  BY <1>6 DEF Earned
<1>8. \/ w.referrer = r /\ Earned(r)' > Earned(r)
      \/ w.referrer # r /\ Earned(r)' = Earned(r)
  <2>1. CASE w.referrer = r
    <3>1. IsFiniteSet(Rows(r)) /\ IsFiniteSet(mine)
      BY <1>1, RowsAddUp, FS_Singleton, FS_EmptySet
    <3>2. mine = {new}
      BY <2>1
    <3>3. new \in Rows(r)'
      BY <1>3, <3>2
    <3> HIDE DEF mine, new
    <3>4. \A i \in Rows(r) \cup mine : Amounts'[i] \in Nat
      BY <1>3, <1>5
    <3>5. SumFunctionOnSet(Amounts', Rows(r) \cup mine) =
            SumFunctionOnSet(Amounts', Rows(r)) + SumFunctionOnSet(Amounts', mine)
      BY <1>3, <3>1, <3>4, SumSplit
    <3>6. new \in mine /\ mine \ {new} = {} /\ \A i \in mine : Amounts'[i] \in Nat
      BY <3>2, <3>4
    <3>7. SumFunctionOnSet(Amounts', mine) = Amounts'[new] + SumFunctionOnSet(Amounts', mine \ {new})
      BY <3>1, <3>6, SumWithout
    <3>8. SumFunctionOnSet(Amounts', {}) = 0
      <4>1. IsFiniteSet({}) /\ \A i \in {} : Amounts'[i] = 0
        BY FS_EmptySet
      <4> QED BY <4>1, SumOfNothing
    <3>9. Amounts'[new] \in Nat /\ Amounts'[new] > 0
      BY <1>5, <3>3
    <3>10. SumFunctionOnSet(Amounts', mine) = Amounts'[new] + 0
      BY <3>6, <3>7, <3>8, Zenon
    <3>11. Earned(r)' = SumFunctionOnSet(Amounts', Rows(r) \cup mine)
      BY <1>3 DEF Earned
    <3>12. Earned(r)' = Earned(r) + SumFunctionOnSet(Amounts', mine)
      BY <1>7, <3>5, <3>11, Zenon
    <3> QED BY <1>7, <2>1, <3>9, <3>10, <3>12
  <2>2. CASE w.referrer # r
    <3>1. Rows(r)' = Rows(r)
      BY <1>3, <2>2
    <3> QED BY <1>7, <2>2, <3>1 DEF Earned
  <2> QED BY <2>1, <2>2
<1>9. ASSUME r \notin misdated'
      PROVE  /\ \A i, j \in Rows(r)' : i <= j => ledger'[i].at <= ledger'[j].at
             /\ \A i \in Rows(r)' : ledger'[i].marked => Covered(r, paidOut[r], i)'
  <2>1. r \notin misdated /\ (w.referrer = r => \A i \in Rows(r) : ~(ledger[i].at > w.at))
    BY <1>9
  <2>2. /\ \A i, j \in Rows(r) : i <= j => ledger[i].at <= ledger[j].at
        /\ \A i \in Rows(r) : ledger[i].marked => Covered(r, paidOut[r], i)
    BY <1>1, <2>1 DEF Books
  <2>3. w.at \in Nat /\ \A i \in Rows(r) : ledger[i].at \in Nat /\ ledger'[i] = ledger[i] /\ i \in Nat /\ i < new
    BY <1>1, <1>2, <1>3 DEF ReferralTypes, RowOK, RowSet
  <2>4. \A i \in mine : i = new /\ ledger'[i] = w /\ w.referrer = r
    BY <1>2
  <2>5. ASSUME NEW i \in Rows(r)', NEW j \in Rows(r)', i <= j
        PROVE  ledger'[i].at <= ledger'[j].at
    <3>0. new \in Nat
      BY <1>2
    <3> HIDE DEF mine, new
    <3>1. CASE i \in Rows(r) /\ j \in Rows(r)
      BY <2>2, <2>3, <2>5, <3>1
    <3>2. CASE i \in Rows(r) /\ j \in mine
      <4>1. ledger'[i].at = ledger[i].at /\ ledger[i].at \in Nat
        BY <2>3, <3>2
      <4>2. ledger'[j].at = w.at /\ ~(ledger[i].at > w.at)
        BY <2>1, <2>4, <3>2
      <4> QED BY <2>3, <4>1, <4>2
    <3>3. CASE i \in mine /\ j \in mine
      <4>1. ledger'[i].at = w.at /\ ledger'[j].at = w.at
        BY <2>4, <3>3
      <4> QED BY <2>3, <4>1
    <3>4. CASE i \in mine /\ j \in Rows(r)
      <4>1. i = new /\ j < new /\ j \in Nat /\ new \in Nat
        BY <2>3, <2>4, <3>0, <3>4
      <4> QED BY <2>5, <4>1
    <3> QED BY <1>3, <3>1, <3>2, <3>3, <3>4
  <2>6. ASSUME NEW i \in Rows(r)', ledger'[i].marked
        PROVE  Covered(r, paidOut[r], i)'
    <3>1. i \in Rows(r) /\ ledger[i].marked
      BY <1>3, <2>3, <2>4, <2>6
    <3>2. Covered(r, paidOut[r], i)
      BY <2>2, <3>1
    <3> DEFINE early == {j \in Rows(r) : NoLater(j, i)}
    <3>3. \A j \in Rows(r) : NoLater(j, i)' <=> NoLater(j, i)
      BY <2>3, <3>1 DEF NoLater
    <3>4. \A j \in mine : ~NoLater(j, i)'
      <4>1. ASSUME NEW j \in mine PROVE ~NoLater(j, i)'
        <5>1. j = new /\ ledger'[j] = w /\ w.referrer = r
          BY <2>4
        <5>2. ledger'[i] = ledger[i] /\ i < new /\ i \in Nat /\ new \in Nat /\ ledger[i].at \in Nat
          <6>1. Len(ledger) \in Nat
            BY <1>2
          <6>2. new \in Nat
            BY <6>1
          <6> HIDE DEF new
          <6> QED BY <2>3, <3>1, <6>2
        <5> HIDE DEF new, mine
        <5>3. ~(ledger[i].at > w.at)
          BY <2>1, <3>1, <5>1
        <5> QED BY <2>3, <5>1, <5>2, <5>3 DEF NoLater
      <4> QED BY <4>1
    <3>5. {j \in Rows(r)' : NoLater(j, i)'} = early
      <4> HIDE DEF mine
      <4> QED BY <1>3, <3>3, <3>4
    <3>6. SumFunctionOnSet(Amounts', early) = SumFunctionOnSet(Amounts, early)
      BY <1>6
    <3> QED BY <3>2, <3>5, <3>6 DEF Covered
  <2> QED BY <2>5, <2>6
<1>10. ASSUME paidOut'[r] = Earned(r)', NEW i \in Rows(r)'
       PROVE  ledger'[i].marked
  <2>1. w.referrer # r /\ paidOut[r] = Earned(r)
    BY <1>1, <1>7, <1>8, <1>10 DEF Books
  <2>2. i \in Rows(r)
    BY <1>3, <2>1
  <2> QED BY <1>1, <1>2, <1>3, <2>1, <2>2 DEF Books
<1>11. paidOut'[r] <= Earned(r)'
  <2>1. paidOut'[r] = paidOut[r] /\ paidOut[r] <= Earned(r)
    BY <1>1 DEF Books
  <2>2. Earned(r)' \in Nat
    <3>1. IsFiniteSet(Rows(r)') /\ \A i \in Rows(r)' : Amounts'[i] \in Nat
      BY RowsPrimed
    <3> QED BY <3>1, SumIsNat DEF Earned
  <2> QED BY <1>1, <1>7, <1>8, <2>1, <2>2
<1> QED BY <1>9, <1>10, <1>11 DEF Books

(* A commission is the last row of the ledger. *)
LEMMA BookStep ==
  ASSUME ReferralInv, NEW o \in DOMAIN shopOrder, BookCommission(o)
  PROVE  ReferralInv'
<1>1. /\ ReferralTypes
      /\ shopOrder \in Seq(OrderSet) /\ ledger \in Seq(RowSet)
      /\ \A q \in DOMAIN shopOrder : OrderOK(shopOrder[q])
      /\ \A i \in DOMAIN ledger : RowOK(ledger[i])
      /\ attribution \in [Customer -> AnyReferrer]
      /\ paidOut \in [Referrer -> Nat]
      /\ pressed = NoPress \/ pressed \in [referrer : Referrer, amount : Nat]
  BY DEF ReferralInv, ReferralTypes
<1>2. UNCHANGED <<attribution, paidOut, pressed>>
  BY DEF BookCommission
<1>3. PICK s, b : /\ s = shopOrder[o].state /\ b \in {"none", "done"}
                  /\ shopOrder' = [shopOrder EXCEPT ![o].books = b]
  BY DEF BookCommission
<1>4. /\ shopOrder' \in Seq(OrderSet) /\ DOMAIN shopOrder' = DOMAIN shopOrder
      /\ \A q \in DOMAIN shopOrder' : OrderOK(shopOrder[q])'
      /\ \A q \in DOMAIN shopOrder : shopOrder'[q].brought = shopOrder[q].brought
  <2>1. s \in OrderState /\ b \in BookState
    BY <1>1, <1>3 DEF OrderOK, OrderSet, BookState
  <2>2. [shopOrder[o] EXCEPT !.books = b] = [shopOrder[o] EXCEPT !.state = s, !.books = b]
    <3>1. PICK x : x = shopOrder[o]
      OBVIOUS
    <3>2. x \in OrderSet /\ x.state = s
      BY <1>1, <1>3, <3>1 DEF OrderOK
    <3>3. [x EXCEPT !.books = b] = [x EXCEPT !.state = s, !.books = b]
      BY <3>2 DEF OrderSet
    <3> QED BY <3>1, <3>3
  <2>3. shopOrder' = [shopOrder EXCEPT ![o].state = s, ![o].books = b]
    BY <1>3, <2>2
  <2> QED BY <1>2, <2>1, <2>3, OrderWritten
<1>5. CASE ledger' = ledger /\ misdated' = misdated
  BY <1>1, <1>2, <1>4, <1>5, OrdersMove
<1>6. CASE ReferrerOf(o) # NoReferrer
  <2>1. PICK at \in Stamp :
          /\ ledger' = Append(ledger, [referrer |-> ReferrerOf(o), order |-> o, amount |-> Commission(o),
                                      at |-> at, marked |-> FALSE])
          /\ misdated' = IF \E i \in Rows(ReferrerOf(o)) : ledger[i].at > at
                      THEN misdated \cup {ReferrerOf(o)} ELSE misdated
    BY <1>6 DEF BookCommission
  <2> DEFINE row == [referrer |-> ReferrerOf(o), order |-> o, amount |-> Commission(o),
                     at |-> at, marked |-> FALSE]
  <2>2. PICK w : w = row
    OBVIOUS
  <2>3. ReferrerOf(o) \in Referrer /\ Commission(o) \in {1, 2} /\ o \in Nat /\ at \in Nat
    <3>1. ReferrerOf(o) \in AnyReferrer
      BY <1>1, WhoEarns
    <3>2. ReferrerOf(o) \in Referrer
      BY <1>6, <3>1 DEF AnyReferrer
    <3>3. Commission(o) \in {1, 2}
      BY DEF Commission
    <3>4. o \in Nat
      BY <1>1 DEF ReferralTypes
    <3>5. at \in Nat
      BY <2>1, ReferralAssumption
    <3> QED BY <3>2, <3>3, <3>4, <3>5
  <2>4. /\ w \in RowSet /\ w.order = o /\ w.referrer = ReferrerOf(o) /\ ~w.marked /\ w.at = at
    BY <2>2, <2>3 DEF RowSet
  <2>5. /\ ledger' = Append(ledger, w)
        /\ misdated' = IF \E i \in Rows(w.referrer) : ledger[i].at > w.at
                    THEN misdated \cup {w.referrer} ELSE misdated
    BY <2>1, <2>2, <2>4
  <2> HIDE DEF row
  <2>6. /\ ledger' \in Seq(RowSet)
        /\ \A i \in DOMAIN ledger' : (i \in DOMAIN ledger /\ ledger'[i] = ledger[i]) \/ ledger'[i] = w
    BY <1>1, <2>4, <2>5
  <2>7. shopOrder[o].brought # NoReferrer => w.referrer = shopOrder[o].brought
    <3>1. LET c == shopOrder[o].customer IN attribution[c] # NoReferrer => ReferrerOf(o) = attribution[c]
      BY <1>1, WhoEarns
    <3> QED BY <1>1, <2>4, <3>1 DEF OrderOK
  <2>8. ASSUME NEW i \in DOMAIN ledger' PROVE RowOK(ledger[i])'
    <3>1. RowSet' = RowSet
      BY DEF RowSet
    <3>2. CASE i \in DOMAIN ledger /\ ledger'[i] = ledger[i]
      BY <1>1, <1>4, <3>1, <3>2 DEF RowOK
    <3>3. CASE ledger'[i] = w
      BY <1>4, <2>4, <2>7, <3>1, <3>3 DEF RowOK
    <3> QED BY <2>6, <3>2, <3>3
  <2>9. ReferralTypes'
    <3>1. OrderSet' = OrderSet /\ RowSet' = RowSet /\ NoPress' = NoPress
      BY DEF OrderSet, RowSet, NoPress
    <3> QED BY <1>1, <1>2, <1>4, <2>6, <2>8, <3>1 DEF ReferralTypes
  <2>10. ASSUME NEW r \in Referrer PROVE Books(r)'
    BY <1>2, <2>4, <2>5, <2>9, RowAppended
  <2> QED BY <2>9, <2>10 DEF ReferralInv
<1>7. ReferrerOf(o) # NoReferrer \/ (ledger' = ledger /\ misdated' = misdated)
  BY DEF BookCommission
<1> QED BY <1>5, <1>6, <1>7

(* A payout marks the rows it covers, and pays no more than the debt. *)
LEMMA PayoutStep ==
  ASSUME ReferralInv, CreatePayout
  PROVE  ReferralInv'
<1>1. /\ ReferralTypes
      /\ ledger \in Seq(RowSet)
      /\ \A i \in DOMAIN ledger : RowOK(ledger[i])
      /\ paidOut \in [Referrer -> Nat]
      /\ pressed \in [referrer : Referrer, amount : Nat]
  BY DEF ReferralInv, ReferralTypes, CreatePayout
<1>2. PICK p \in Referrer : p = pressed.referrer
  BY <1>1
<1>3. PICK amount : amount = Min({pressed.amount, Balance(p)})
  OBVIOUS
<1>4. /\ paidOut' = [paidOut EXCEPT ![p] = @ + amount]
      /\ ledger' = [i \in DOMAIN ledger |->
             [ledger[i] EXCEPT !.marked = @ \/ (i \in Rows(p) /\ Covered(p, paidOut[p] + amount, i))]]
      /\ pressed' = NoPress /\ UNCHANGED <<attribution, shopOrder, misdated>>
  BY <1>2, <1>3 DEF CreatePayout
<1>5. /\ amount \in Nat /\ paidOut[p] + amount <= Earned(p)
      /\ paidOut[p] \in Nat /\ Earned(p) \in Nat
  <2>1. /\ Balance(p) \in Nat /\ Earned(p) \in Nat /\ paidOut[p] \in Nat
        /\ paidOut[p] <= Earned(p) => Balance(p) = Earned(p) - paidOut[p]
    BY <1>1, DebtIs
  <2>2. paidOut[p] <= Earned(p)
    BY DEF ReferralInv, Books
  <2>3. pressed.amount \in Nat
    BY <1>1
  <2>4. amount \in Nat /\ amount <= Balance(p)
    BY <1>3, <2>1, <2>3, LeastOfTwo
  <2> QED BY <2>1, <2>2, <2>4
<1>6. /\ DOMAIN ledger' = DOMAIN ledger
      /\ \A i \in DOMAIN ledger :
           /\ ledger'[i].referrer = ledger[i].referrer /\ ledger'[i].order = ledger[i].order
           /\ ledger'[i].amount = ledger[i].amount /\ ledger'[i].at = ledger[i].at
           /\ ledger'[i].marked <=> (ledger[i].marked \/ (i \in Rows(p) /\ Covered(p, paidOut[p] + amount, i)))
  <2>1. DOMAIN ledger' = DOMAIN ledger
    BY <1>4
  <2>2. ASSUME NEW i \in DOMAIN ledger
        PROVE  /\ ledger'[i].referrer = ledger[i].referrer /\ ledger'[i].order = ledger[i].order
               /\ ledger'[i].amount = ledger[i].amount /\ ledger'[i].at = ledger[i].at
               /\ ledger'[i].marked <=> (ledger[i].marked \/ (i \in Rows(p) /\ Covered(p, paidOut[p] + amount, i)))
    <3>1. PICK b : b = (ledger[i].marked \/ (i \in Rows(p) /\ Covered(p, paidOut[p] + amount, i)))
      OBVIOUS
    <3>2. ledger'[i] = [ledger[i] EXCEPT !.marked = b]
      BY <1>4, <3>1, Zenon
    <3>3. RowOK(ledger[i])
      BY <1>1
    <3>4. /\ ledger'[i].referrer = ledger[i].referrer /\ ledger'[i].order = ledger[i].order
          /\ ledger'[i].amount = ledger[i].amount /\ ledger'[i].at = ledger[i].at /\ ledger'[i].marked = b
      BY <3>2, <3>3 DEF RowOK, RowSet
    <3> QED BY <3>1, <3>4
  <2> QED BY <2>1, <2>2
<1>7. ASSUME NEW i \in DOMAIN ledger PROVE RowOK(ledger[i])' /\ ledger'[i] \in RowSet
  <2>1. ledger'[i] \in RowSet
    <3>1. PICK b \in BOOLEAN : b = (ledger[i].marked \/ (i \in Rows(p) /\ Covered(p, paidOut[p] + amount, i)))
      OBVIOUS
    <3>2. ledger'[i] = [ledger[i] EXCEPT !.marked = b]
      BY <1>4, <3>1, Zenon
    <3>3. RowOK(ledger[i])
      BY <1>1
    <3> QED BY <3>2, <3>3 DEF RowOK, RowSet
  <2>2. RowOK(ledger[i]) /\ RowSet' = RowSet /\ shopOrder' = shopOrder
    BY <1>1, <1>4 DEF RowSet
  <2> QED BY <1>6, <2>1, <2>2 DEF RowOK
<1>8. ledger' \in Seq(RowSet)
  <2>1. PICK n \in Nat : DOMAIN ledger = 1..n
    BY <1>1
  <2>2. ledger' = [i \in 1..n |-> ledger'[i]]
    BY <1>4, <2>1
  <2>3. \A i \in 1..n : ledger'[i] \in RowSet
    BY <1>7, <2>1
  <2> QED BY <2>2, <2>3, IsASeq
<1>9. ReferralTypes'
  <2>1. /\ attribution' = attribution /\ shopOrder' = shopOrder
        /\ pressed' = NoPress' /\ DOMAIN ledger' = DOMAIN ledger
    BY <1>4, <1>6 DEF NoPress
  <2>2. paidOut' \in [Referrer -> Nat]
    BY <1>1, <1>4, <1>5
  <2>3. OrderSet' = OrderSet /\ RowSet' = RowSet
    BY DEF OrderSet, RowSet
  <2>4. \A o \in DOMAIN shopOrder' : OrderOK(shopOrder[o])'
    BY <1>1, <2>1, <2>3 DEF ReferralTypes, OrderOK
  <2>5. attribution' \in [Customer -> AnyReferrer] /\ shopOrder' \in Seq(OrderSet)
    BY <1>1, <2>1 DEF ReferralTypes
  <2> QED BY <1>7, <1>8, <2>1, <2>2, <2>3, <2>4, <2>5 DEF ReferralTypes
<1>11. /\ \A r \in Referrer : Rows(r)' = Rows(r) /\ Earned(r)' = Earned(r)
       /\ Amounts' = Amounts
  <2>1. Amounts' = Amounts
    BY <1>6 DEF Amounts
  <2>2. \A r \in Referrer : Rows(r)' = Rows(r)
    BY <1>6 DEF Rows
  <2> QED BY <2>1, <2>2 DEF Earned
<1>12. ASSUME NEW r \in Referrer PROVE Books(r)'
  <2>1. Books(r) /\ paidOut[r] \in Nat
    BY <1>1 DEF ReferralInv
  <2>2. paidOut'[r] = (IF r = p THEN paidOut[r] + amount ELSE paidOut[r]) /\ paidOut'[r] \in Nat
    BY <1>1, <1>4, <1>5
  <2>3. ASSUME NEW i \in Rows(r), NEW sum
        PROVE  Covered(r, sum, i)' <=> (SumFunctionOnSet(Amounts, {j \in Rows(r) : NoLater(j, i)}) <= sum')
    <3>1. \A j \in Rows(r) : NoLater(j, i)' <=> NoLater(j, i)
      BY <1>6 DEF NoLater, Rows
    <3>2. {j \in Rows(r)' : NoLater(j, i)'} = {j \in Rows(r) : NoLater(j, i)}
      BY <1>11, <3>1
    <3> QED BY <1>11, <3>2 DEF Covered
  <2>4. ASSUME NEW i PROVE SumFunctionOnSet(Amounts, {j \in Rows(r) : NoLater(j, i)}) \in Nat
    <3>1. {j \in Rows(r) : NoLater(j, i)} \in SUBSET Rows(r)
      OBVIOUS
    <3> QED BY <1>1, <3>1, RowsAddUp
  <2>5. paidOut'[r] <= Earned(r)'
    BY <1>5, <1>11, <2>1, <2>2 DEF Books
  <2>6. ASSUME r \notin misdated', NEW i \in Rows(r)', ledger'[i].marked
        PROVE  Covered(r, paidOut[r], i)'
    <3>1. i \in Rows(r) /\ i \in DOMAIN ledger
      BY <1>11 DEF Rows
    <3> DEFINE upto == SumFunctionOnSet(Amounts, {j \in Rows(r) : NoLater(j, i)})
    <3>2. upto \in Nat
      BY <2>4
    <3>3. Covered(r, paidOut[r], i) \/ (i \in Rows(p) /\ Covered(p, paidOut[p] + amount, i))
      BY <1>4, <1>6, <2>1, <2>6, <3>1 DEF Books
    <3>4. i \in Rows(p) => r = p
      BY <3>1 DEF Rows
    <3>5. upto <= paidOut[r] \/ (r = p /\ upto <= paidOut[r] + amount)
      BY <3>3, <3>4 DEF Covered
    <3> HIDE DEF upto
    <3>6. upto <= paidOut'[r]
      BY <1>5, <2>1, <2>2, <3>2, <3>5
    <3> QED BY <2>3, <3>1, <3>6 DEF upto
  <2>7. ASSUME paidOut'[r] = Earned(r)', NEW i \in Rows(r)'
        PROVE  ledger'[i].marked
    <3>1. i \in Rows(r) /\ i \in DOMAIN ledger
      BY <1>11 DEF Rows
    <3>2. CASE r # p
      BY <1>6, <1>11, <2>1, <2>2, <2>7, <3>1, <3>2 DEF Books
    <3>3. CASE r = p
      <4>1. paidOut[p] + amount = Earned(p)
        BY <1>11, <2>2, <2>7, <3>3
      <4> DEFINE early == {j \in Rows(p) : NoLater(j, i)}
      <4>2. early \in SUBSET Rows(p) /\ Rows(p) \in SUBSET Rows(p)
        OBVIOUS
      <4>3. SumFunctionOnSet(Amounts, early) <= SumFunctionOnSet(Amounts, Rows(p))
        BY <1>1, <4>2, FewerRows
      <4>4. Covered(p, paidOut[p] + amount, i)
        BY <4>1, <4>3 DEF Covered, Earned
      <4> QED BY <1>6, <3>1, <3>3, <4>4
    <3> QED BY <3>2, <3>3
  <2>8. ASSUME r \notin misdated', NEW i \in Rows(r)', NEW j \in Rows(r)', i <= j
        PROVE  ledger'[i].at <= ledger'[j].at
    <3>1. i \in Rows(r) /\ j \in Rows(r) /\ r \notin misdated
      BY <1>4, <1>11, <2>8
    <3>2. ledger[i].at <= ledger[j].at
      BY <2>1, <2>8, <3>1 DEF Books
    <3> QED BY <1>6, <3>1, <3>2 DEF Rows
  <2> QED BY <2>5, <2>6, <2>7, <2>8 DEF Books
<1> QED BY <1>9, <1>12 DEF ReferralInv

(* The books are empty at the start. *)
LEMMA ReferralStarts ==
  ASSUME ReferralInit PROVE ReferralInv
<1>1. ReferralTypes
  <2>1. /\ attribution \in [Customer -> AnyReferrer] /\ paidOut \in [Referrer -> Nat]
        /\ pressed = NoPress /\ shopOrder = <<>> /\ ledger = <<>>
    BY DEF ReferralInit, AnyReferrer
  <2> QED BY <2>1 DEF ReferralTypes
<1>2. ASSUME NEW r \in Referrer PROVE Books(r)
  <2>1. Rows(r) = {} /\ paidOut[r] = 0
    BY DEF Rows, ReferralInit
  <2>2. Earned(r) \in Nat
    BY <1>1, DebtIs
  <2> QED BY <2>1, <2>2 DEF Books
<1> QED BY <1>1, <1>2 DEF ReferralInv

(* Every step keeps the books. *)
LEMMA ReferralStep ==
  ASSUME ReferralInv, [ReferralNext]_referralVars
  PROVE  ReferralInv'
<1>1. CASE UNCHANGED referralVars
  <2>1. UNCHANGED <<attribution, shopOrder, ledger, paidOut, pressed, misdated>>
    BY <1>1 DEF referralVars
  <2>2. \A o \in DOMAIN shopOrder' : OrderOK(shopOrder[o])'
    BY <2>1 DEF ReferralInv, ReferralTypes, OrderOK, OrderSet
  <2> QED BY <2>1, <2>2, OrdersMove DEF ReferralInv, ReferralTypes
<1>2. CASE ReferralNext
  <2>1. \/ \/ \E c \in Customer :
              \/ \E r \in Referrer : FollowLink(c, r)
              \/ \E r \in AnyReferrer : PlaceOrder(c, r)
              \/ \E o \in DOMAIN shopOrder : PlaceRenewal(c, o)
           \/ \E o \in DOMAIN shopOrder, s \in {"delivered", "cancelled"} : CloseOrder(o, s)
           \/ \E r \in Referrer, amount \in 1..(2 * MaxOrders) : PressPayout(r, amount)
        \/ \E o \in DOMAIN shopOrder : BookCommission(o)
        \/ CreatePayout
    BY <1>2 DEF ReferralNext
  <2> QED BY <2>1, OrderStep, BookStep, PayoutStep
<1> QED BY <1>1, <1>2

(* For any customers, referrers, orders and payouts, and clocks of the nodes that
   differ as they may, the books of each referrer agree: a sale of a customer he
   brought is his, no more is paid out than was earned, none is pending once the
   debt was paid, and for whoever has no row stamped before an earlier one the
   rows marked paid are covered by the payouts. *)
THEOREM TheBooksAgree ==
  ReferralSpec => []BooksAgree
<1>1. ReferralInit => ReferralInv
  BY ReferralStarts
<1>2. ReferralInv /\ [ReferralNext]_referralVars => ReferralInv'
  BY ReferralStep
<1>3. ReferralInv => BooksAgree
  BY BooksImply
<1> QED BY <1>1, <1>2, <1>3, PTL DEF ReferralSpec
=============================================================================
