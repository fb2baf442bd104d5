----------------------- MODULE ZeroHeightExport_proofs -----------------------
(***************************************************************************)
(* Proofs about ZeroHeightExport for any finite sets of validators and     *)
(* delegations, any chains that satisfy the invariants of the SDK modules, *)
(* any allow list and a failure at any step.                               *)
(***************************************************************************)
EXTENDS ZeroHeightExport, TLAPS, NaturalsInduction, FiniteSetTheorems

-----------------------------------------------------------------------------
(* Totals.                                                                 *)

Pick(s) == CHOOSE x \in s : TRUE

\* The function that Total evaluates at its domain: partial sums, for every
\* subset of S.
IsSums(it, f, S) ==
    it = [s \in SUBSET S |-> IF s = {} THEN 0 ELSE f[Pick(s)] + it[s \ {Pick(s)}]]

\* A set of natural numbers that is not empty has a least element.
LEMMA Least ==
  ASSUME NEW K, K \subseteq Nat, K # {}
  PROVE  \E m \in K : \A k \in K : m <= k
<1>1. PICK m \in K : \A k \in K : ~(<<k, m>> \in OpToRel(<, Nat))
  BY NatLessThanWellFounded, WFMin
<1>2. \A k \in K : ~(k < m)
  BY <1>1 DEF OpToRel
<1> QED
  BY <1>2

\* What is left of a set without the element picked.
LEMMA PickFacts ==
  ASSUME NEW s, IsFiniteSet(s), s # {}
  PROVE  /\ Pick(s) \in s
         /\ IsFiniteSet(s \ {Pick(s)})
         /\ Cardinality(s) \in Nat
         /\ Cardinality(s \ {Pick(s)}) = Cardinality(s) - 1
         /\ Cardinality(s) > 0
<1>1. Pick(s) \in s
  BY DEF Pick
<1> HIDE DEF Pick
<1>2. /\ IsFiniteSet(s \ {Pick(s)})
      /\ Cardinality(s \ {Pick(s)}) = Cardinality(s) - 1
  BY <1>1, FS_RemoveElement
<1>3. Cardinality(s) \in Nat /\ Cardinality(s \ {Pick(s)}) \in Nat
  BY <1>2, FS_CardinalityType
<1> QED
  BY <1>1, <1>2, <1>3

\* Partial sums exist: a family of them for the sets of fewer elements extends to
\* the sets of one more.
LEMMA SumsExist ==
  ASSUME NEW S, IsFiniteSet(S), NEW f
  PROVE  \E it : IsSums(it, f, S)
<1> DEFINE upTo(k) == {s \in SUBSET S : Cardinality(s) <= k}
           part(g, k) == \A s \in upTo(k) :
                            g[s] = IF s = {} THEN 0 ELSE f[Pick(s)] + g[s \ {Pick(s)}]
           K == {k \in Nat : ~ \E g : g = [s \in upTo(k) |-> g[s]] /\ part(g, k)}
<1>1. \A s \in SUBSET S : IsFiniteSet(s) /\ Cardinality(s) \in Nat
  BY FS_Subset, FS_CardinalityType
<1>2. ASSUME NEW s \in SUBSET S, s # {}, NEW k \in Nat, s \in upTo(k)
      PROVE  s \ {Pick(s)} \in upTo(k - 1) /\ s \ {Pick(s)} \in upTo(k) /\ k - 1 \in Nat
  <2>1. Cardinality(s \ {Pick(s)}) = Cardinality(s) - 1 /\ Cardinality(s) > 0
    BY <1>1, <1>2, PickFacts
  <2> QED
    BY <1>1, <1>2, <2>1
<1>3. \A k \in Nat : \A s \in upTo(k - 1) : s \in upTo(k)
  BY <1>1
<1> HIDE DEF upTo
<1>4. K = {}
  <2> SUFFICES ASSUME K # {} PROVE FALSE
    OBVIOUS
  <2>1. PICK m \in K : \A k \in K : m <= k
    <3> HIDE DEF K
    <3>1. K \subseteq Nat
      BY DEF K
    <3> QED
      BY <3>1, Least
  <2>2. PICK g : \A s \in upTo(m - 1) :
                    g[s] = IF s = {} THEN 0 ELSE f[Pick(s)] + g[s \ {Pick(s)}]
    <3>1. CASE m = 0
      <4>1. \A s \in upTo(m - 1) : FALSE
        BY <1>1, <3>1 DEF upTo
      <4> QED
        BY <4>1
    <3>2. CASE m # 0
      <4>1. m - 1 \in Nat /\ ~(m <= m - 1)
        BY <3>2
      <4>2. m - 1 \notin K
        BY <2>1, <4>1
      <4> QED
        BY <4>1, <4>2
    <3> QED
      BY <3>1, <3>2
  <2> DEFINE h == [s \in upTo(m) |-> IF s = {} THEN 0 ELSE f[Pick(s)] + g[s \ {Pick(s)}]]
  <2>3. \A s \in upTo(m - 1) : h[s] = g[s]
    BY <1>3, <2>2
  <2>4. part(h, m)
    <3> SUFFICES ASSUME NEW s \in upTo(m)
                 PROVE  h[s] = IF s = {} THEN 0 ELSE f[Pick(s)] + h[s \ {Pick(s)}]
      OBVIOUS
    <3>1. CASE s = {}
      BY <3>1
    <3>2. CASE s # {}
      <4>1. s \ {Pick(s)} \in upTo(m - 1)
        BY <1>2, <3>2 DEF upTo
      <4>2. h[s] = f[Pick(s)] + g[s \ {Pick(s)}]
        BY <3>2
      <4> QED
        BY <2>3, <3>2, <4>1, <4>2
    <3> QED
      BY <3>1, <3>2
  <2>5. h = [s \in upTo(m) |-> h[s]]
    OBVIOUS
  <2> QED
    BY <2>4, <2>5
<1> DEFINE n == Cardinality(S)
<1>5. n \in Nat /\ n \notin K
  BY <1>1, <1>4
<1>6. PICK g : g = [s \in upTo(n) |-> g[s]] /\ part(g, n)
  BY <1>5
<1>7. upTo(n) = SUBSET S
  <2>1. \A s \in SUBSET S : Cardinality(s) <= n
    BY FS_Subset
  <2> QED
    BY <2>1 DEF upTo
<1>8. g = [s \in SUBSET S |-> IF s = {} THEN 0 ELSE f[Pick(s)] + g[s \ {Pick(s)}]]
  BY <1>6, <1>7
<1> QED
  BY <1>8 DEF IsSums

\* Total is a partial sum: the one of the whole domain.
LEMMA TotalSums ==
  ASSUME NEW f, IsFiniteSet(DOMAIN f)
  PROVE  \E it : IsSums(it, f, DOMAIN f) /\ Total(f) = it[DOMAIN f]
<1> DEFINE it == CHOOSE g : IsSums(g, f, DOMAIN f)
<1>1. IsSums(it, f, DOMAIN f)
  BY SumsExist
<1>2. Total(f) = it[DOMAIN f]
  BY DEF Total, FoldFunction, FoldFunctionOnSet, MapThenFoldSet, IsSums, Pick
<1> QED
  BY <1>1, <1>2

\* Every partial sum of natural numbers is one.
LEMMA SumsNat ==
  ASSUME NEW S, IsFiniteSet(S), NEW f \in [S -> Nat], NEW it, IsSums(it, f, S)
  PROVE  \A s \in SUBSET S : it[s] \in Nat
<1> DEFINE K == {Cardinality(s) : s \in {x \in SUBSET S : it[x] \notin Nat}}
<1>1. \A s \in SUBSET S : IsFiniteSet(s) /\ Cardinality(s) \in Nat
  BY FS_Subset, FS_CardinalityType
<1> SUFFICES ASSUME K # {} PROVE FALSE
  OBVIOUS
<1>2. PICK m \in K : \A k \in K : m <= k
  <2>1. K \subseteq Nat
    BY <1>1
  <2> HIDE DEF K
  <2> QED
    BY <2>1, Least
<1>3. PICK s \in SUBSET S : it[s] \notin Nat /\ m = Cardinality(s)
  OBVIOUS
<1>4. it[s] = IF s = {} THEN 0 ELSE f[Pick(s)] + it[s \ {Pick(s)}]
  BY DEF IsSums
<1>5. s # {}
  BY <1>3, <1>4
<1>6. /\ Pick(s) \in s /\ Cardinality(s) \in Nat
      /\ Cardinality(s \ {Pick(s)}) = Cardinality(s) - 1
  BY <1>1, <1>5, PickFacts
<1>7. it[s \ {Pick(s)}] \in Nat
  <2>1. Cardinality(s \ {Pick(s)}) \notin K
    BY <1>2, <1>3, <1>6
  <2> QED
    BY <2>1
<1>8. f[Pick(s)] \in Nat
  BY <1>6
<1> QED
  BY <1>3, <1>4, <1>5, <1>7, <1>8

\* The partial sums of two functions that differ at v only differ by as much,
\* exactly for the sets that v is in.
LEMMA SumsChange ==
  ASSUME NEW S, IsFiniteSet(S), NEW f \in [S -> Nat], NEW g \in [S -> Nat],
         NEW v \in S, \A x \in S : x # v => f[x] = g[x],
         NEW itf, IsSums(itf, f, S), NEW itg, IsSums(itg, g, S)
  PROVE  \A s \in SUBSET S :
            /\ v \in s => itg[s] + f[v] = itf[s] + g[v]
            /\ v \notin s => itg[s] = itf[s]
<1> DEFINE ok(s) == /\ v \in s => itg[s] + f[v] = itf[s] + g[v]
                    /\ v \notin s => itg[s] = itf[s]
           K == {Cardinality(s) : s \in {x \in SUBSET S : ~ok(x)}}
<1>1. \A s \in SUBSET S : IsFiniteSet(s) /\ Cardinality(s) \in Nat
  BY FS_Subset, FS_CardinalityType
<1>2. \A s \in SUBSET S : itf[s] \in Nat /\ itg[s] \in Nat
  BY SumsNat
<1> SUFFICES ASSUME K # {} PROVE FALSE
  OBVIOUS
<1>3. PICK m \in K : \A k \in K : m <= k
  <2>1. K \subseteq Nat
    BY <1>1
  <2> HIDE DEF K
  <2> QED
    BY <2>1, Least
<1>4. PICK s \in SUBSET S : ~ok(s) /\ m = Cardinality(s)
  OBVIOUS
<1>5. /\ itf[s] = IF s = {} THEN 0 ELSE f[Pick(s)] + itf[s \ {Pick(s)}]
      /\ itg[s] = IF s = {} THEN 0 ELSE g[Pick(s)] + itg[s \ {Pick(s)}]
  BY DEF IsSums
<1>6. s # {}
  BY <1>4, <1>5
<1> DEFINE p == Pick(s)
           r == s \ {Pick(s)}
<1>7. p \in s /\ Cardinality(s) \in Nat /\ Cardinality(r) = Cardinality(s) - 1
  BY <1>1, <1>6, PickFacts
<1>8. ok(r)
  <2>1. Cardinality(r) \notin K /\ r \in SUBSET S
    BY <1>3, <1>4, <1>7
  <2> HIDE DEF ok, r
  <2> QED
    BY <2>1
<1>9. /\ itf[s] = f[p] + itf[r] /\ itg[s] = g[p] + itg[r]
      /\ f[p] \in Nat /\ g[p] \in Nat /\ f[v] \in Nat /\ g[v] \in Nat
      /\ itf[r] \in Nat /\ itg[r] \in Nat
  BY <1>2, <1>5, <1>6, <1>7
<1>10. (v \in s => v = p \/ v \in r) /\ (v \notin s => v \notin r /\ v # p) /\ p \notin r
  BY <1>7
<1>11. p # v => f[p] = g[p]
  BY <1>7
<1> HIDE DEF p, r
<1> QED
  BY <1>4, <1>8, <1>9, <1>10, <1>11

\* What a total is, and what changing one summand makes of it.
LEMMA TotalFacts ==
  ASSUME NEW S, IsFiniteSet(S), NEW f \in [S -> Nat], NEW g \in [S -> Nat],
         NEW v \in S, \A x \in S : x # v => f[x] = g[x]
  PROVE  /\ Total(f) \in Nat /\ Total(g) \in Nat
         /\ Total(g) + f[v] = Total(f) + g[v]
<1>1. DOMAIN f = S /\ DOMAIN g = S
  OBVIOUS
<1>2. PICK itf : IsSums(itf, f, S) /\ Total(f) = itf[S]
  BY <1>1, TotalSums
<1>3. PICK itg : IsSums(itg, g, S) /\ Total(g) = itg[S]
  BY <1>1, TotalSums
<1>4. itf[S] \in Nat /\ itg[S] \in Nat
  BY <1>2, <1>3, SumsNat
<1>5. itg[S] + f[v] = itf[S] + g[v]
  BY <1>2, <1>3, SumsChange
<1> QED
  BY <1>2, <1>3, <1>4, <1>5

\* A sum of naturals is a natural.
LEMMA TotalNat ==
  ASSUME NEW S, IsFiniteSet(S), NEW f \in [S -> Nat]
  PROVE  Total(f) \in Nat
<1>1. DOMAIN f = S
  OBVIOUS
<1>2. PICK it : IsSums(it, f, S) /\ Total(f) = it[S]
  BY <1>1, TotalSums
<1> QED
  BY <1>2, SumsNat

\* A total is no less than any of its summands.
LEMMA TotalCovers ==
  ASSUME NEW S, IsFiniteSet(S), NEW f \in [S -> Nat], NEW v \in S
  PROVE  f[v] <= Total(f)
<1> DEFINE g == [x \in S |-> IF x = v THEN 0 ELSE f[x]]
<1>1. g \in [S -> Nat] /\ g[v] = 0 /\ \A x \in S : x # v => f[x] = g[x]
  OBVIOUS
<1> HIDE DEF g
<1>2. Total(f) \in Nat /\ Total(g) \in Nat /\ Total(g) + f[v] = Total(f) + g[v]
  BY <1>1, TotalFacts
<1>3. f[v] \in Nat
  OBVIOUS
<1> QED
  BY <1>1, <1>2, <1>3

-----------------------------------------------------------------------------
(* The records of the SDK modules.                                         *)

ValidatorOK(w) == w \in ValidatorState(w.history) /\ IsHistory(w.history, w.period)

\* What the staking and slashing modules store for a validator is the same.
SameStaking(w, x) ==
    /\ x.jailed = w.jailed /\ x.place = w.place /\ x.power = w.power
    /\ x.unbondingHeight = w.unbondingHeight /\ x.startHeight = w.startHeight

\* Replacing one field of a record.
LEMMA SetHistory ==
  ASSUME NEW w, w \in ValidatorState(w.history), NEW h
  PROVE  LET x == [w EXCEPT !.history = h]
         IN  /\ x \in ValidatorState(h) /\ x.history = h /\ SameStaking(w, x)
             /\ x.period = w.period /\ x.outstanding = w.outstanding
  BY DEF ValidatorState, SameStaking

\* Moving the current period leaves the staking side of a validator alone.
LEMMA SetPeriod ==
  ASSUME NEW w, w \in ValidatorState(w.history), NEW n \in Nat
  PROVE  LET x == [w EXCEPT !.period = n]
         IN  /\ x \in ValidatorState(w.history) /\ x.history = w.history /\ SameStaking(w, x)
             /\ x.period = n /\ x.outstanding = w.outstanding
  BY DEF ValidatorState, SameStaking

\* So does paying out of its outstanding rewards.
LEMMA SetOutstanding ==
  ASSUME NEW w, w \in ValidatorState(w.history), NEW n \in Nat
  PROVE  LET x == [w EXCEPT !.outstanding = n]
         IN  /\ x \in ValidatorState(w.history) /\ x.history = w.history /\ SameStaking(w, x)
             /\ x.period = w.period /\ x.outstanding = n
  BY DEF ValidatorState, SameStaking

\* Reference counts stay in their range, and periods before the current one.
LEMMA DecrementFacts ==
  ASSUME NEW h, NEW n \in Nat, IsHistory(h, n), NEW p
  PROVE  LET g == DecrementReference(h, p)
         IN  /\ IsHistory(g, n)
             /\ \A q \in DOMAIN g : q \in DOMAIN h /\ g[q] <= h[q]
<1>1. CASE h[p] = 1
  BY <1>1 DEF IsHistory, DecrementReference, Without
<1>2. CASE h[p] # 1
  <2> DEFINE g == [h EXCEPT ![p] = @ - 1]
  <2>1. DecrementReference(h, p) = g
    BY <1>2 DEF DecrementReference
  <2>2. DOMAIN g = DOMAIN h /\ g = [q \in DOMAIN g |-> g[q]]
    OBVIOUS
  <2>3. \A q \in DOMAIN h : h[q] \in 1..3
    BY DEF IsHistory
  <2>4. \A q \in DOMAIN h : g[q] = IF q = p THEN h[q] - 1 ELSE h[q]
    OBVIOUS
  <2>5. \A q \in DOMAIN h : g[q] \in 1..3 /\ g[q] <= h[q]
    BY <1>2, <2>3, <2>4
  <2> HIDE DEF g
  <2> QED
    BY <2>1, <2>2, <2>5 DEF IsHistory
<1> QED
  BY <1>1, <1>2

\* A new period enters the history with one reference.
LEMMA PutFacts ==
  ASSUME NEW h, NEW n \in Nat, IsHistory(h, n)
  PROVE  LET g == Put(h, n, 1)
         IN  IsHistory(g, n + 1) /\ n \in DOMAIN g /\ g[n] = 1
<1> DEFINE g == Put(h, n, 1)
<1>1. DOMAIN g = DOMAIN h \cup {n} /\ g = [q \in DOMAIN g |-> g[q]]
  BY DEF Put
<1>2. g[n] = 1 /\ \A q \in DOMAIN h : g[q] = 1 \/ g[q] = h[q]
  BY DEF Put
<1>3. \A q \in DOMAIN h : h[q] \in 1..3 /\ q \in 0..(n - 1)
  BY DEF IsHistory
<1> HIDE DEF g
<1>4. \A q \in DOMAIN g : g[q] \in 1..3 /\ q \in 0..((n + 1) - 1)
  BY <1>1, <1>2, <1>3
<1> QED
  BY <1>1, <1>2, <1>4 DEF IsHistory, g

\* One more reference to a period that has at most two.
LEMMA IncrementFacts ==
  ASSUME NEW h, NEW n \in Nat, IsHistory(h, n), NEW p, p \in DOMAIN h => h[p] <= 2
  PROVE  IsHistory(IncrementReference(h, p), n)
<1> DEFINE g == [h EXCEPT ![p] = @ + 1]
<1>1. DOMAIN g = DOMAIN h /\ g = [q \in DOMAIN g |-> g[q]]
  OBVIOUS
<1>2. \A q \in DOMAIN h : h[q] \in 1..3
  BY DEF IsHistory
<1>3. \A q \in DOMAIN h : g[q] = IF q = p THEN h[q] + 1 ELSE h[q]
  OBVIOUS
<1>4. \A q \in DOMAIN h : g[q] \in 1..3
  BY <1>2, <1>3
<1> HIDE DEF g
<1> QED
  BY <1>1, <1>4 DEF IsHistory, IncrementReference, g

\* Ending a period: the new last period is referred to once.
LEMMA NextPeriodFacts ==
  ASSUME NEW w, ValidatorOK(w)
  PROVE  LET x == NextPeriod(w)
         IN  /\ ValidatorOK(x) /\ SameStaking(w, x)
             /\ x.period = w.period + 1 /\ w.period \in Nat /\ x.outstanding = w.outstanding
             /\ x.history[w.period] = 1
<1> DEFINE h == DecrementReference(w.history, w.period - 1)
           g == Put(h, w.period, 1)
           y == [w EXCEPT !.history = g]
           x == [y EXCEPT !.period = w.period + 1]
<1>1. w \in ValidatorState(w.history) /\ w.period \in Nat
  BY DEF ValidatorOK, ValidatorState
<1>2. IsHistory(h, w.period)
  BY <1>1, DecrementFacts DEF ValidatorOK
<1> HIDE DEF h
<1>3. IsHistory(g, w.period + 1) /\ g[w.period] = 1
  BY <1>1, <1>2, PutFacts
<1> HIDE DEF g
<1>4. /\ y \in ValidatorState(g) /\ y.history = g /\ SameStaking(w, y)
      /\ y.period = w.period /\ y.outstanding = w.outstanding
  BY <1>1, SetHistory
<1>5. NextPeriod(w) = x
  <2>1. NextPeriod(w) = [w EXCEPT !.history = g, !.period = w.period + 1]
    BY DEF NextPeriod, g, h
  <2> QED
    BY <2>1
<1> HIDE DEF y
<1>6. /\ x \in ValidatorState(y.history) /\ x.history = y.history /\ SameStaking(y, x)
      /\ x.period = w.period + 1 /\ x.outstanding = y.outstanding
  BY <1>1, <1>4, SetPeriod
<1> HIDE DEF x
<1> QED
  BY <1>1, <1>3, <1>4, <1>5, <1>6 DEF ValidatorOK, SameStaking

\* A delegation starts at a period that is referred to at most twice before.
LEMMA StartDelegationFacts ==
  ASSUME NEW w, ValidatorOK(w),
         (w.period - 1) \in DOMAIN w.history => w.history[w.period - 1] <= 2
  PROVE  LET x == StartDelegation(w)
         IN  /\ ValidatorOK(x) /\ SameStaking(w, x)
             /\ x.period = w.period /\ x.outstanding = w.outstanding
<1> DEFINE h == IncrementReference(w.history, w.period - 1)
           x == [w EXCEPT !.history = h]
<1>1. w \in ValidatorState(w.history) /\ w.period \in Nat
  BY DEF ValidatorOK, ValidatorState
<1>2. IsHistory(h, w.period)
  BY <1>1, IncrementFacts DEF ValidatorOK
<1>3. StartDelegation(w) = x
  BY DEF StartDelegation
<1> HIDE DEF h
<1>4. /\ x \in ValidatorState(h) /\ x.history = h /\ SameStaking(w, x)
      /\ x.period = w.period /\ x.outstanding = w.outstanding
  BY <1>1, SetHistory
<1> HIDE DEF x
<1> QED
  BY <1>2, <1>3, <1>4 DEF ValidatorOK

\* A store with one record replaced.
LEMMA StorePut ==
  ASSUME NEW vs, IsStore(vs), NEW v \in Validators, NEW x, ValidatorOK(x)
  PROVE  LET us == [vs EXCEPT ![v] = x]
         IN  IsStore(us) /\ us[v] = x /\ \A u \in Validators : u # v => us[u] = vs[u]
<1> DEFINE us == [vs EXCEPT ![v] = x]
<1>1. DOMAIN vs = Validators
  BY DEF IsStore
<1>2. us = [u \in Validators |-> us[u]] /\ DOMAIN us = Validators
  BY <1>1
<1>3. us[v] = x /\ \A u \in Validators : u # v => us[u] = vs[u]
  BY <1>1
<1> HIDE DEF us
<1>4. us \in [Validators -> Range(us)]
  BY <1>2 DEF Range
<1>5. \A u \in Validators :
         us[u] \in ValidatorState(us[u].history) /\ IsHistory(us[u].history, us[u].period)
  BY <1>3 DEF IsStore, ValidatorOK
<1> QED
  BY <1>3, <1>4, <1>5 DEF IsStore, us

\* A store with all records replaced.
LEMMA StoreMap ==
  ASSUME NEW us, us = [v \in Validators |-> us[v]], \A v \in Validators : ValidatorOK(us[v])
  PROVE  IsStore(us)
  BY DEF IsStore, ValidatorOK, Range

-----------------------------------------------------------------------------
(* The inductive invariant.                                                *)

\* The rewards of a validator's delegations are among those it has outstanding,
\* so that paying them leaves no debt.
RewardsCovered == \A v \in Validators : Owed(del, v) <= val[v].outstanding

Unlisted(v) == allowed # {} /\ v \notin allowed

\* How far the export is: what has been reset for good.  An export of another
\* kind goes from loading to the modules, and one that failed is nowhere.
Past == pc \in {"modules", "ok"} /\ forZeroHeight
RedelegationsReset == pc \in {"unbondings", "bonds", "apply", "signing"} \/ Past
UnbondingsReset == pc \in {"bonds", "apply", "signing"} \/ Past
BondReset(v) == (pc = "bonds" /\ v \notin todo) \/ pc \in {"apply", "signing"} \/ Past
SetApplied == pc = "signing" \/ Past

\* What holds of the staking records at each point of the export.
Progress ==
    /\ RedelegationsReset => red = Zero(red)
    /\ UnbondingsReset => ubd = Zero(ubd)
    /\ \A v \in Validators :
          /\ BondReset(v) => val[v].unbondingHeight = 0
          /\ val[v].jailed = TRUE => v \in jailedBefore \/ Unlisted(v)
          /\ v \in jailedBefore => val[v].jailed = TRUE
          /\ BondReset(v) /\ Unlisted(v) => val[v].jailed = TRUE
          /\ SetApplied /\ ~closeFailed => val[v].jailed = FALSE \/ v \notin Walked(val)
          /\ Past /\ ~closeFailed => val[v].startHeight = 0

IInv == TypeOK /\ HoldingsMatch /\ RewardsCovered /\ Progress

-----------------------------------------------------------------------------
(* The steps.                                                              *)

USE DEF past

\* What the invariant says of one validator.
LEMMA Fields ==
  ASSUME IInv, NEW v \in Validators
  PROVE  /\ ValidatorOK(val[v]) /\ val[v] \in ValidatorState(val[v].history)
         /\ val[v].outstanding \in Nat /\ val[v].period \in Nat
         /\ val[v].jailed \in BOOLEAN
  BY DEF IInv, TypeOK, IsStore, ValidatorOK, ValidatorState

\* A chain to be exported satisfies the invariant.
LEMMA InitIInv == Init => IInv
<1> SUFFICES ASSUME Init PROVE IInv
  OBVIOUS
<1>1. PICK c \in Chains :
         /\ pc = "load" /\ todo = {}
         /\ forZeroHeight \in BOOLEAN /\ allowed \in SUBSET Validators
         /\ ctxHeight = c.height
         /\ val = c.val /\ del = c.del /\ red = c.red /\ ubd = c.ubd
         /\ pool = c.pool /\ balance = c.balance
         /\ jailedBefore = {v \in Validators : c.val[v].jailed} /\ closeFailed = FALSE
  BY DEF Init
<1>2. TypeOK
  <2>1. closeFailed \in BOOLEAN
    BY <1>1
  <2> QED
    BY <1>1, <2>1, ChainsAssumption DEF TypeOK, Steps, Ended
<1>3. HoldingsMatch /\ RewardsCovered
  BY <1>1, ChainsAssumption DEF HoldingsMatch, RewardsCovered
<1>4. ~RedelegationsReset /\ ~UnbondingsReset /\ ~Past /\ ~SetApplied
  BY <1>1 DEF RedelegationsReset, UnbondingsReset, Past, SetApplied
<1>5. \A v \in Validators : ~BondReset(v)
  BY <1>1 DEF BondReset, Past
<1>6. \A v \in Validators :
         val[v].jailed \in BOOLEAN /\ (v \in jailedBefore <=> val[v].jailed)
  BY <1>1, <1>2, ChainsAssumption DEF TypeOK, IsStore, ValidatorState
<1>7. \A v \in Validators : v \in jailedBefore <=> val[v].jailed = TRUE
  BY <1>6
<1>8. Progress
  BY <1>4, <1>5, <1>7 DEF Progress
<1> QED
  BY <1>2, <1>3, <1>8 DEF IInv

\* A step that only goes on, or ends the export, with everything stored as it is.
LEMMA GotoIInv ==
  ASSUME IInv, pc' \in Steps, todo' \subseteq Validators \cup Delegations,
         UNCHANGED <<forZeroHeight, allowed, ctxHeight, distr, red, ubd, jailedBefore, closeFailed>>,
         RedelegationsReset' => RedelegationsReset,
         UnbondingsReset' => UnbondingsReset,
         \A v \in Validators : BondReset(v)' => BondReset(v),
         SetApplied' => SetApplied \/ Jailed \cap Walked(val) = {},
         Past' => Past
  PROVE  IInv'
<1>1. TypeOK' /\ HoldingsMatch' /\ RewardsCovered'
  BY DEF IInv, TypeOK, HoldingsMatch, RewardsCovered, distr
<1>2. Jailed \cap Walked(val) = {}
        => \A v \in Validators : val[v].jailed = FALSE \/ v \notin Walked(val)
  <2> SUFFICES ASSUME Jailed \cap Walked(val) = {}, NEW v \in Validators, v \in Walked(val)
               PROVE  val[v].jailed = FALSE
    OBVIOUS
  <2>1. val[v].jailed \in BOOLEAN
    BY Fields
  <2>2. ~val[v].jailed
    BY DEF Jailed
  <2> QED
    BY <2>1, <2>2
<1>3. Progress'
  <2>1. /\ RedelegationsReset' => red' = Zero(red')
        /\ UnbondingsReset' => ubd' = Zero(ubd')
    BY DEF IInv, Progress
  <2>2. ASSUME NEW v \in Validators
        PROVE  /\ BondReset(v)' => val'[v].unbondingHeight = 0
               /\ val'[v].jailed = TRUE => v \in jailedBefore' \/ Unlisted(v)'
               /\ v \in jailedBefore' => val'[v].jailed = TRUE
               /\ BondReset(v)' /\ Unlisted(v)' => val'[v].jailed = TRUE
               /\ SetApplied' /\ ~closeFailed' => val'[v].jailed = FALSE \/ v \notin Walked(val')
               /\ Past' /\ ~closeFailed' => val'[v].startHeight = 0
    <3>1. /\ val' = val /\ jailedBefore' = jailedBefore /\ closeFailed' = closeFailed
          /\ Unlisted(v)' <=> Unlisted(v)
      BY DEF distr, Unlisted
    <3>2. (BondReset(v)' => BondReset(v)) /\ Walked(val') = Walked(val)
      BY <3>1
    <3> QED
      BY <1>2, <3>1, <3>2 DEF IInv, Progress
  <2> QED
    BY <2>1, <2>2 DEF Progress
<1> QED
  BY <1>1, <1>3 DEF IInv

\* Steps that change no record.  As the address they use is no validator's,
\* withdrawing commissions and reinitialising validators are among them.
LEMMA QuietIInv ==
  ASSUME IInv,
         \/ LoadHeight \/ LoadHeightFails \/ InvalidList \/ IterateFails
         \/ \E v \in Validators : WithdrawCommission(v) \/ ReinitValidator(v)
         \/ ReinitDelegationPanics \/ SetEntryFails \/ ResetBondFails \/ SetSigningInfoFails
         \/ ApplyValidatorSet \/ ApplyValidatorSetPanics \/ ApplyValidatorSetFails
         \/ ExportModules \/ ExportModulesFails
  PROVE  IInv'
<1>0. todo \subseteq Validators \cup Delegations /\ forZeroHeight \in BOOLEAN
  BY DEF IInv, TypeOK
<1> USE DEF Goto
<1>1. UNCHANGED <<forZeroHeight, allowed, ctxHeight, distr, red, ubd, jailedBefore, closeFailed>>
  BY ConstantsAssumption
  DEF LoadHeight, LoadHeightFails, InvalidList, IterateFails, WithdrawCommission, ReinitValidator,
      ReinitDelegationPanics, SetEntryFails, ResetBondFails, SetSigningInfoFails, ApplyValidatorSet,
      ApplyValidatorSetPanics, ApplyValidatorSetFails, ExportModules, ExportModulesFails, Finish,
      OperatorAddress, distr
<1>2. CASE LoadHeight
  <2>1. \/ pc' = "commission" /\ todo' = Validators
        \/ pc' = "modules" /\ todo' = {} /\ ~forZeroHeight
    BY <1>2 DEF LoadHeight
  <2>2. ~Past' /\ ~RedelegationsReset' /\ ~UnbondingsReset' /\ ~SetApplied'
    BY <1>1, <2>1 DEF Past, RedelegationsReset, UnbondingsReset, SetApplied
  <2>3. \A v \in Validators : ~BondReset(v)'
    BY <1>1, <2>1 DEF Past, BondReset
  <2>4. pc' \in Steps /\ todo' \subseteq Validators \cup Delegations
    BY <2>1 DEF Steps
  <2> QED
    BY <1>1, <2>2, <2>3, <2>4, GotoIInv
<1>3. CASE \E v \in Validators : WithdrawCommission(v) \/ ReinitValidator(v)
  <2>1. /\ pc' \in {"commission", "rewards", "validators", "redelegations"}
        /\ todo' \subseteq Validators \cup Delegations
    BY <1>0, <1>3, ConstantsAssumption
    DEF WithdrawCommission, ReinitValidator, OperatorAddress
  <2>2. ~Past' /\ ~RedelegationsReset' /\ ~UnbondingsReset' /\ ~SetApplied'
    BY <2>1 DEF Past, RedelegationsReset, UnbondingsReset, SetApplied
  <2>3. \A v \in Validators : ~BondReset(v)'
    BY <2>1 DEF Past, BondReset
  <2>4. pc' \in Steps
    BY <2>1 DEF Steps
  <2> QED
    BY <1>1, <2>1, <2>2, <2>3, <2>4, GotoIInv
<1>4. CASE \/ LoadHeightFails \/ InvalidList \/ IterateFails \/ ReinitDelegationPanics
           \/ SetEntryFails \/ ResetBondFails \/ SetSigningInfoFails
           \/ ApplyValidatorSetPanics \/ ApplyValidatorSetFails \/ ExportModulesFails
  <2>1. pc' \in {"error", "panic"} /\ todo' = {}
    BY <1>4 DEF LoadHeightFails, InvalidList, IterateFails, ReinitDelegationPanics, SetEntryFails,
                ResetBondFails, SetSigningInfoFails, ApplyValidatorSetPanics,
                ApplyValidatorSetFails, ExportModulesFails, Finish
  <2>2. ~Past' /\ ~RedelegationsReset' /\ ~UnbondingsReset' /\ ~SetApplied'
    BY <2>1 DEF Past, RedelegationsReset, UnbondingsReset, SetApplied
  <2>3. \A v \in Validators : ~BondReset(v)'
    BY <2>1 DEF Past, BondReset
  <2>4. pc' \in Steps /\ todo' \subseteq Validators \cup Delegations
    BY <2>1 DEF Steps, Ended
  <2> QED
    BY <1>1, <2>2, <2>3, <2>4, GotoIInv
<1>5. CASE ApplyValidatorSet
  <2>1. pc = "apply" /\ pc' = "signing" /\ todo' = {}
    BY <1>5 DEF ApplyValidatorSet
  <2>2. ~Past' /\ RedelegationsReset /\ UnbondingsReset
    BY <2>1 DEF Past, RedelegationsReset, UnbondingsReset
  <2>3. \A v \in Validators : BondReset(v)
    BY <2>1 DEF BondReset
  <2>4. Jailed \cap Walked(val) = {}
    BY <1>5 DEF ApplyValidatorSet
  <2>5. pc' \in Steps /\ todo' \subseteq Validators \cup Delegations
    BY <2>1 DEF Steps
  <2> QED
    BY <1>1, <2>2, <2>3, <2>4, <2>5, GotoIInv
<1>6. CASE ExportModules
  <2>1. pc = "modules" /\ pc' = "ok" /\ todo' = {}
    BY <1>6 DEF ExportModules, Finish
  <2>2. Past' => Past
    BY <1>1, <2>1 DEF Past
  <2>3. /\ RedelegationsReset' => RedelegationsReset
        /\ UnbondingsReset' => UnbondingsReset
        /\ SetApplied' => SetApplied
    BY <2>1, <2>2 DEF RedelegationsReset, UnbondingsReset, SetApplied
  <2>4. \A v \in Validators : BondReset(v)' => BondReset(v)
    BY <2>1, <2>2 DEF BondReset
  <2>5. pc' \in Steps /\ todo' \subseteq Validators \cup Delegations
    BY <2>1 DEF Steps, Ended
  <2> QED
    BY <1>1, <2>2, <2>3, <2>4, <2>5, GotoIInv
<1> QED
  BY <1>2, <1>3, <1>4, <1>5, <1>6

\* The outstanding rewards when those of one validator change, or none.
LEMMA OutstandingChange ==
  ASSUME NEW vs, IsStore(vs), NEW us, IsStore(us), NEW v \in Validators,
         \A u \in Validators : u # v => us[u].outstanding = vs[u].outstanding
  PROVE  /\ Outstanding(vs) \in Nat /\ Outstanding(us) \in Nat
         /\ Outstanding(us) + vs[v].outstanding = Outstanding(vs) + us[v].outstanding
<1> DEFINE f == [u \in Validators |-> vs[u].outstanding]
           g == [u \in Validators |-> us[u].outstanding]
<1>1. f \in [Validators -> Nat] /\ g \in [Validators -> Nat]
  BY DEF IsStore, ValidatorState
<1>2. /\ f[v] = vs[v].outstanding /\ g[v] = us[v].outstanding
      /\ \A u \in Validators : u # v => f[u] = g[u]
  OBVIOUS
<1> HIDE DEF f, g
<1>3. /\ Total(f) \in Nat /\ Total(g) \in Nat
      /\ Total(g) + f[v] = Total(f) + g[v]
  BY <1>1, <1>2, ConstantsAssumption, TotalFacts
<1> QED
  BY <1>2, <1>3 DEF Outstanding, f, g

\* The total outstanding depends on the outstanding rewards only.
LEMMA OutstandingSame ==
  ASSUME NEW vs, NEW us, \A u \in Validators : us[u].outstanding = vs[u].outstanding
  PROVE  Outstanding(us) = Outstanding(vs)
<1>1. [u \in Validators |-> us[u].outstanding] = [u \in Validators |-> vs[u].outstanding]
  OBVIOUS
<1> QED
  BY <1>1 DEF Outstanding

\* What is owed to a validator's delegations when one delegation is paid.
LEMMA OwedPaid ==
  ASSUME NEW ds \in [Delegations -> DelegationState], NEW d \in Delegations,
         NEW es \in [Delegations -> DelegationState],
         es[d].val = ds[d].val, es[d].reward = 0,
         \A e \in Delegations : e # d => es[e] = ds[e],
         NEW v \in Validators
  PROVE  /\ Owed(ds, v) \in Nat /\ Owed(es, v) \in Nat
         /\ v = ds[d].val => Owed(es, v) + ds[d].reward = Owed(ds, v)
         /\ v # ds[d].val => Owed(es, v) = Owed(ds, v)
<1> DEFINE f == [e \in Delegations |-> IF ds[e].val = v THEN ds[e].reward ELSE 0]
           g == [e \in Delegations |-> IF es[e].val = v THEN es[e].reward ELSE 0]
<1>1. f \in [Delegations -> Nat] /\ g \in [Delegations -> Nat]
  BY DEF DelegationState
<1>2. /\ f[d] = (IF ds[d].val = v THEN ds[d].reward ELSE 0) /\ g[d] = 0
      /\ \A e \in Delegations : e # d => f[e] = g[e]
  OBVIOUS
<1>3. ds[d].reward \in Nat
  BY DEF DelegationState
<1> HIDE DEF f, g
<1>4. /\ Total(f) \in Nat /\ Total(g) \in Nat
      /\ Total(g) + f[d] = Total(f) + g[d]
  BY <1>1, <1>2, ConstantsAssumption, TotalFacts
<1> QED
  BY <1>2, <1>3, <1>4 DEF Owed, f, g

\* What is owed to delegations depends on their validator and reward only.
LEMMA OwedSame ==
  ASSUME NEW ds, NEW es,
         \A e \in Delegations : es[e].val = ds[e].val /\ es[e].reward = ds[e].reward,
         NEW v \in Validators
  PROVE  Owed(es, v) = Owed(ds, v)
<1>1. [e \in Delegations |-> IF es[e].val = v THEN es[e].reward ELSE 0]
         = [e \in Delegations |-> IF ds[e].val = v THEN ds[e].reward ELSE 0]
  OBVIOUS
<1> QED
  BY <1>1 DEF Owed

\* Whole coins are sent and the rest stays: neither is more than the reward.
LEMMA TruncatedFacts ==
  ASSUME NEW x \in Nat
  PROVE  Truncated(x) \in Int /\ x - Truncated(x) \in Nat /\ x - Truncated(x) <= x
<1>1. x % Unit \in 0..(Unit - 1)
  BY ConstantsAssumption
<1>2. x % Unit <= x
  BY ConstantsAssumption
<1> QED
  BY <1>1, <1>2, ConstantsAssumption DEF Truncated

\* Before the staking records are reset, a step that leaves them alone.
LEMMA EarlyProgress ==
  ASSUME IInv, UNCHANGED <<allowed, jailedBefore, closeFailed>>,
         pc' \in {"rewards", "delegations", "clear", "validators"},
         \A v \in Validators : SameStaking(val[v], val'[v])
  PROVE  Progress'
<1>1. ~Past' /\ ~RedelegationsReset' /\ ~UnbondingsReset' /\ ~SetApplied'
  BY DEF Past, RedelegationsReset, UnbondingsReset, SetApplied
<1>2. ASSUME NEW v \in Validators
      PROVE  /\ ~BondReset(v)'
             /\ val'[v].jailed = TRUE => v \in jailedBefore' \/ Unlisted(v)'
             /\ v \in jailedBefore' => val'[v].jailed = TRUE
  <2>1. ~BondReset(v)'
    BY DEF BondReset, Past
  <2>2. /\ val[v].jailed = TRUE => v \in jailedBefore \/ Unlisted(v)
        /\ v \in jailedBefore => val[v].jailed = TRUE
    BY DEF IInv, Progress
  <2>3. val'[v].jailed = val[v].jailed
    BY DEF SameStaking
  <2>4. Unlisted(v)' <=> Unlisted(v)
    BY DEF Unlisted
  <2> QED
    BY <2>1, <2>2, <2>3, <2>4
<1> QED
  BY <1>1, <1>2 DEF Progress

\* What WithdrawDelegationRewards pays, it takes from the outstanding rewards.
LEMMA WithdrawRewardsIInv ==
  ASSUME IInv, NEW d \in Delegations, WithdrawRewards(d)
  PROVE  IInv'
<1> DEFINE v == del[d].val
           reward == del[d].reward
           ended == NextPeriod(val[v])
           h == DecrementReference(ended.history, del[d].period)
           y == [ended EXCEPT !.history = h]
           left == [y EXCEPT !.outstanding = ended.outstanding - reward]
           started == StartDelegation(left)
           paid == Truncated(reward)
           entry == [val |-> v, reward |-> 0, height |-> ctxHeight, period |-> left.period - 1]
<1>1. /\ v \in Validators /\ reward \in Nat /\ del \in [Delegations -> DelegationState]
      /\ IsStore(val) /\ ctxHeight \in Nat /\ pool \in Nat /\ balance \in Nat
  BY DEF IInv, TypeOK, DelegationState
<1>2. /\ val[v].outstanding \in Nat /\ val[v].period \in Nat
      /\ \A u \in Validators : val[u].outstanding \in Nat
  BY <1>1, Fields
<1>3. /\ ValidatorOK(ended) /\ SameStaking(val[v], ended)
      /\ ended.period = val[v].period + 1 /\ ended.outstanding = val[v].outstanding
      /\ ended.history[val[v].period] = 1
  BY <1>1, Fields, NextPeriodFacts
<1>4. val' = [val EXCEPT ![v] = started]
  <2>1. val' = [val EXCEPT ![v] = StartDelegation(
                   [ended EXCEPT !.history = h, !.outstanding = ended.outstanding - reward])]
    BY DEF WithdrawRewards
  <2> QED
    BY <2>1
<1>5. /\ del' = [del EXCEPT ![d] = entry]
      /\ pool' = pool + (reward - paid) /\ balance' = balance - paid
  <2>1. left = [ended EXCEPT !.history = h, !.outstanding = ended.outstanding - reward]
    OBVIOUS
  <2> HIDE DEF left
  <2> QED
    BY <2>1 DEF WithdrawRewards
<1>6. reward <= Owed(del, v) /\ Owed(del, v) <= val[v].outstanding /\ Owed(del, v) \in Nat
  <2> DEFINE f == [e \in Delegations |-> IF del[e].val = v THEN del[e].reward ELSE 0]
  <2>1. f \in [Delegations -> Nat]
    BY <1>1 DEF DelegationState
  <2>2. f[d] = reward
    OBVIOUS
  <2>3. Owed(del, v) = Total(f)
    BY DEF Owed
  <2> HIDE DEF f
  <2>4. f[d] <= Total(f) /\ Total(f) \in Nat
    BY <2>1, ConstantsAssumption, TotalCovers, TotalNat
  <2> QED
    BY <1>1, <2>2, <2>3, <2>4 DEF IInv, RewardsCovered
<1> HIDE DEF ended
<1>7. IsHistory(h, ended.period) /\ \A q \in DOMAIN h : h[q] <= ended.history[q]
  <2>1. IsHistory(ended.history, ended.period) /\ ended.period \in Nat
    BY <1>2, <1>3 DEF ValidatorOK
  <2> QED
    BY <2>1, DecrementFacts
<1> HIDE DEF h
<1>8. /\ y \in ValidatorState(h) /\ y.history = h /\ SameStaking(ended, y)
      /\ y.period = ended.period /\ y.outstanding = ended.outstanding
  BY <1>3, SetHistory DEF ValidatorOK
<1> HIDE DEF y
<1>9. ended.outstanding - reward \in Nat
  BY <1>1, <1>2, <1>3, <1>6
<1>10. /\ left \in ValidatorState(h) /\ left.history = h /\ SameStaking(y, left)
       /\ left.period = ended.period /\ left.outstanding = val[v].outstanding - reward
  <2>1. y \in ValidatorState(y.history)
    BY <1>8
  <2>2. /\ left \in ValidatorState(y.history) /\ left.history = y.history
        /\ SameStaking(y, left)
        /\ left.period = y.period /\ left.outstanding = ended.outstanding - reward
    BY <1>9, <2>1, SetOutstanding
  <2> QED
    BY <1>3, <1>8, <2>2
<1> HIDE DEF left
<1>11. /\ ValidatorOK(started) /\ SameStaking(left, started)
       /\ started.outstanding = val[v].outstanding - reward
  <2>1. ValidatorOK(left)
    BY <1>7, <1>10 DEF ValidatorOK
  <2>2. left.period - 1 = val[v].period
    BY <1>2, <1>3, <1>10
  <2>3. (left.period - 1) \in DOMAIN left.history => left.history[left.period - 1] <= 2
    <3>1. ASSUME val[v].period \in DOMAIN h PROVE h[val[v].period] <= 1 /\ h[val[v].period] \in Nat
      BY <1>3, <1>7, <3>1 DEF IsHistory
    <3> QED
      BY <1>10, <2>2, <3>1
  <2> QED
    BY <1>10, <2>1, <2>3, StartDelegationFacts
<1> HIDE DEF started
<1>12. /\ IsStore(val') /\ val'[v] = started
       /\ \A u \in Validators : u # v => val'[u] = val[u]
  <2> DEFINE us == [val EXCEPT ![v] = started]
  <2>1. val' = us
    BY <1>4
  <2> HIDE DEF v
  <2>2. IsStore(us) /\ us[v] = started /\ \A u \in Validators : u # v => us[u] = val[u]
    BY <1>1, <1>11, StorePut
  <2> HIDE DEF us
  <2> QED
    BY <2>1, <2>2
<1>13. \A u \in Validators : SameStaking(val[u], val'[u])
  BY <1>3, <1>8, <1>10, <1>11, <1>12 DEF SameStaking
<1>14. /\ Outstanding(val) \in Nat /\ Outstanding(val') \in Nat
       /\ Outstanding(val') + val[v].outstanding = Outstanding(val) + val'[v].outstanding
  BY <1>1, <1>12, OutstandingChange
<1>15. /\ paid \in Int /\ reward - paid \in Nat
  BY <1>1, TruncatedFacts
<1> HIDE DEF paid
<1>16. balance' = pool' + Outstanding(val') /\ pool' \in Nat /\ balance' \in Nat
  <2>1. balance = pool + Outstanding(val)
    BY DEF IInv, HoldingsMatch
  <2>2. Outstanding(val') = Outstanding(val) - reward
    BY <1>1, <1>2, <1>11, <1>12, <1>14
  <2>3. pool' \in Nat
    BY <1>1, <1>5, <1>15
  <2>4. balance' = pool' + Outstanding(val')
    BY <1>1, <1>5, <1>14, <1>15, <2>1, <2>2
  <2> QED
    BY <1>14, <2>3, <2>4
<1>17. entry \in DelegationState /\ entry.val = v /\ entry.reward = 0
  <2>1. left.period - 1 \in Nat
    BY <1>2, <1>3, <1>10
  <2> QED
    BY <1>1, <2>1 DEF DelegationState
<1> HIDE DEF entry
<1>18. /\ del' \in [Delegations -> DelegationState]
       /\ del'[d] = entry /\ \A e \in Delegations : e # d => del'[e] = del[e]
  BY <1>1, <1>5, <1>17
<1>19. \A u \in Validators : Owed(del', u) <= val'[u].outstanding
  <2> SUFFICES ASSUME NEW u \in Validators PROVE Owed(del', u) <= val'[u].outstanding
    OBVIOUS
  <2>1. /\ Owed(del, u) \in Nat /\ Owed(del', u) \in Nat
        /\ u = del[d].val => Owed(del', u) + del[d].reward = Owed(del, u)
        /\ u # del[d].val => Owed(del', u) = Owed(del, u)
    BY <1>1, <1>17, <1>18, OwedPaid
  <2>2. Owed(del, u) <= val[u].outstanding
    BY DEF IInv, RewardsCovered
  <2>3. CASE u = v
    BY <1>1, <1>2, <1>11, <1>12, <2>1, <2>2, <2>3
  <2>4. CASE u # v
    BY <1>12, <2>1, <2>2, <2>4
  <2> QED
    BY <2>3, <2>4
<1>20. /\ UNCHANGED <<forZeroHeight, allowed, ctxHeight, red, ubd, jailedBefore, closeFailed>>
       /\ pc' \in {"rewards", "delegations"} /\ todo' \subseteq Validators \cup Delegations
  BY DEF WithdrawRewards, AfterRewards, Goto, IInv, TypeOK
<1>21. TypeOK'
  BY <1>12, <1>16, <1>18, <1>20 DEF IInv, TypeOK, Steps
<1>22. Progress'
  BY <1>13, <1>20, EarlyProgress
<1> QED
  BY <1>16, <1>19, <1>21, <1>22 DEF IInv, HoldingsMatch, RewardsCovered

\* A withdrawal that fails moves no coin, and has ended a period at most.
LEMMA WithdrawRewardsFailsIInv ==
  ASSUME IInv, NEW d \in Delegations, WithdrawRewardsFails(d)
  PROVE  IInv'
<1> DEFINE v == del[d].val
           ended == NextPeriod(val[v])
           us == [val EXCEPT ![v] = ended]
<1>1. v \in Validators /\ IsStore(val)
  BY DEF IInv, TypeOK, DelegationState
<1>2. ValidatorOK(ended) /\ SameStaking(val[v], ended) /\ ended.outstanding = val[v].outstanding
  BY <1>1, Fields, NextPeriodFacts
<1>3. val' = val \/ val' = us
  BY DEF WithdrawRewardsFails
<1> HIDE DEF ended
<1>4. IsStore(us) /\ us[v] = ended /\ \A u \in Validators : u # v => us[u] = val[u]
  <2> HIDE DEF v
  <2> QED
    BY <1>1, <1>2, StorePut
<1> HIDE DEF us, v
<1>5. IsStore(val') /\ \A u \in Validators : val'[u] = val[u] \/ (u = v /\ val'[u] = ended)
  BY <1>1, <1>3, <1>4
<1>6. \A u \in Validators : SameStaking(val[u], val'[u]) /\ val'[u].outstanding = val[u].outstanding
  BY <1>2, <1>5 DEF SameStaking
<1>7. /\ UNCHANGED <<forZeroHeight, allowed, ctxHeight, del, red, ubd, pool, balance, jailedBefore,
                     closeFailed>>
      /\ pc' \in {"rewards", "delegations"} /\ todo' \subseteq Validators \cup Delegations
  BY DEF WithdrawRewardsFails, AfterRewards, Goto, IInv, TypeOK
<1>8. Outstanding(val') = Outstanding(val)
  BY <1>6, OutstandingSame
<1>9. TypeOK'
  BY <1>5, <1>7 DEF IInv, TypeOK, Steps
<1>10. Progress'
  BY <1>6, <1>7, EarlyProgress
<1>11. HoldingsMatch' /\ RewardsCovered'
  BY <1>6, <1>7, <1>8 DEF IInv, HoldingsMatch, RewardsCovered
<1> QED
  BY <1>9, <1>10, <1>11 DEF IInv

\* A delegation starts anew in a new period of its validator; no coin moves.
LEMMA ReinitDelegationIInv ==
  ASSUME IInv, NEW d \in Delegations, ReinitDelegation(d)
  PROVE  IInv'
<1> DEFINE v == del[d].val
           ended == NextPeriod(val[v])
           started == StartDelegation(ended)
<1>1. /\ v \in Validators /\ del \in [Delegations -> DelegationState]
      /\ IsStore(val) /\ ctxHeight \in Nat
  BY DEF IInv, TypeOK, DelegationState
<1>2. val[v].period \in Nat
  BY <1>1, Fields
<1>3. /\ ValidatorOK(ended) /\ SameStaking(val[v], ended)
      /\ ended.period = val[v].period + 1 /\ ended.outstanding = val[v].outstanding
      /\ ended.history[val[v].period] = 1
  BY <1>1, Fields, NextPeriodFacts
<1>4. /\ val' = [val EXCEPT ![v] = started]
      /\ del' = [del EXCEPT ![d].period = ended.period - 1, ![d].height = ctxHeight]
  BY DEF ReinitDelegation
<1> HIDE DEF ended
<1>5. /\ ValidatorOK(started) /\ SameStaking(ended, started)
      /\ started.outstanding = val[v].outstanding
  <2>1. ended.period - 1 = val[v].period
    BY <1>2, <1>3
  <2> QED
    BY <1>3, <2>1, StartDelegationFacts
<1> HIDE DEF started
<1>6. /\ IsStore(val') /\ val'[v] = started
      /\ \A u \in Validators : u # v => val'[u] = val[u]
  <2> DEFINE us == [val EXCEPT ![v] = started]
  <2>1. val' = us
    BY <1>4
  <2> HIDE DEF v
  <2>2. IsStore(us) /\ us[v] = started /\ \A u \in Validators : u # v => us[u] = val[u]
    BY <1>1, <1>5, StorePut
  <2> HIDE DEF us
  <2> QED
    BY <2>1, <2>2
<1>7. \A u \in Validators : SameStaking(val[u], val'[u]) /\ val'[u].outstanding = val[u].outstanding
  BY <1>3, <1>5, <1>6 DEF SameStaking
<1>8. /\ del' \in [Delegations -> DelegationState]
      /\ \A e \in Delegations : del'[e].val = del[e].val /\ del'[e].reward = del[e].reward
  <2>1. ended.period - 1 \in Nat
    BY <1>2, <1>3
  <2> DEFINE x == [del[d] EXCEPT !.period = ended.period - 1]
             z == [x EXCEPT !.height = ctxHeight]
  <2>2. x \in DelegationState /\ x.val = del[d].val /\ x.reward = del[d].reward
    BY <1>1, <2>1 DEF DelegationState
  <2>3. del' = [del EXCEPT ![d] = z]
    BY <1>1, <1>4
  <2> HIDE DEF x
  <2>4. z \in DelegationState /\ z.val = del[d].val /\ z.reward = del[d].reward
    BY <1>1, <2>2 DEF DelegationState
  <2> HIDE DEF z
  <2> QED
    BY <1>1, <2>3, <2>4
<1>9. /\ UNCHANGED <<forZeroHeight, allowed, ctxHeight, red, ubd, pool, balance, jailedBefore, closeFailed>>
      /\ pc' \in {"clear", "delegations"} /\ todo' \subseteq Validators \cup Delegations
  BY DEF ReinitDelegation, Goto, IInv, TypeOK
<1>10. Outstanding(val') = Outstanding(val)
  BY <1>7, OutstandingSame
<1>11. \A u \in Validators : Owed(del', u) = Owed(del, u)
  BY <1>8, OwedSame
<1>12. TypeOK'
  BY <1>6, <1>8, <1>9 DEF IInv, TypeOK, Steps
<1>13. Progress'
  BY <1>7, <1>9, EarlyProgress
<1>14. HoldingsMatch' /\ RewardsCovered'
  BY <1>7, <1>9, <1>10, <1>11 DEF IInv, HoldingsMatch, RewardsCovered
<1> QED
  BY <1>12, <1>13, <1>14 DEF IInv

\* Deleting the historical rewards touches no coin.
LEMMA ClearHistoryIInv ==
  ASSUME IInv, ClearHistory
  PROVE  IInv'
<1>1. /\ val' = [v \in Validators |-> [val[v] EXCEPT !.history = <<>>]]
      /\ pc' = "validators" /\ todo' = Validators
      /\ UNCHANGED <<forZeroHeight, allowed, ctxHeight, del, red, ubd, pool, balance, jailedBefore, closeFailed>>
  BY DEF ClearHistory, Goto
<1>2. \A n \in Nat : IsHistory(<<>>, n)
  BY DEF IsHistory
<1>3. ASSUME NEW v \in Validators
      PROVE  /\ ValidatorOK(val'[v]) /\ SameStaking(val[v], val'[v])
             /\ val'[v].outstanding = val[v].outstanding
  <2> DEFINE h == <<>>
             x == [val[v] EXCEPT !.history = h]
  <2>1. val'[v] = x
    BY <1>1
  <2>2. val[v] \in ValidatorState(val[v].history) /\ val[v].period \in Nat
    BY Fields
  <2>3. IsHistory(h, val[v].period)
    BY <1>2, <2>2
  <2> HIDE DEF h
  <2>4. /\ x \in ValidatorState(h) /\ x.history = h /\ SameStaking(val[v], x)
        /\ x.period = val[v].period /\ x.outstanding = val[v].outstanding
    BY <2>2, SetHistory
  <2> HIDE DEF x
  <2> QED
    BY <2>1, <2>3, <2>4 DEF ValidatorOK
<1>4. IsStore(val')
  <2>1. val' = [v \in Validators |-> val'[v]]
    BY <1>1
  <2> QED
    BY <1>3, <2>1, StoreMap
<1>5. Outstanding(val') = Outstanding(val)
  BY <1>3, OutstandingSame
<1>6. TypeOK'
  BY <1>1, <1>4 DEF IInv, TypeOK, Steps
<1>7. Progress'
  BY <1>1, <1>3, EarlyProgress
<1>8. HoldingsMatch' /\ RewardsCovered'
  BY <1>1, <1>3, <1>5 DEF IInv, HoldingsMatch, RewardsCovered
<1> QED
  BY <1>6, <1>7, <1>8 DEF IInv

\* Resetting the entries twice is resetting them.
LEMMA ZeroFacts ==
  ASSUME NEW f
  PROVE  Zero(Zero(f)) = Zero(f) /\ \A e \in DOMAIN Zero(f) : Zero(f)[e] \in Nat
  BY DEF Zero

\* What is known of the staking record of a validator throughout.
LEMMA StakingKnown ==
  ASSUME IInv, NEW v \in Validators
  PROVE  /\ val[v].jailed = TRUE => v \in jailedBefore \/ Unlisted(v)
         /\ v \in jailedBefore => val[v].jailed = TRUE
  BY DEF IInv, Progress

\* The creation heights of redelegations and unbondings are reset.
LEMMA ResetEntriesIInv ==
  ASSUME IInv, ResetRedelegations \/ ResetUnbondings
  PROVE  IInv'
<1>1. UNCHANGED <<forZeroHeight, allowed, ctxHeight, val, del, pool, balance, jailedBefore, closeFailed>>
  BY DEF ResetRedelegations, ResetUnbondings, distr
<1>2. \/ /\ pc = "redelegations" /\ pc' = "unbondings" /\ todo' = {}
         /\ red' = Zero(red) /\ ubd' = ubd
      \/ /\ pc = "unbondings" /\ pc' = "bonds" /\ todo' = Validators
         /\ red' = red /\ ubd' = Zero(ubd)
  BY DEF ResetRedelegations, ResetUnbondings, Goto
<1>3. \A e \in DOMAIN red' : red'[e] \in Nat
  BY <1>2, ZeroFacts DEF IInv, TypeOK
<1>4. \A e \in DOMAIN ubd' : ubd'[e] \in Nat
  BY <1>2, ZeroFacts DEF IInv, TypeOK
<1>5. TypeOK'
  BY <1>1, <1>2, <1>3, <1>4 DEF IInv, TypeOK, Steps
<1>6. HoldingsMatch' /\ RewardsCovered'
  BY <1>1 DEF IInv, HoldingsMatch, RewardsCovered
<1>7. Progress'
  <2>1. ~Past' /\ ~SetApplied' /\ \A v \in Validators : ~BondReset(v)'
    BY <1>2 DEF Past, SetApplied, BondReset
  <2>2. red' = Zero(red')
    BY <1>2, ZeroFacts DEF IInv, Progress, RedelegationsReset
  <2>3. UnbondingsReset' => ubd' = Zero(ubd')
    BY <1>2, ZeroFacts DEF UnbondingsReset, Past
  <2>4. ASSUME NEW v \in Validators
        PROVE  /\ val'[v].jailed = TRUE => v \in jailedBefore' \/ Unlisted(v)'
               /\ v \in jailedBefore' => val'[v].jailed = TRUE
    BY <1>1, StakingKnown DEF Unlisted
  <2> QED
    BY <2>1, <2>2, <2>3, <2>4 DEF Progress
<1> QED
  BY <1>5, <1>6, <1>7 DEF IInv

\* The bond height is reset, and a validator off the list is jailed.
LEMMA ResetBondIInv ==
  ASSUME IInv, NEW v \in Validators, ResetBond(v)
  PROVE  IInv'
<1> DEFINE w == val[v]
           j == w.jailed \/ (allowed # {} /\ v \notin allowed)
           y == [w EXCEPT !.unbondingHeight = 0]
           x == [y EXCEPT !.jailed = j]
<1>1. /\ w \in ValidatorState(w.history) /\ ValidatorOK(w) /\ IsStore(val)
  BY Fields DEF IInv, TypeOK
<1>2. /\ pc = "bonds" /\ v \in todo
      /\ \/ todo = {v} /\ pc' = "apply" /\ todo' = {}
         \/ pc' = "bonds" /\ todo' = todo \ {v}
      /\ UNCHANGED <<forZeroHeight, allowed, ctxHeight, del, red, ubd, pool, balance, jailedBefore, closeFailed>>
  BY DEF ResetBond, Goto
<1>3. val' = [val EXCEPT ![v] = x]
  BY <1>1 DEF ResetBond, IsStore
<1>4. j \in BOOLEAN /\ (j = TRUE <=> w.jailed = TRUE \/ Unlisted(v))
  <2>1. w.jailed \in BOOLEAN
    BY Fields
  <2> QED
    BY <2>1 DEF Unlisted
<1> HIDE DEF j, w
<1>5. /\ y \in ValidatorState(w.history) /\ y.history = w.history /\ y.period = w.period
      /\ y.outstanding = w.outstanding /\ y.unbondingHeight = 0
  BY <1>1 DEF ValidatorState
<1> HIDE DEF y
<1>6. /\ x \in ValidatorState(w.history) /\ x.history = y.history /\ x.period = y.period
      /\ x.outstanding = y.outstanding /\ x.unbondingHeight = y.unbondingHeight
      /\ x.jailed = j
  BY <1>4, <1>5 DEF ValidatorState
<1> HIDE DEF x
<1>7. ValidatorOK(x)
  BY <1>1, <1>5, <1>6 DEF ValidatorOK
<1>8. IsStore(val') /\ val'[v] = x /\ \A u \in Validators : u # v => val'[u] = val[u]
  <2> DEFINE us == [val EXCEPT ![v] = x]
  <2>1. IsStore(us) /\ us[v] = x /\ \A u \in Validators : u # v => us[u] = val[u]
    BY <1>1, <1>7, StorePut
  <2>2. val' = us
    BY <1>3
  <2> HIDE DEF us
  <2> QED
    BY <2>1, <2>2
<1>9. \A u \in Validators : val'[u].outstanding = val[u].outstanding
  BY <1>5, <1>6, <1>8 DEF w
<1>10. Outstanding(val') = Outstanding(val)
  BY <1>9, OutstandingSame
<1>11. TypeOK'
  BY <1>2, <1>8 DEF IInv, TypeOK, Steps
<1>12. HoldingsMatch' /\ RewardsCovered'
  BY <1>2, <1>9, <1>10 DEF IInv, HoldingsMatch, RewardsCovered
<1>13. Progress'
  <2>1. ~Past' /\ ~SetApplied' /\ RedelegationsReset /\ UnbondingsReset
    BY <1>2 DEF Past, SetApplied, RedelegationsReset, UnbondingsReset
  <2>2. red' = Zero(red') /\ ubd' = Zero(ubd')
    BY <1>2, <2>1 DEF IInv, Progress
  <2>3. ASSUME NEW u \in Validators
        PROVE  /\ BondReset(u)' => val'[u].unbondingHeight = 0
               /\ val'[u].jailed = TRUE => u \in jailedBefore' \/ Unlisted(u)'
               /\ u \in jailedBefore' => val'[u].jailed = TRUE
               /\ BondReset(u)' /\ Unlisted(u)' => val'[u].jailed = TRUE
    <3>1. (Unlisted(u)' <=> Unlisted(u)) /\ jailedBefore' = jailedBefore
      BY <1>2 DEF Unlisted
    <3>2. CASE u = v
      <4>1. val'[u] = x
        BY <1>8, <3>2
      <4>2. /\ w.jailed = TRUE => v \in jailedBefore \/ Unlisted(v)
            /\ v \in jailedBefore => w.jailed = TRUE
        BY StakingKnown DEF w
      <4> QED
        BY <1>4, <1>5, <1>6, <3>1, <3>2, <4>1, <4>2
    <3>3. CASE u # v
      <4>1. val'[u] = val[u]
        BY <1>8, <3>3
      <4>2. BondReset(u)' => BondReset(u)
        BY <1>2, <3>3 DEF BondReset, Past
      <4> QED
        BY <3>1, <4>1, <4>2 DEF IInv, Progress
    <3> QED
      BY <3>2, <3>3
  <2> QED
    BY <2>1, <2>2, <2>3 DEF Progress
<1> QED
  BY <1>11, <1>12, <1>13 DEF IInv

\* Which validators are walked depends on their places and powers only.
LEMMA WalkedSame ==
  ASSUME NEW vs, NEW us,
         \A u \in Validators : us[u].place = vs[u].place /\ us[u].power = vs[u].power
  PROVE  Walked(us) = Walked(vs)
  BY DEF Walked

\* The preparation gives up behind the bond heights and is taken for finished.
LEMMA CloseFailsIInv ==
  ASSUME IInv, CloseFails
  PROVE  IInv'
<1>1. /\ pc = "apply" /\ pc' = "modules" /\ todo' = {} /\ closeFailed' = TRUE
      /\ UNCHANGED <<forZeroHeight, allowed, ctxHeight, val, del, red, ubd, pool, balance,
                     jailedBefore>>
  BY DEF CloseFails, Goto, distr
<1>2. closeFailed' \in BOOLEAN /\ closeFailed'
  BY <1>1, Zenon
<1>3. TypeOK'
  BY <1>1, <1>2 DEF IInv, TypeOK, Steps
<1>4. HoldingsMatch' /\ RewardsCovered'
  BY <1>1 DEF IInv, HoldingsMatch, RewardsCovered
<1>5. RedelegationsReset /\ UnbondingsReset /\ \A v \in Validators : BondReset(v)
  BY <1>1 DEF RedelegationsReset, UnbondingsReset, BondReset
<1>6. \A v \in Validators : Unlisted(v)' <=> Unlisted(v)
  BY <1>1 DEF Unlisted
<1>7. Progress'
  BY <1>1, <1>2, <1>5, <1>6 DEF IInv, Progress
<1> QED
  BY <1>3, <1>4, <1>7 DEF IInv

\* The start heights are reset, and nothing else.
LEMMA ResetSigningInfosIInv ==
  ASSUME IInv, ResetSigningInfos
  PROVE  IInv'
<1>1. /\ val' = [v \in Validators |-> [val[v] EXCEPT !.startHeight = 0]]
      /\ pc = "signing" /\ pc' = "modules" /\ todo' = {}
      /\ UNCHANGED <<forZeroHeight, allowed, ctxHeight, del, red, ubd, pool, balance, jailedBefore, closeFailed>>
  BY DEF ResetSigningInfos, Goto
<1>2. ASSUME NEW v \in Validators
      PROVE  /\ ValidatorOK(val'[v]) /\ val'[v].outstanding = val[v].outstanding
             /\ val'[v].jailed = val[v].jailed
             /\ val'[v].place = val[v].place /\ val'[v].power = val[v].power
             /\ val'[v].unbondingHeight = val[v].unbondingHeight /\ val'[v].startHeight = 0
  <2> DEFINE w == val[v]
             x == [w EXCEPT !.startHeight = 0]
  <2>1. val'[v] = x
    BY <1>1
  <2>2. w \in ValidatorState(w.history) /\ ValidatorOK(w)
    BY Fields
  <2> HIDE DEF w
  <2>3. /\ x \in ValidatorState(w.history) /\ x.history = w.history /\ x.period = w.period
        /\ x.outstanding = w.outstanding /\ x.unbondingHeight = w.unbondingHeight
        /\ x.place = w.place /\ x.power = w.power /\ x.jailed = w.jailed /\ x.startHeight = 0
    BY <2>2 DEF ValidatorState
  <2> HIDE DEF x
  <2>4. ValidatorOK(x)
    BY <2>2, <2>3 DEF ValidatorOK
  <2> QED
    BY <2>1, <2>3, <2>4 DEF w
<1>3. IsStore(val')
  <2>1. val' = [v \in Validators |-> val'[v]]
    BY <1>1
  <2> QED
    BY <1>2, <2>1, StoreMap
<1>4. Outstanding(val') = Outstanding(val)
  BY <1>2, OutstandingSame
<1>5. TypeOK'
  BY <1>1, <1>3 DEF IInv, TypeOK, Steps
<1>6. HoldingsMatch' /\ RewardsCovered'
  BY <1>1, <1>2, <1>4 DEF IInv, HoldingsMatch, RewardsCovered
<1>7. Progress'
  <2>1. RedelegationsReset /\ UnbondingsReset /\ SetApplied
    BY <1>1 DEF RedelegationsReset, UnbondingsReset, SetApplied
  <2>2. red' = Zero(red') /\ ubd' = Zero(ubd')
    BY <1>1, <2>1 DEF IInv, Progress
  <2>3. ASSUME NEW v \in Validators
        PROVE  /\ val'[v].unbondingHeight = 0
               /\ val'[v].jailed = TRUE => v \in jailedBefore' \/ Unlisted(v)'
               /\ v \in jailedBefore' => val'[v].jailed = TRUE
               /\ Unlisted(v)' => val'[v].jailed = TRUE
               /\ ~closeFailed' => val'[v].jailed = FALSE \/ v \notin Walked(val')
               /\ val'[v].startHeight = 0
    <3>1. BondReset(v)
      BY <1>1 DEF BondReset
    <3>2. (Unlisted(v)' <=> Unlisted(v)) /\ jailedBefore' = jailedBefore /\ closeFailed' = closeFailed
      BY <1>1 DEF Unlisted
    <3>3. Walked(val') = Walked(val)
      BY <1>2, WalkedSame
    <3> QED
      BY <1>2, <2>1, <3>1, <3>2, <3>3 DEF IInv, Progress
  <2> QED
    BY <2>2, <2>3 DEF Progress
<1> QED
  BY <1>5, <1>6, <1>7 DEF IInv

\* Every step keeps the invariant.
LEMMA StepIInv == IInv /\ [Next]_vars => IInv'
<1> SUFFICES ASSUME IInv, [Next]_vars PROVE IInv'
  OBVIOUS
<1>1. CASE UNCHANGED vars
  <2>1. /\ UNCHANGED <<pc, todo, forZeroHeight, allowed, ctxHeight, distr, red, ubd, jailedBefore, closeFailed>>
        /\ pc \in Steps /\ todo \subseteq Validators \cup Delegations
    BY <1>1 DEF vars, distr, IInv, TypeOK
  <2>2. (Past' => Past) /\ (RedelegationsReset' => RedelegationsReset)
        /\ (UnbondingsReset' => UnbondingsReset) /\ (SetApplied' => SetApplied)
    BY <2>1 DEF Past, RedelegationsReset, UnbondingsReset, SetApplied
  <2>3. \A v \in Validators : BondReset(v)' => BondReset(v)
    BY <2>1, <2>2 DEF BondReset
  <2> QED
    BY <2>1, <2>2, <2>3, GotoIInv
<1> QED
  BY <1>1, QuietIInv, WithdrawRewardsIInv, WithdrawRewardsFailsIInv, ReinitDelegationIInv,
     ClearHistoryIInv, ResetEntriesIInv, ResetBondIInv, CloseFailsIInv, ResetSigningInfosIInv DEF Next

-----------------------------------------------------------------------------
(* The theorems.                                                           *)

\* At every step of an export of any well-formed chain, with any list, any
\* number of active validators and a failure anywhere: the account is balanced,
\* the outstanding rewards cover those of the delegations still to be paid, and
\* the staking records are as far reset as the export has come; only behind an
\* iterator that was not closed the validator set and the signing infos are not.
THEOREM InvariantHolds == Spec => []IInv
  BY InitIInv, StepIInv, PTL DEF Spec

\* An export that reports success has reset every height, those of the signing
\* infos unless the iterator over the validators was not closed, and jailed
\* exactly the validators off the list.
THEOREM ExportAlwaysReset == Spec => []StakingReset
<1>1. ASSUME IInv, Exported PROVE StakingReset
  <2>1. Past /\ RedelegationsReset /\ UnbondingsReset
    BY <1>1 DEF Exported, Past, RedelegationsReset, UnbondingsReset
  <2>2. red = Zero(red) /\ ubd = Zero(ubd)
    BY <1>1, <2>1 DEF IInv, Progress
  <2>3. ASSUME NEW v \in Validators
        PROVE  /\ val[v].unbondingHeight = 0
               /\ closeFailed \/ val[v].startHeight = 0
               /\ val[v].jailed \in BOOLEAN
               /\ val[v].jailed = TRUE <=> v \in jailedBefore \/ Unlisted(v)
    <3>1. BondReset(v)
      BY <2>1 DEF BondReset
    <3>2. val[v].jailed \in BOOLEAN
      BY <1>1, Fields
    <3>3. /\ val[v].unbondingHeight = 0
          /\ closeFailed \/ val[v].startHeight = 0
          /\ val[v].jailed = TRUE => v \in jailedBefore \/ Unlisted(v)
          /\ v \in jailedBefore => val[v].jailed = TRUE
          /\ Unlisted(v) => val[v].jailed = TRUE
      BY <1>1, <2>1, <3>1 DEF IInv, Progress
    <3> QED
      BY <3>2, <3>3
  <2>4. Jailed = jailedBefore \cup (IF allowed = {} THEN {} ELSE Validators \ allowed)
    <3>1. \A v \in Validators : v \in Jailed <=> val[v].jailed = TRUE
      BY <2>3 DEF Jailed
    <3>2. Jailed \subseteq Validators /\ jailedBefore \subseteq Validators
      BY <1>1 DEF Jailed, IInv, TypeOK
    <3> QED
      BY <2>3, <3>1, <3>2 DEF Unlisted
  <2> QED
    BY <2>2, <2>3, <2>4 DEF StakingReset
<1>2. IInv => StakingReset
  BY <1>1 DEF StakingReset
<1> QED
  BY <1>2, InvariantHolds, PTL

\* With a list that leaves out a validator of the active set there is no export,
\* for any number of active validators, unless the iterator was not closed.
THEOREM ActiveAlwaysListed == Spec => []ActiveNeverUnlisted
<1>1. ASSUME IInv, Exported, allowed # {}, ~closeFailed, NEW v \in Walked(val)
      PROVE  v \in allowed
  <2>1. v \in Validators
    BY DEF Walked
  <2>2. SetApplied /\ BondReset(v)
    BY <1>1 DEF Exported, Past, SetApplied, BondReset
  <2>3. val[v].jailed = FALSE /\ (Unlisted(v) => val[v].jailed = TRUE)
    BY <1>1, <2>1, <2>2 DEF IInv, Progress
  <2> QED
    BY <1>1, <2>3 DEF Unlisted
<1>2. IInv => ActiveNeverUnlisted
  BY <1>1 DEF ActiveNeverUnlisted
<1> QED
  BY <1>2, InvariantHolds, PTL

\* Of any well-formed chain, with any list and a failure anywhere: no step creates
\* or loses a fraction of a coin in the distribution account, and an export that
\* reports success has been reset and jails and keeps the validators it should,
\* with the exceptions that StakingReset and ActiveNeverUnlisted name.
THEOREM ExportAlwaysCorrect == Spec => []Inv
<1>1. IInv => TypeOK /\ HoldingsMatch
  BY DEF IInv
<1> QED
  BY <1>1, InvariantHolds, ExportAlwaysReset, ActiveAlwaysListed, PTL DEF Inv
=============================================================================
