------------------------- MODULE OracleKeeper_proofs -------------------------
(***************************************************************************)
(* Proofs about OracleKeeper for any addresses, categories, timestamps,    *)
(* parameters, registries and bounds: the cache of latest values, its      *)
(* freshness, the history and its queries, and exports.                    *)
(***************************************************************************)
EXTENDS OracleKeeper, TLAPS, NaturalsInduction, FiniteSetTheorems

-----------------------------------------------------------------------------
(* The inductive invariant.                                                *)

\* A datapoint is stored under its own category and timestamp, was written in a
\* block that has been, and is dated ahead of it by the largest window at most,
\* unless the first genesis file held it.
DataMatchesKeys ==
    \A k \in DOMAIN data :
        /\ data[k].Category = k[1] /\ data[k].Timestamp = k[2]
        /\ data[k].BlockHeight <= now
        /\ data[k].BlockHeight > 0 =>
              data[k].Timestamp <= data[k].BlockHeight + OracleDataMaxAgeUpperBound

\* The cache against the series.
LatestMatches ==
    /\ DOMAIN latest = {k[1] : k \in DOMAIN data}
    /\ \A c \in DOMAIN latest :
          /\ <<c, latest[c].Timestamp>> \in DOMAIN data
          /\ data[<<c, latest[c].Timestamp>>] = latest[c]
          /\ \/ \A k \in DOMAIN data : k[1] = c => data[k].BlockHeight <= latest[c].BlockHeight
             \/ \A k \in DOMAIN data : k[1] = c => data[k].Timestamp <= latest[c].Timestamp

\* The store holds finitely many oracles and datapoints.
Finite == IsFiniteSet(DOMAIN data) /\ IsFiniteSet(DOMAIN oracles)

IInv == TypeOK /\ ParamsValid(params) /\ DataMatchesKeys /\ LatestMatches /\ Finite

-----------------------------------------------------------------------------
(* Maps and finite sets of numbers.                                        *)

\* What writing one key of a map does.
LEMMA MapSetFacts ==
  ASSUME NEW f, NEW K, NEW V, IsMap(f, K, V), NEW k \in K, NEW v \in V
  PROVE  LET g == MapSet(f, k, v)
         IN  /\ IsMap(g, K, V)
             /\ DOMAIN g = DOMAIN f \cup {k}
             /\ g[k] = v
             /\ \A x \in DOMAIN f : x # k => g[x] = f[x]
  BY DEF IsMap, MapSet

\* A finite non-empty set of numbers has a largest member: the one with the
\* fewest members above it.
LEMMA FiniteHasMax ==
  ASSUME NEW S, S \subseteq Nat, IsFiniteSet(S), S # {}
  PROVE  \E n \in S : \A m \in S : m <= n
<1> DEFINE above(x) == {y \in S : y > x}
           T == {Cardinality(above(x)) : x \in S}
<1>1. \A x \in S : IsFiniteSet(above(x)) /\ Cardinality(above(x)) \in Nat
  <2> SUFFICES ASSUME NEW x \in S
               PROVE  IsFiniteSet(above(x)) /\ Cardinality(above(x)) \in Nat
    OBVIOUS
  <2>1. above(x) \in SUBSET S
    OBVIOUS
  <2> HIDE DEF above
  <2>2. IsFiniteSet(above(x))
    BY <2>1, FS_Subset
  <2> QED
    BY <2>2, FS_CardinalityType
<1>2. T \subseteq Nat /\ T # {}
  BY <1>1
<1>3. PICK t \in T : \A u \in T : ~(<<u, t>> \in OpToRel(<, Nat))
  <2> HIDE DEF T
  <2> QED
    BY <1>2, NatLessThanWellFounded, WFMin
<1>4. PICK x \in S : t = Cardinality(above(x))
  OBVIOUS
<1>5. ASSUME NEW y \in S, y > x PROVE FALSE
  <2>1. above(y) \in SUBSET above(x) /\ y \in above(x) /\ y \notin above(y)
    <3>1. x \in Nat /\ y \in Nat /\ \A z \in S : z \in Nat
      OBVIOUS
    <3>2. \A z \in S : z > y => z > x
      BY <1>5, <3>1
    <3>3. ~ (y > y)
      BY <3>1
    <3> QED
      BY <1>5, <3>2, <3>3, Zenon
  <2>2. Cardinality(above(y)) \in T
    OBVIOUS
  <2> HIDE DEF above, T
  <2>3. Cardinality(above(y)) <= Cardinality(above(x)) /\ Cardinality(above(x)) # Cardinality(above(y))
    BY <1>1, <2>1, FS_Subset
  <2>4. Cardinality(above(y)) < t /\ Cardinality(above(y)) \in Nat /\ t \in Nat
    BY <1>1, <1>4, <2>3
  <2>5. <<Cardinality(above(y)), t>> \in OpToRel(<, Nat)
    BY <2>4 DEF OpToRel
  <2> QED
    BY <1>3, <2>2, <2>5
<1>6. \A m \in S : m <= x
  <2>1. \A m \in S : m \in Nat /\ x \in Nat /\ ~ (m > x)
    BY <1>5
  <2> QED
    BY <2>1
<1> QED
  BY <1>6

-----------------------------------------------------------------------------
(* The steps.                                                              *)

\* Last is the largest member of a non-empty set of positions in a file.
LEMMA LastFacts ==
  ASSUME NEW n \in Nat, NEW S \in SUBSET (1..n), S # {}
  PROVE  Last(S) \in S /\ \A j \in S : j <= Last(S)
<1>1. IsFiniteSet(S)
  <2>1. IsFiniteSet(1..n)
    BY FS_Interval
  <2> QED
    BY <2>1, FS_Subset
<1>2. S \subseteq Nat
  OBVIOUS
<1>3. \E i \in S : \A j \in S : j <= i
  BY <1>1, <1>2, FiniteHasMax
<1> QED
  BY <1>3 DEF Last

\* What InitGenesis makes of the records of a valid file, in whatever order: each
\* is in the series under its key, and the cache holds for each category one of
\* them.
LEMMA ImportFacts ==
  ASSUME NEW recs \in Seq(OracleData),
         \A i \in DOMAIN recs : \A j \in DOMAIN recs \ {i} : Key(recs[j]) # Key(recs[i])
  PROVE  /\ DOMAIN ImportedData(recs) = {Key(recs[i]) : i \in DOMAIN recs}
         /\ \A i \in DOMAIN recs : ImportedData(recs)[Key(recs[i])] = recs[i]
         /\ DOMAIN ImportedLatest(recs) = {recs[i].Category : i \in DOMAIN recs}
         /\ \A c \in DOMAIN ImportedLatest(recs) : \E i \in DOMAIN recs :
               recs[i].Category = c /\ ImportedLatest(recs)[c] = recs[i]
         /\ IsFiniteSet(DOMAIN ImportedData(recs))
<1> DEFINE n == Len(recs)
           same(k) == {i \in DOMAIN recs : Key(recs[i]) = k}
           own(c) == {i \in DOMAIN recs : recs[i].Category = c}
           keys == {Key(recs[i]) : i \in DOMAIN recs}
           keyOf == [i \in 1..n |-> Key(recs[i])]
<1>1. n \in Nat /\ DOMAIN recs = 1..n
  OBVIOUS
<1>2. /\ DOMAIN ImportedData(recs) = keys
      /\ \A k \in keys : ImportedData(recs)[k] = recs[Last(same(k))]
  BY DEF ImportedData
<1>3. ASSUME NEW i \in DOMAIN recs PROVE ImportedData(recs)[Key(recs[i])] = recs[i]
  <2> DEFINE k == Key(recs[i])
  <2>1. same(k) \in SUBSET (1..n) /\ i \in same(k) /\ k \in keys
    BY <1>1
  <2>2. \A j \in same(k) : j = i
    OBVIOUS
  <2> HIDE DEF same, k, n, keys
  <2>3. Last(same(k)) \in same(k)
    BY <1>1, <2>1, LastFacts
  <2> QED
    BY <1>2, <2>1, <2>2, <2>3 DEF k
<1>4. /\ DOMAIN ImportedLatest(recs) = {recs[i].Category : i \in DOMAIN recs}
      /\ \A c \in DOMAIN ImportedLatest(recs) : ImportedLatest(recs)[c] = recs[Last(own(c))]
  BY DEF ImportedLatest
<1>5. ASSUME NEW c \in DOMAIN ImportedLatest(recs)
      PROVE  \E i \in DOMAIN recs : recs[i].Category = c /\ ImportedLatest(recs)[c] = recs[i]
  <2>1. own(c) \in SUBSET (1..n) /\ own(c) # {}
    BY <1>1, <1>4
  <2>2. Last(own(c)) \in own(c)
    <3> HIDE DEF own, n
    <3> QED
      BY <1>1, <2>1, LastFacts
  <2>3. Last(own(c)) \in DOMAIN recs /\ recs[Last(own(c))].Category = c
    BY <2>2
  <2> QED
    BY <1>4, <2>3
<1>6. IsFiniteSet(keys)
  <2>1. keyOf \in Surjection(1..n, keys)
    BY <1>1 DEF Surjection
  <2>2. IsFiniteSet(1..n)
    BY <1>1, FS_Interval
  <2> HIDE DEF keyOf, keys, n
  <2> QED
    BY <2>1, <2>2, FS_Surjection
<1> HIDE DEF same, own
<1> QED
  BY <1>2, <1>3, <1>4, <1>5, <1>6

\* A genesis file leads to a state of the invariant.
LEMMA InitIInv == Init => IInv
<1> SUFFICES ASSUME Init PROVE IInv
  OBVIOUS
<1>1. PICK gs \in Geneses :
        /\ params = gs.Params /\ oracles = gs.Oracles /\ now = 1
        /\ data = ImportedData(gs.Data) /\ latest = ImportedLatest(gs.Data)
  BY DEF Init
<1> DEFINE recs == gs.Data
<1>2. IsGenesisState(gs) /\ GenesisValid(gs.Params, DOMAIN gs.Oracles, recs)
  BY GenesesAssumption
<1>3. /\ recs \in Seq(OracleData)
      /\ \A i \in DOMAIN recs : recs[i] \in OracleData /\ recs[i].BlockHeight = 0
  BY <1>2 DEF IsGenesisState
<1>4. \A i \in DOMAIN recs : \A j \in DOMAIN recs \ {i} : Key(recs[j]) # Key(recs[i])
  BY <1>2 DEF GenesisValid
<1> HIDE DEF recs
<1>5. /\ DOMAIN data = {Key(recs[i]) : i \in DOMAIN recs}
      /\ \A i \in DOMAIN recs : data[Key(recs[i])] = recs[i]
      /\ DOMAIN latest = {recs[i].Category : i \in DOMAIN recs}
      /\ \A c \in DOMAIN latest : \E i \in DOMAIN recs :
            recs[i].Category = c /\ latest[c] = recs[i]
      /\ IsFiniteSet(DOMAIN data)
      /\ data = [k \in DOMAIN data |-> data[k]] /\ latest = [c \in DOMAIN latest |-> latest[c]]
  <2>1. data = ImportedData(recs) /\ latest = ImportedLatest(recs)
    BY <1>1 DEF recs
  <2>2. data = [k \in DOMAIN data |-> data[k]] /\ latest = [c \in DOMAIN latest |-> latest[c]]
    BY <2>1 DEF ImportedData, ImportedLatest
  <2>3. /\ DOMAIN ImportedData(recs) = {Key(recs[i]) : i \in DOMAIN recs}
        /\ \A i \in DOMAIN recs : ImportedData(recs)[Key(recs[i])] = recs[i]
        /\ DOMAIN ImportedLatest(recs) = {recs[i].Category : i \in DOMAIN recs}
        /\ \A c \in DOMAIN ImportedLatest(recs) : \E i \in DOMAIN recs :
              recs[i].Category = c /\ ImportedLatest(recs)[c] = recs[i]
        /\ IsFiniteSet(DOMAIN ImportedData(recs))
    BY <1>3, <1>4, ImportFacts, Zenon
  <2> QED
    BY <2>1, <2>2, <2>3, Zenon
<1>6. \A k \in DOMAIN data :
         /\ k \in Categories \X Timestamps /\ data[k] \in OracleData
         /\ k = Key(data[k]) /\ data[k].BlockHeight = 0
  <2> SUFFICES ASSUME NEW i \in DOMAIN recs
               PROVE  /\ Key(recs[i]) \in Categories \X Timestamps
                      /\ recs[i] \in OracleData /\ recs[i].BlockHeight = 0
    BY <1>5
  <2> QED
    BY <1>3 DEF Key, OracleData
<1>7. \A c \in DOMAIN latest : c \in Categories /\ latest[c] \in OracleData
                               /\ latest[c].BlockHeight = 0
                               /\ <<c, latest[c].Timestamp>> \in DOMAIN data
                               /\ data[<<c, latest[c].Timestamp>>] = latest[c]
  <2> TAKE c \in DOMAIN latest
  <2>1. PICK i \in DOMAIN recs : recs[i].Category = c /\ latest[c] = recs[i]
    BY <1>5
  <2>2. Key(recs[i]) = <<c, latest[c].Timestamp>>
    BY <2>1 DEF Key
  <2>3. c \in Categories /\ latest[c] \in OracleData /\ latest[c].BlockHeight = 0
    BY <1>3, <2>1 DEF OracleData
  <2>4. Key(recs[i]) \in DOMAIN data /\ data[Key(recs[i])] = latest[c]
    BY <1>5, <2>1
  <2> QED
    BY <2>2, <2>3, <2>4
<1>8. DOMAIN latest = {k[1] : k \in DOMAIN data}
  <2>1. \A i \in DOMAIN recs : Key(recs[i])[1] = recs[i].Category
    BY DEF Key
  <2>2. \A c \in DOMAIN latest : c \in {k[1] : k \in DOMAIN data}
    BY <1>5, <2>1
  <2>3. \A k \in DOMAIN data : k[1] \in DOMAIN latest
    BY <1>5, <2>1
  <2> QED
    BY <2>2, <2>3
<1>9. TypeOK
  <2>1. IsMap(data, Categories \X Timestamps, OracleData)
    BY <1>5, <1>6 DEF IsMap
  <2>2. IsMap(latest, Categories, OracleData)
    BY <1>5, <1>7 DEF IsMap
  <2> QED
    BY <1>1, <1>2, <2>1, <2>2, ConstantsAssumption DEF TypeOK, IsGenesisState
<1>10. Finite /\ ParamsValid(params)
  BY <1>1, <1>2, <1>5 DEF Finite, IsGenesisState, GenesisValid
<1>11. DataMatchesKeys
  BY <1>1, <1>6 DEF DataMatchesKeys, Key
<1>12. LatestMatches
  BY <1>6, <1>7, <1>8 DEF LatestMatches
<1> QED
  BY <1>9, <1>10, <1>11, <1>12 DEF IInv

\* What SubmitData does to the series and to the cache.
LEMMA SubmitFacts ==
  ASSUME IInv, NEW o \in Addresses, NEW c \in Categories, NEW ts \in Timestamps,
         NEW m \in MetadataSizes, SubmitData(o, c, ts, m)
  PROVE  LET d == [Category |-> c, Timestamp |-> ts, Submitter |-> o,
                   Metadata |-> m, BlockHeight |-> now]
         IN  /\ d \in OracleData
             /\ UNCHANGED <<params, oracles, now>>
             /\ IsMap(data', Categories \X Timestamps, OracleData)
             /\ DOMAIN data' = DOMAIN data \cup {<<c, ts>>}
             /\ data'[<<c, ts>>] = d
             /\ \A x \in DOMAIN data : x # <<c, ts>> => data'[x] = data[x]
             /\ IsMap(latest', Categories, OracleData)
             /\ DOMAIN latest' = DOMAIN latest \cup {c}
             /\ latest'[c] = d
             /\ \A x \in DOMAIN latest : x # c => latest'[x] = latest[x]
<1> DEFINE d == [Category |-> c, Timestamp |-> ts, Submitter |-> o,
                 Metadata |-> m, BlockHeight |-> now]
<1>1. now \in Nat
  BY ConstantsAssumption DEF IInv, TypeOK
<1>2. d \in OracleData /\ d.Category = c /\ d.Timestamp = ts
  BY <1>1 DEF OracleData
<1>3. /\ data' = MapSet(data, <<d.Category, d.Timestamp>>, d)
      /\ latest' = MapSet(latest, d.Category, d)
      /\ UNCHANGED <<params, oracles, now>>
  BY DEF SubmitData, SetOracleData
<1> HIDE DEF d
<1>4. /\ <<c, ts>> \in Categories \X Timestamps
      /\ data' = MapSet(data, <<c, ts>>, d) /\ latest' = MapSet(latest, c, d)
  BY <1>2, <1>3
<1>5. IsMap(data, Categories \X Timestamps, OracleData) /\ IsMap(latest, Categories, OracleData)
  BY DEF IInv, TypeOK
<1>6. /\ IsMap(data', Categories \X Timestamps, OracleData)
      /\ DOMAIN data' = DOMAIN data \cup {<<c, ts>>}
      /\ data'[<<c, ts>>] = d
      /\ \A x \in DOMAIN data : x # <<c, ts>> => data'[x] = data[x]
  <2> DEFINE K == Categories \X Timestamps
             k == <<c, ts>>
  <2>1. /\ IsMap(data, K, OracleData) /\ k \in K /\ d \in OracleData
        /\ data' = MapSet(data, k, d)
    BY <1>2, <1>4, <1>5
  <2> HIDE DEF K, k
  <2>2. /\ IsMap(data', K, OracleData)
        /\ DOMAIN data' = DOMAIN data \cup {k}
        /\ data'[k] = d
        /\ \A x \in DOMAIN data : x # k => data'[x] = data[x]
    BY <2>1 DEF IsMap, MapSet
  <2> QED
    BY <2>2 DEF K, k
<1>7. /\ IsMap(latest', Categories, OracleData)
      /\ DOMAIN latest' = DOMAIN latest \cup {c}
      /\ latest'[c] = d
      /\ \A x \in DOMAIN latest : x # c => latest'[x] = latest[x]
  BY <1>2, <1>4, <1>5 DEF IsMap, MapSet
<1> QED
  BY <1>2, <1>3, <1>6, <1>7 DEF d

\* A submission replaces the entry of its category by the newest datapoint; the
\* entries of the other categories still name what the series holds.
LEMMA SubmitDataIInv ==
  ASSUME IInv, NEW o \in Addresses, NEW c \in Categories, NEW ts \in Timestamps,
         NEW m \in MetadataSizes, SubmitData(o, c, ts, m)
  PROVE  IInv'
<1> DEFINE d == [Category |-> c, Timestamp |-> ts, Submitter |-> o,
                 Metadata |-> m, BlockHeight |-> now]
           k0 == <<c, ts>>
<1>1. /\ d \in OracleData
      /\ UNCHANGED <<params, oracles, now>>
      /\ IsMap(data', Categories \X Timestamps, OracleData)
      /\ DOMAIN data' = DOMAIN data \cup {k0}
      /\ data'[k0] = d
      /\ \A x \in DOMAIN data : x # k0 => data'[x] = data[x]
      /\ IsMap(latest', Categories, OracleData)
      /\ DOMAIN latest' = DOMAIN latest \cup {c}
      /\ latest'[c] = d
      /\ \A x \in DOMAIN latest : x # c => latest'[x] = latest[x]
  BY SubmitFacts
<1>2. /\ d.Category = c /\ d.Timestamp = ts /\ d.BlockHeight = now
      /\ k0[1] = c /\ k0[2] = ts
  OBVIOUS
<1>3. TypeOK' /\ ParamsValid(params')
  BY <1>1 DEF IInv, TypeOK
<1>4. Finite'
  <2>1. IsFiniteSet(DOMAIN data \cup {k0})
    BY FS_AddElement DEF IInv, Finite
  <2> QED
    BY <1>1, <2>1 DEF IInv, Finite
<1>5. now \in Nat /\ ts \in Nat
  BY ConstantsAssumption DEF IInv, TypeOK
<1>6. ts <= now + OracleDataMaxAgeUpperBound
  <2>1. params.DataMaxAge \in 1..OracleDataMaxAgeUpperBound
    BY DEF IInv, ParamsValid
  <2>2. ts <= now + MaxDrift /\ MaxDrift = params.DataMaxAge
    BY <1>5, <2>1, ConstantsAssumption DEF SubmitData, WithinDrift, MaxDrift
  <2> QED
    BY <1>5, <2>1, <2>2, ConstantsAssumption
<1> HIDE DEF d, k0
<1>7. DataMatchesKeys'
  <2> SUFFICES ASSUME NEW k \in DOMAIN data'
               PROVE  /\ data'[k].Category = k[1] /\ data'[k].Timestamp = k[2]
                      /\ data'[k].BlockHeight <= now
                      /\ data'[k].BlockHeight > 0 =>
                            data'[k].Timestamp
                                <= data'[k].BlockHeight + OracleDataMaxAgeUpperBound
    BY <1>1 DEF DataMatchesKeys
  <2>1. CASE k = k0
    BY <1>1, <1>2, <1>5, <1>6, <2>1
  <2>2. CASE k # k0
    BY <1>1, <2>2 DEF IInv, DataMatchesKeys
  <2> QED
    BY <2>1, <2>2
<1>8. DOMAIN latest' = {k[1] : k \in DOMAIN data'}
  BY <1>1, <1>2 DEF IInv, LatestMatches
<1>9. ASSUME NEW x \in DOMAIN latest'
      PROVE  /\ <<x, latest'[x].Timestamp>> \in DOMAIN data'
             /\ data'[<<x, latest'[x].Timestamp>>] = latest'[x]
             /\ \/ \A k \in DOMAIN data' : k[1] = x => data'[k].BlockHeight <= latest'[x].BlockHeight
                \/ \A k \in DOMAIN data' : k[1] = x => data'[k].Timestamp <= latest'[x].Timestamp
  <2>1. CASE x = c
    <3>1. <<x, latest'[x].Timestamp>> = k0
      BY <1>1, <1>2, <2>1 DEF k0
    <3>2. \A k \in DOMAIN data' : data'[k].BlockHeight <= latest'[x].BlockHeight
      BY <1>1, <1>2, <1>7, <2>1 DEF DataMatchesKeys
    <3> QED
      BY <1>1, <2>1, <3>1, <3>2
  <2>2. CASE x # c
    <3>1. x \in DOMAIN latest /\ latest'[x] = latest[x]
      BY <1>1, <2>2
    <3>2. \A t : <<x, t>> # k0
      BY <2>2 DEF k0
    <3>3. \A k \in DOMAIN data' : k[1] = x => k \in DOMAIN data /\ data'[k] = data[k]
      BY <1>1, <1>2, <2>2
    <3>4. /\ <<x, latest[x].Timestamp>> \in DOMAIN data
          /\ data[<<x, latest[x].Timestamp>>] = latest[x]
          /\ \/ \A k \in DOMAIN data : k[1] = x => data[k].BlockHeight <= latest[x].BlockHeight
             \/ \A k \in DOMAIN data : k[1] = x => data[k].Timestamp <= latest[x].Timestamp
      BY <3>1 DEF IInv, LatestMatches
    <3> QED
      BY <1>1, <3>1, <3>2, <3>3, <3>4
  <2> QED
    BY <2>1, <2>2
<1>10. LatestMatches'
  BY <1>8, <1>9 DEF LatestMatches
<1> QED
  BY <1>3, <1>4, <1>7, <1>10 DEF IInv

\* Governance touches the registry or the parameters, never the data.
LEMMA AddOracleIInv ==
  ASSUME IInv, NEW o \in Addresses, NEW cats \in SUBSET Categories, AddOracle(o, cats)
  PROVE  IInv' /\ DOMAIN oracles' = DOMAIN oracles \cup {o}
<1> DEFINE info == [Active |-> TRUE, AuthorizedCategories |-> cats]
<1>1. info \in OracleInfo
  BY DEF OracleInfo
<1>2. oracles' = MapSet(oracles, o, info) /\ UNCHANGED <<params, data, latest, now>>
  BY DEF AddOracle
<1> HIDE DEF info
<1>3. IsMap(oracles', Addresses, OracleInfo) /\ DOMAIN oracles' = DOMAIN oracles \cup {o}
  BY <1>1, <1>2, MapSetFacts DEF IInv, TypeOK
<1>4. Finite'
  BY <1>2, <1>3, FS_AddElement DEF IInv, Finite
<1> QED
  BY <1>2, <1>3, <1>4 DEF IInv, TypeOK, DataMatchesKeys, LatestMatches

\* RemoveOracle takes away one oracle and leaves the datapoints.
LEMMA RemoveOracleIInv ==
  ASSUME IInv, NEW o \in Addresses, RemoveOracle(o)
  PROVE  IInv' /\ DOMAIN oracles' = DOMAIN oracles \ {o} /\ o \in DOMAIN oracles
<1>1. /\ oracles' = [x \in DOMAIN oracles \ {o} |-> oracles[x]] /\ o \in DOMAIN oracles
      /\ UNCHANGED <<params, data, latest, now>>
  BY DEF RemoveOracle
<1>2. IsMap(oracles', Addresses, OracleInfo) /\ DOMAIN oracles' = DOMAIN oracles \ {o}
  BY <1>1 DEF IInv, TypeOK, IsMap
<1>3. Finite'
  BY <1>1, <1>2, FS_RemoveElement DEF IInv, Finite
<1> QED
  BY <1>1, <1>2, <1>3 DEF IInv, TypeOK, DataMatchesKeys, LatestMatches

\* MsgUpdateParams stores valid parameters only.
LEMMA UpdateParamsIInv ==
  ASSUME IInv, NEW p \in ParamChoices, UpdateParams(p)
  PROVE  IInv'
<1>1. params' = p /\ ParamsValid(p) /\ p \in Params
      /\ UNCHANGED <<oracles, data, latest, now>>
  BY ConstantsAssumption DEF UpdateParams
<1> QED
  BY <1>1 DEF IInv, TypeOK, DataMatchesKeys, LatestMatches, Finite, ParamsValid

\* Block time only grows, so that no record comes to lie ahead of it.
LEMMA NextBlockIInv == IInv /\ NextBlock => IInv'
<1> SUFFICES ASSUME IInv, NextBlock PROVE IInv'
  OBVIOUS
<1>1. /\ now' \in 1..MaxTime /\ now' >= now /\ now \in Nat /\ now' \in Nat
      /\ UNCHANGED <<params, oracles, data, latest>>
  BY ConstantsAssumption DEF NextBlock, IInv, TypeOK
<1>2. \A k \in DOMAIN data : data[k].BlockHeight \in Nat
  BY DEF IInv, TypeOK, IsMap, OracleData
<1>3. DataMatchesKeys'
  BY <1>1, <1>2 DEF IInv, DataMatchesKeys
<1> QED
  BY <1>1, <1>3 DEF IInv, TypeOK, LatestMatches, Finite

\* The replay of an export leaves in the cache, for each category, the record
\* with the highest timestamp.
LEMMA ReplayedFacts ==
  ASSUME IInv, NEW k0 \in DOMAIN data
  PROVE  LET c == k0[1]
             d == ReplayedLatest(c)
         IN  /\ d \in OracleData
             /\ <<c, d.Timestamp>> \in DOMAIN data
             /\ data[<<c, d.Timestamp>>] = d
             /\ \A k \in DOMAIN data : k[1] = c => data[k].Timestamp <= d.Timestamp
<1> DEFINE c == k0[1]
           own == {j \in DOMAIN data : j[1] = c}
           D == {data[k] : k \in own}
           S == {k[2] : k \in own}
           timeOf == [k \in own |-> k[2]]
           good(d) == \A k \in DOMAIN data : k[1] = c => k[2] <= d.Timestamp
<1>1. \A k \in DOMAIN data :
         /\ k = <<k[1], k[2]>> /\ k[1] \in Categories /\ k[2] \in Timestamps /\ k[2] \in Nat
         /\ data[k] \in OracleData /\ data[k].Timestamp = k[2]
  <2>1. DOMAIN data \subseteq Categories \X Timestamps /\ data \in [DOMAIN data -> OracleData]
    BY DEF IInv, TypeOK, IsMap
  <2> QED
    BY <2>1, ConstantsAssumption DEF IInv, DataMatchesKeys
<1>2. IsFiniteSet(own)
  <2>1. own \in SUBSET DOMAIN data
    OBVIOUS
  <2> HIDE DEF own
  <2> QED
    BY <2>1, FS_Subset DEF IInv, Finite
<1>3. S \subseteq Nat /\ S # {}
  BY <1>1
<1>4. IsFiniteSet(S)
  <2>1. timeOf \in Surjection(own, S)
    BY DEF Surjection
  <2> HIDE DEF timeOf, S, own
  <2> QED
    BY <1>2, <2>1, FS_Surjection
<1>5. PICK n \in S : \A m \in S : m <= n
  <2> HIDE DEF S
  <2> QED
    BY <1>3, <1>4, FiniteHasMax
<1>6. PICK k1 \in own : k1[2] = n
  OBVIOUS
<1>7. data[k1] \in D /\ good(data[k1])
  BY <1>1, <1>5, <1>6
<1>8. ReplayedLatest(c) \in D /\ good(ReplayedLatest(c))
  <2>1. ReplayedLatest(c) = CHOOSE d \in D : good(d)
    BY DEF ReplayedLatest
  <2>2. \E d \in D : good(d)
    BY <1>7
  <2> HIDE DEF D, good
  <2> QED
    BY <2>1, <2>2
<1>9. PICK k \in own : ReplayedLatest(c) = data[k]
  BY <1>8
<1>10. k = <<c, data[k].Timestamp>> /\ data[k] \in OracleData /\ k \in DOMAIN data
  BY <1>1
<1>11. \A j \in DOMAIN data : j[1] = c => data[j].Timestamp <= data[k].Timestamp
  BY <1>1, <1>8, <1>9
<1> QED
  BY <1>9, <1>10, <1>11

\* The replay of an export rebuilds both collections from the series.
LEMMA RestartIInv ==
  ASSUME IInv, NEW kept \in ExportedOracles, RestartFromExport(kept)
  PROVE  IInv' /\ DOMAIN oracles' = kept
<1>1. /\ kept \in SUBSET DOMAIN oracles
      /\ oracles' = [o \in kept |-> oracles[o]]
      /\ latest' = [c \in {k[1] : k \in DOMAIN data} |-> ReplayedLatest(c)]
      /\ UNCHANGED <<params, data, now>>
  BY DEF RestartFromExport, ExportedOracles
<1>2. IsMap(oracles', Addresses, OracleInfo) /\ DOMAIN oracles' = kept
  BY <1>1 DEF IInv, TypeOK, IsMap
<1>3. Finite'
  BY <1>1, <1>2, FS_Subset DEF IInv, Finite
<1>4. DOMAIN latest' = {k[1] : k \in DOMAIN data}
  BY <1>1
<1>5. \A c \in DOMAIN latest' : \E k \in DOMAIN data : k[1] = c /\ latest'[c] = ReplayedLatest(k[1])
  BY <1>1
<1>6. \A c \in DOMAIN latest' :
         /\ latest'[c] \in OracleData
         /\ <<c, latest'[c].Timestamp>> \in DOMAIN data
         /\ data[<<c, latest'[c].Timestamp>>] = latest'[c]
         /\ \A k \in DOMAIN data : k[1] = c => data[k].Timestamp <= latest'[c].Timestamp
  BY <1>5, ReplayedFacts
<1>7. LatestMatches'
  BY <1>1, <1>4, <1>6 DEF LatestMatches
<1>8. IsMap(latest', Categories, OracleData)
  <2>1. \A k \in DOMAIN data : k[1] \in Categories
    BY DEF IInv, TypeOK, IsMap
  <2>2. latest' \in [DOMAIN latest' -> OracleData]
    BY <1>1, <1>6
  <2> QED
    BY <1>4, <2>1, <2>2 DEF IsMap
<1> QED
  BY <1>1, <1>2, <1>3, <1>7, <1>8 DEF IInv, TypeOK, DataMatchesKeys

\* The invariant is one of the state.
LEMMA StutterIInv == IInv /\ UNCHANGED vars => IInv'
  BY DEF vars, IInv, TypeOK, ParamsValid, DataMatchesKeys, LatestMatches, Finite

\* Every step keeps the invariant.
LEMMA NextIInv == IInv /\ [Next]_vars => IInv'
  BY SubmitDataIInv, AddOracleIInv, RemoveOracleIInv, UpdateParamsIInv, NextBlockIInv,
     RestartIInv, StutterIInv
  DEF Next

-----------------------------------------------------------------------------
(* The theorems.                                                           *)

\* The invariant holds in every reachable state.
LEMMA InvariantHolds == Spec => []IInv
  BY InitIInv, NextIInv, PTL DEF Spec

\* Whatever was overwritten, replayed or restarted, the cache holds for every
\* category with data the record that the series holds, and the newest one by
\* writing or, after a restart, by timestamp.
THEOREM LatestAlwaysConsistent == Spec => []LatestConsistent
<1>1. IInv => LatestConsistent
  <2> SUFFICES ASSUME IInv PROVE LatestConsistent
    OBVIOUS
  <2>1. \A c : \A d \in InCategory(c) : \E k \in DOMAIN data : k[1] = c /\ d = data[k]
    BY DEF InCategory
  <2>2. \A c \in DOMAIN latest :
           /\ <<c, latest[c].Timestamp>> \in DOMAIN data
           /\ data[<<c, latest[c].Timestamp>>] = latest[c]
           /\ \/ \A d \in InCategory(c) : d.BlockHeight <= latest[c].BlockHeight
              \/ \A d \in InCategory(c) : d.Timestamp <= latest[c].Timestamp
    BY <2>1 DEF IInv, LatestMatches
  <2>3. LatestDataConsistencyInvariant
    BY <2>2 DEF LatestDataConsistencyInvariant
  <2> QED
    BY <2>2, <2>3 DEF LatestConsistent, IInv, LatestMatches
<1> QED
  BY <1>1, InvariantHolds, PTL

\* However far ahead an oracle dated a datapoint and whichever parameters were in
\* force then, it is called fresh only while it was written recently.
THEOREM FreshAlwaysRecent == Spec => []FreshIsRecent
<1>1. IInv => FreshIsRecent
  <2> SUFFICES ASSUME IInv, NEW c \in DOMAIN latest, ~Stale(c), latest[c].BlockHeight > 0
               PROVE  now - latest[c].BlockHeight
                          <= params.DataMaxAge + OracleDataMaxAgeUpperBound
    BY DEF FreshIsRecent
  <2>1. /\ latest[c] \in OracleData /\ now \in Nat
        /\ params.DataMaxAge \in Nat /\ params.DataMaxAge > 0
        /\ OracleDataMaxAgeUpperBound \in Nat
    BY ConstantsAssumption DEF IInv, TypeOK, IsMap, ParamsValid
  <2>2. latest[c].BlockHeight \in Nat /\ latest[c].Timestamp \in Nat
    BY <2>1, ConstantsAssumption DEF OracleData
  <2>3. now - latest[c].Timestamp <= params.DataMaxAge
    BY <2>1, <2>2 DEF Stale
  <2>4. latest[c].Timestamp <= latest[c].BlockHeight + OracleDataMaxAgeUpperBound
    BY DEF IInv, LatestMatches, DataMatchesKeys
  <2> QED
    BY <2>1, <2>2, <2>3, <2>4
<1> QED
  BY <1>1, InvariantHolds, PTL

\* No message, proposal or restart loses or changes a datapoint unless it is the
\* submission of an oracle registered for the category.
THEOREM HistoryChangedByOraclesOnly == Spec => HistoryOnlyByOracles
<1> DEFINE A == /\ DOMAIN data \subseteq DOMAIN data'
                /\ \A k \in DOMAIN data' :
                      \/ k \in DOMAIN data /\ data'[k] = data[k]
                      \/ IsAuthorizedOracle(data'[k].Submitter, k[1])
<1>1. IInv /\ [Next]_vars => [A]_vars
  <2> SUFFICES ASSUME IInv, Next PROVE A
    OBVIOUS
  <2>1. ASSUME NEW o \in Addresses, NEW c \in Categories, NEW ts \in Timestamps,
               NEW m \in MetadataSizes, SubmitData(o, c, ts, m)
        PROVE  A
    <3> DEFINE d == [Category |-> c, Timestamp |-> ts, Submitter |-> o,
                     Metadata |-> m, BlockHeight |-> now]
    <3>0. /\ UNCHANGED <<params, oracles, now>>
          /\ DOMAIN data' = DOMAIN data \cup {<<c, ts>>}
          /\ data'[<<c, ts>>] = d
          /\ \A x \in DOMAIN data : x # <<c, ts>> => data'[x] = data[x]
      BY <2>1, SubmitFacts
    <3>d. d.Submitter = o /\ d.Metadata = m
      OBVIOUS
    <3> HIDE DEF d
    <3>1. IsAuthorizedOracle(o, c)
      BY <2>1 DEF SubmitData
    <3>2. /\ DOMAIN data' = DOMAIN data \cup {<<c, ts>>}
          /\ data'[<<c, ts>>].Submitter = o
          /\ \A x \in DOMAIN data : x # <<c, ts>> => data'[x] = data[x]
      BY <3>0, <3>d
    <3>3. ASSUME NEW k \in DOMAIN data', k # <<c, ts>>
          PROVE  k \in DOMAIN data /\ data'[k] = data[k]
      BY <3>2, <3>3
    <3>4. IsAuthorizedOracle(data'[<<c, ts>>].Submitter, <<c, ts>>[1])
      BY <3>1, <3>2
    <3>5. DOMAIN data \subseteq DOMAIN data'
      BY <3>2
    <3> HIDE DEF IsAuthorizedOracle
    <3> QED
      BY <3>3, <3>4, <3>5
  <2>2. CASE data' = data
    BY <2>2
  <2> QED
    BY <2>1, <2>2
    DEF Next, AddOracle, RemoveOracle, UpdateParams, NextBlock, RestartFromExport
<1> QED
  BY <1>1, InvariantHolds, PTL DEF Spec, HistoryOnlyByOracles

\* If there are no more oracles than an export lists, it lists all of them.
LEMMA ExportListsAll ==
  ASSUME NEW D, IsFiniteSet(D), NEW S \in SUBSET D,
         ~ (Cardinality(D) > MaxOracles),
         Cardinality(S) = IF Cardinality(D) > MaxOracles THEN MaxOracles ELSE Cardinality(D)
  PROVE  S = D
  BY FS_Subset

\* No stored record stands in the way of an export that lists all the oracles.
RecordsCovered ==
    \A k \in DOMAIN data :
        /\ data[k].Submitter # NoSubmitter => data[k].Submitter \in DOMAIN oracles
        /\ data[k].Metadata <= params.MaxMetadataSize

FullExportValid == GenesisValid(params, DOMAIN oracles, data)

\* What makes an export valid, when it lists all the oracles.
LEMMA ValidExport == IInv /\ RecordsCovered => FullExportValid
<1> SUFFICES ASSUME IInv, RecordsCovered PROVE GenesisValid(params, DOMAIN oracles, data)
  BY DEF FullExportValid
<1>1. \A k \in DOMAIN data :
         /\ k = <<data[k].Category, data[k].Timestamp>>
         /\ data[k].Timestamp \in Nat \ {0}
  <2>1. DOMAIN data \subseteq Categories \X Timestamps
    BY DEF IInv, TypeOK, IsMap
  <2>2. \A k \in DOMAIN data : k = <<k[1], k[2]>> /\ k[2] \in Timestamps
    BY <2>1
  <2> QED
    BY <2>2, ConstantsAssumption DEF IInv, DataMatchesKeys
<1>2. \A k \in DOMAIN data : data[k].Timestamp > 0
  BY <1>1
<1>3. \A k \in DOMAIN data : \A j \in DOMAIN data \ {k} :
         <<data[j].Category, data[j].Timestamp>> # <<data[k].Category, data[k].Timestamp>>
  BY <1>1
<1> QED
  BY <1>2, <1>3 DEF IInv, GenesisValid, Key, RecordsCovered

\* ValidExport of the next state.
LEMMA ValidExportNext == IInv' /\ RecordsCovered' => FullExportValid'
  BY ValidExport, PTL

\* An export that validates goes on to, but for the removal of an oracle whose
\* datapoints stay, a cap lowered below what is stored, or more oracles than an
\* export lists.
THEOREM ExportsStayValid == Spec => ExportStaysValid
<1> DEFINE Removed == \E k \in DOMAIN data :
                         data[k].Submitter \in DOMAIN oracles \ DOMAIN oracles'
           Capped == \E k \in DOMAIN data : data[k].Metadata > params'.MaxMetadataSize
           TooMany == Cardinality(DOMAIN oracles') > MaxOracles
           A == ExportValid => ExportValid' \/ Removed \/ Capped \/ TooMany
<1>1. ASSUME IInv, IInv', Next, ExportValid, ~Removed, ~Capped, ~TooMany
      PROVE  ExportValid'
  <2> HIDE DEF TooMany
  <2>1. IsFiniteSet(DOMAIN oracles) /\ IsFiniteSet(DOMAIN oracles')
    BY <1>1 DEF IInv, Finite
  <2>2. \A k \in DOMAIN data : data[k].Metadata \in Nat /\ data[k] \in OracleData
    BY <1>1, ConstantsAssumption DEF IInv, TypeOK, IsMap, OracleData
  <2>3. params.MaxMetadataSize \in Nat /\ params'.MaxMetadataSize \in Nat
    BY <1>1 DEF IInv, TypeOK, Params
  <2>4. SUFFICES \A k \in DOMAIN data' :
                    /\ data'[k].Submitter # NoSubmitter => data'[k].Submitter \in DOMAIN oracles'
                    /\ data'[k].Metadata <= params'.MaxMetadataSize
    <3>1. GenesisValid(params, DOMAIN oracles, data)'
      BY <1>1, <2>4, ValidExportNext DEF RecordsCovered, FullExportValid
    <3>2. \A kept \in ExportedOracles' : kept = DOMAIN oracles'
      BY <1>1, <2>1, ExportListsAll DEF ExportedOracles, TooMany
    <3> QED
      BY <3>1, <3>2 DEF ExportValid
  \* Some export of the state before lists oracles of that state only.
  <2>5. \E kept \in ExportedOracles : TRUE
    <3>1. CASE Cardinality(DOMAIN oracles) > MaxOracles
      <4>1. ASSUME NEW o \in Addresses, RemoveOracle(o)
            PROVE  DOMAIN oracles \ {o} \in ExportedOracles
        <5>1. DOMAIN oracles' = DOMAIN oracles \ {o} /\ o \in DOMAIN oracles
          BY <1>1, <4>1, RemoveOracleIInv
        <5>2. Cardinality(DOMAIN oracles') = Cardinality(DOMAIN oracles) - 1
          BY <2>1, <5>1, FS_RemoveElement
        <5>3. Cardinality(DOMAIN oracles) \in Nat
          BY <2>1, FS_CardinalityType
        <5>4. Cardinality(DOMAIN oracles') = MaxOracles
          BY <1>1, <3>1, <5>2, <5>3, ConstantsAssumption DEF TooMany
        <5> QED
          BY <3>1, <5>1, <5>4 DEF ExportedOracles
      <4>2. ASSUME NEW kept \in ExportedOracles, RestartFromExport(kept)
            PROVE  kept \in ExportedOracles
        BY <4>2
      <4>3. ASSUME NEW o \in Addresses, NEW cats \in SUBSET Categories, AddOracle(o, cats)
            PROVE  FALSE
        <5>1. DOMAIN oracles \in SUBSET DOMAIN oracles'
          BY <1>1, <4>3, AddOracleIInv
        <5>2. Cardinality(DOMAIN oracles) <= Cardinality(DOMAIN oracles')
          BY <2>1, <5>1, FS_Subset
        <5>3. Cardinality(DOMAIN oracles) \in Nat /\ Cardinality(DOMAIN oracles') \in Nat
          BY <2>1, FS_CardinalityType
        <5> QED
          BY <1>1, <3>1, <5>2, <5>3, ConstantsAssumption DEF TooMany
      <4>4. CASE oracles' = oracles
        BY <1>1, <3>1, <4>4 DEF TooMany
      <4> QED
        BY <1>1, <4>1, <4>2, <4>3, <4>4 DEF Next, SubmitData, UpdateParams, NextBlock
    <3>2. CASE ~ (Cardinality(DOMAIN oracles) > MaxOracles)
      <4>1. DOMAIN oracles \in ExportedOracles
        BY <3>2 DEF ExportedOracles
      <4> QED
        BY <4>1
    <3> QED
      BY <3>1, <3>2
  <2>6. \A k \in DOMAIN data :
           /\ data[k].Submitter # NoSubmitter => data[k].Submitter \in DOMAIN oracles
           /\ data[k].Metadata <= params.MaxMetadataSize
    BY <1>1, <2>5 DEF ExportValid, GenesisValid, ExportedOracles
  <2>7. \A k \in DOMAIN data :
           /\ data[k].Submitter # NoSubmitter => data[k].Submitter \in DOMAIN oracles'
           /\ data[k].Metadata <= params'.MaxMetadataSize
    BY <1>1, <2>2, <2>3, <2>6
  <2>8. ASSUME NEW o \in Addresses, NEW c \in Categories, NEW ts \in Timestamps,
               NEW m \in MetadataSizes, SubmitData(o, c, ts, m)
        PROVE  \A k \in DOMAIN data' :
                  /\ data'[k].Submitter # NoSubmitter => data'[k].Submitter \in DOMAIN oracles'
                  /\ data'[k].Metadata <= params'.MaxMetadataSize
    <3> DEFINE d == [Category |-> c, Timestamp |-> ts, Submitter |-> o,
                     Metadata |-> m, BlockHeight |-> now]
    <3>0. /\ UNCHANGED <<params, oracles, now>>
          /\ DOMAIN data' = DOMAIN data \cup {<<c, ts>>}
          /\ data'[<<c, ts>>] = d
          /\ \A x \in DOMAIN data : x # <<c, ts>> => data'[x] = data[x]
      BY <1>1, <2>8, SubmitFacts
    <3>d. d.Submitter = o /\ d.Metadata = m
      OBVIOUS
    <3> HIDE DEF d
    <3>1. /\ DOMAIN data' = DOMAIN data \cup {<<c, ts>>}
          /\ data'[<<c, ts>>].Submitter = o /\ data'[<<c, ts>>].Metadata = m
          /\ \A x \in DOMAIN data : x # <<c, ts>> => data'[x] = data[x]
          /\ params' = params /\ oracles' = oracles
      BY <3>0, <3>d
    <3>2. o \in DOMAIN oracles /\ (params.MaxMetadataSize > 0 => m <= params.MaxMetadataSize)
      BY <2>8 DEF SubmitData, IsAuthorizedOracle, MetadataFits
    <3>3. params.MaxMetadataSize > 0
      BY <1>1, ConstantsAssumption DEF IInv, ParamsValid
    <3>4. ASSUME NEW k \in DOMAIN data', k # <<c, ts>>
          PROVE  k \in DOMAIN data /\ data'[k] = data[k]
      BY <3>1, <3>4
    <3>5. /\ data'[<<c, ts>>].Submitter \in DOMAIN oracles'
          /\ data'[<<c, ts>>].Metadata <= params'.MaxMetadataSize
      BY <3>1, <3>2, <3>3
    <3> QED
      BY <2>7, <3>4, <3>5
  <2>9. CASE data' = data
    BY <2>7, <2>9
  <2> QED
    BY <1>1, <2>8, <2>9
    DEF Next, AddOracle, RemoveOracle, UpdateParams, NextBlock, RestartFromExport
<1>2. IInv /\ IInv' /\ [Next]_vars => [A]_vars
  BY <1>1
<1> QED
  BY <1>2, InvariantHolds, PTL DEF Spec, ExportStaysValid

-----------------------------------------------------------------------------
(* The history queries.                                                    *)

\* A capped walk over the finitely many keys of a category returns as many as
\* it may, the earliest ones: ranking the keys by the number of earlier ones is
\* a bijection with 0..n-1, and the walk returns those of low rank.
LEMMA FirstFacts ==
  ASSUME NEW K, IsFiniteSet(K),
         \A k \in K : k[2] \in Nat,
         \A j, k \in K : j[2] = k[2] => j = k,
         NEW W, W = {k \in K : Cardinality({j \in K : j[2] < k[2]}) < MaxHistoryResults}
  PROVE  /\ W \subseteq K
         /\ W # K => Cardinality(W) = MaxHistoryResults
         /\ \A j \in W, k \in K \ W : j[2] < k[2]
<1> DEFINE earlier(k) == {j \in K : j[2] < k[2]}
           rank == [k \in K |-> Cardinality(earlier(k))]
           n == Cardinality(K)
<1>1. n \in Nat
  BY FS_CardinalityType
<1>2. ASSUME NEW k \in K
      PROVE  IsFiniteSet(earlier(k)) /\ rank[k] \in Nat /\ rank[k] \in 0..(n - 1)
  <2>1. earlier(k) \in SUBSET (K \ {k})
    OBVIOUS
  <2>2. IsFiniteSet(K \ {k}) /\ Cardinality(K \ {k}) = n - 1
    BY FS_RemoveElement
  <2>3. IsFiniteSet(earlier(k)) /\ Cardinality(earlier(k)) <= n - 1
    <3> HIDE DEF earlier
    <3>1. /\ IsFiniteSet(earlier(k))
          /\ Cardinality(earlier(k)) <= Cardinality(K \ {k})
      BY <2>1, <2>2, FS_Subset
    <3> QED
      BY <2>2, <3>1
  <2>4. Cardinality(earlier(k)) \in Nat
    BY <2>3, FS_CardinalityType
  <2> QED
    BY <1>1, <2>3, <2>4
<1>3. ASSUME NEW j \in K, NEW k \in K, j[2] < k[2]
      PROVE  rank[j] < rank[k]
  <2>1. earlier(j) \in SUBSET earlier(k) /\ j \in earlier(k) /\ j \notin earlier(j)
    BY <1>3
  <2>2. IsFiniteSet(earlier(k))
    BY <1>2
  <2> HIDE DEF earlier
  <2>3. /\ Cardinality(earlier(j)) <= Cardinality(earlier(k))
        /\ Cardinality(earlier(k)) # Cardinality(earlier(j))
    BY <2>1, <2>2, FS_Subset
  <2>4. rank[j] = Cardinality(earlier(j)) /\ rank[k] = Cardinality(earlier(k))
    OBVIOUS
  <2>5. rank[j] \in Nat /\ rank[k] \in Nat
    BY <1>2
  <2> QED
    BY <2>3, <2>4, <2>5
<1>4. \A k \in K : k \in W <=> rank[k] < MaxHistoryResults
  OBVIOUS
<1>5. W \subseteq K
  OBVIOUS
<1> HIDE DEF earlier, rank, n
<1>6. ASSUME NEW j \in K, NEW k \in K, j # k PROVE rank[j] # rank[k]
  <2>1. rank[j] \in Nat /\ rank[k] \in Nat /\ j[2] \in Nat /\ k[2] \in Nat
    BY <1>2
  <2>2. j[2] < k[2] \/ k[2] < j[2]
    BY <1>6, <2>1
  <2> QED
    BY <1>3, <2>1, <2>2
<1>7. ASSUME NEW j \in W, NEW k \in K \ W PROVE j[2] < k[2]
  <2>1. j \in K /\ k \in K /\ j[2] \in Nat /\ k[2] \in Nat
    BY <1>5
  <2>2. rank[j] \in Nat /\ rank[k] \in Nat /\ rank[j] < rank[k]
    BY <1>2, <1>4, <2>1, ConstantsAssumption
  <2>3. ~ (k[2] < j[2])
    BY <1>3, <2>1, <2>2
  <2>4. k[2] # j[2]
    BY <2>1
  <2> QED
    BY <2>1, <2>3, <2>4
<1>8. ASSUME W # K PROVE Cardinality(W) = MaxHistoryResults
  <2> DEFINE M == MaxHistoryResults
             rankW == [k \in W |-> rank[k]]
  <2>1. rank \in Surjection(K, 0..(n - 1))
    <3>1. rank \in [K -> 0..(n - 1)]
      <4>1. \A k \in K : rank[k] \in 0..(n - 1)
        BY <1>2
      <4> QED
        BY <4>1 DEF rank
    <3>2. rank \in Injection(K, 0..(n - 1))
      BY <1>6, <3>1 DEF Injection, IsInjective
    <3>3. IsFiniteSet(0..(n - 1)) /\ Cardinality(0..(n - 1)) = n
      BY <1>1, FS_Interval
    <3> QED
      BY <3>2, <3>3, FS_Injection DEF n
  <2>2. PICK k \in K : rank[k] \in Nat /\ rank[k] >= M /\ rank[k] \in 0..(n - 1)
    BY <1>2, <1>4, <1>5, <1>8, ConstantsAssumption
  <2>3. M \in Nat /\ M <= n
    BY <1>1, <2>2, ConstantsAssumption
  <2>4. \A j \in W : rank[j] \in 0..(M - 1)
    BY <1>2, <1>4, <1>5, <2>3
  <2>5. \A r \in 0..(M - 1) : \E j \in W : rank[j] = r
    <3> SUFFICES ASSUME NEW r \in 0..(M - 1) PROVE \E j \in W : rank[j] = r
      OBVIOUS
    <3>1. r \in 0..(n - 1) /\ r < M
      BY <1>1, <2>3
    <3>2. PICK j \in K : rank[j] = r
      BY <2>1, <3>1 DEF Surjection
    <3> QED
      BY <1>4, <3>1, <3>2
  <2>6. \A i, j \in W : rank[i] = rank[j] => i = j
    BY <1>5, <1>6
  <2>7. rankW \in Bijection(W, 0..(M - 1))
    BY <2>4, <2>5, <2>6 DEF Bijection, Injection, Surjection, IsInjective
  <2>8. ExistsBijection(W, 0..(M - 1))
    BY <2>7 DEF ExistsBijection
  <2>9. IsFiniteSet(W)
    BY <1>5, FS_Subset
  <2>10. Cardinality(0..(M - 1)) = Cardinality(W)
    BY <2>8, <2>9, FS_Bijection
  <2> QED
    BY <2>3, <2>10, FS_Interval
<1> QED
  BY <1>5, <1>7, <1>8

\* The keeper's history, the RPC history and the latest value agree in every
\* reachable state, whatever the cap on a history.
THEOREM HistoryQueriesAlwaysAgree == Spec => []HistoryQueriesAgree
<1>1. ASSUME IInv PROVE HistoryQueriesAgree
  <2>1. \A k \in DOMAIN data :
           /\ k = <<k[1], k[2]>> /\ k[2] \in Nat \ {0}
           /\ data[k].Timestamp = k[2]
    <3>1. DOMAIN data \subseteq Categories \X Timestamps
      BY <1>1 DEF IInv, TypeOK, IsMap
    <3>2. \A k \in DOMAIN data : k = <<k[1], k[2]>> /\ k[2] \in Timestamps
      BY <3>1
    <3> QED
      BY <1>1, <3>2, ConstantsAssumption DEF IInv, DataMatchesKeys
  <2>2. ASSUME NEW c \in Categories, NEW from \in 0..MaxTime, NEW to \in 1..MaxTime
        PROVE  LET all == DataHistory(c, from, to)
                   first == GetDataHistory(c, from, to)
               IN  /\ first \subseteq all
                   /\ first # all => Cardinality(first) = MaxHistoryResults
                   /\ \A j \in first, k \in all \ first : j[2] < k[2]
    <3> DEFINE all == DataHistory(c, from, to)
               first == GetDataHistory(c, from, to)
    <3>1. from \in Nat /\ to \in Nat /\ to > 0
      BY ConstantsAssumption
    <3>2. all = {k \in DOMAIN data : k[1] = c /\ from <= k[2] /\ k[2] < to + 1}
      BY <2>1, <3>1 DEF DataHistory
    <3>3. CASE to < from
      <4>1. first = {}
        BY <3>3 DEF GetDataHistory
      <4>2. all = {}
        BY <2>1, <3>1, <3>2, <3>3
      <4> QED
        BY <4>1, <4>2
    <3>4. CASE ~ (to < from)
      <4>1. ~ (from < 0)
        BY <3>1
      <4>2. first = {k \in all :
                       Cardinality({j \in all : j[2] < k[2]}) < MaxHistoryResults}
        BY <3>2, <3>4, <4>1 DEF GetDataHistory
      <4>3. all \subseteq DOMAIN data /\ \A k \in all : k[1] = c
        BY <3>2
      <4> HIDE DEF all, first
      <4>4. IsFiniteSet(all)
        BY <1>1, <4>3, FS_Subset DEF IInv, Finite
      <4>5. \A k \in all : k[2] \in Nat
        BY <2>1, <4>3
      <4>6. \A j, k \in all : j[2] = k[2] => j = k
        BY <2>1, <4>3
      <4> QED
        BY <4>2, <4>4, <4>5, <4>6, FirstFacts DEF all, first
    <3> QED
      BY <3>3, <3>4
  <2>3. ASSUME NEW c \in DOMAIN latest
        PROVE  LET ts == latest[c].Timestamp
               IN  {data[k] : k \in DataHistory(c, ts, ts)} = {latest[c]}
    <3> DEFINE ts == latest[c].Timestamp
               k0 == <<c, ts>>
    <3>1. k0 \in DOMAIN data /\ data[k0] = latest[c]
      BY <1>1 DEF IInv, LatestMatches
    <3>2. k0[1] = c /\ k0[2] = ts
      OBVIOUS
    <3>3. ts \in Nat \ {0}
      BY <2>1, <3>1
    <3>4. \A k \in DOMAIN data : k[1] = c /\ k[2] = ts => k = k0
      BY <2>1
    <3> HIDE DEF ts, k0
    <3>5. DataHistory(c, ts, ts) = {k0}
      BY <2>1, <3>1, <3>2, <3>3, <3>4 DEF DataHistory
    <3> QED
      BY <3>1, <3>5 DEF ts
  <2> QED
    BY <2>2, <2>3 DEF HistoryQueriesAgree
<1> QED
  BY <1>1, InvariantHolds, PTL
=============================================================================
