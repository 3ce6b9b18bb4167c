----------------------------- MODULE FeedProofs ----------------------------
(***************************************************************************)
(* Proofs about the oracle feeds, for every weight, report and time to     *)
(* live, and a clock that goes both ways: the cache always holds what      *)
(* would be computed, so that the feeds, as long as they are fresh,        *)
(* implement IndexService, which has no cache.                             *)
(***************************************************************************)
EXTENDS OracleFeeds, TLAPS

(* Every reading is clipped to a valid index.                              *)
LEMMA IndexType ==
  ASSUME NEW r \in Int
  PROVE  Index(r) \in MinIndex .. MaxIndex
BY DEF Index, Clip, MinIndex, MaxIndex

LEMMA IndicesType ==
  ASSUME NEW r \in [Sources -> Int]
  PROVE  Indices(r) \in IndexVectors
BY IndexType DEF Indices, IndexVectors

LEMMA ReadingsType ==
  ASSUME TypeOK
  PROVE  Readings \in [Sources -> Int]
BY DEF TypeOK, Readings, Sources

-----------------------------------------------------------------------------
(* The invariant: besides the types, the cache is current and a time of    *)
(* report is a sign of an accepted report.                                 *)

NetworkWasReported == network.at # 0 => network.hashrate > 0

FeedsInv == TypeOK /\ CacheIsCurrent /\ NetworkWasReported

LEMMA FeedsInit == Init => FeedsInv
<1> SUFFICES ASSUME Init PROVE FeedsInv
  OBVIOUS
<1>1. 0 \in Times
  BY ClockAssumption DEF Times
<1>2. /\ energy \in [value : Int, at : Times] /\ energy.value > 0
      /\ adoption \in [value : Int, at : Times] /\ adoption.value > 0
      /\ network \in [hashrate : Int, fee : Int, at : Times] /\ network.at = 0
  BY <1>1 DEF Init, NewFeed, NewKaspaFeed
<1>3. /\ cache = {} /\ answer = {} /\ now = 0 /\ current = FALSE
  BY DEF Init
<1> QED
  BY <1>1, <1>2, <1>3 DEF FeedsInv, TypeOK, CacheIsCurrent, NetworkWasReported

(* The steps that neither report nor compute.                              *)
LEMMA ReadingsKept ==
  ASSUME UNCHANGED <<energy, adoption, network>>
  PROVE  Readings' = Readings
BY DEF Readings

LEMMA FeedsTypeNext == TypeOK /\ [Next]_vars => TypeOK'
<1> SUFFICES ASSUME TypeOK, [Next]_vars PROVE TypeOK'
  OBVIOUS
<1> USE DEF TypeOK
<1>1. ASSUME NEW v \in EnergyReports, NEW at \in Times, UpdateEnergyPrice(v, at)
      PROVE  TypeOK'
  BY <1>1, ReportAssumption DEF UpdateEnergyPrice, UpdatePrice
<1>2. ASSUME NEW v \in AdoptionReports, NEW at \in Times,
             UpdateAdoptionMetric(v, at)
      PROVE  TypeOK'
  BY <1>2, ReportAssumption DEF UpdateAdoptionMetric, UpdateMetric
<1>3. ASSUME NEW h \in HashrateReports, NEW f \in FeeReports, NEW at \in Times,
             UpdateKaspaNetwork(h, f, at)
      PROVE  TypeOK'
  BY <1>3, ReportAssumption DEF UpdateKaspaNetwork, UpdateNetworkState
<1>4. CASE FetchCached
  BY <1>4 DEF FetchCached, Answered
<1>5. CASE FetchComputed
  <2>1. Indices(Readings) \in IndexVectors
    BY ReadingsType, IndicesType
  <2> QED
    BY <1>5, <2>1 DEF FetchComputed, Answered
<1>6. CASE FetchFails
  BY <1>6 DEF FetchFails, Answered
<1>7. CASE ClearCache
  BY <1>7 DEF ClearCache
<1>8. ASSUME NEW d \in ClockSteps, Tick(d) PROVE TypeOK'
  BY <1>8 DEF Tick
<1>9. CASE UNCHANGED vars
  BY <1>9 DEF vars
<1> QED
  BY <1>1, <1>2, <1>3, <1>4, <1>5, <1>6, <1>7, <1>8, <1>9
     DEF Next, FetchAllIndices

LEMMA CacheNext == CacheIsCurrent /\ [Next]_vars => CacheIsCurrent'
<1> SUFFICES ASSUME CacheIsCurrent, [Next]_vars PROVE CacheIsCurrent'
  OBVIOUS
<1>1. ASSUME cache' = {} PROVE CacheIsCurrent'
  BY <1>1 DEF CacheIsCurrent
<1>2. ASSUME cache' = cache, UNCHANGED <<energy, adoption, network>>
      PROVE  CacheIsCurrent'
  BY <1>2, ReadingsKept DEF CacheIsCurrent
<1>3. CASE FetchComputed
  BY <1>3, ReadingsKept DEF FetchComputed, CacheIsCurrent
<1>4. CASE FetchCached \/ FetchFails \/ (\E d \in ClockSteps : Tick(d))
            \/ UNCHANGED vars
  BY <1>2, <1>4 DEF FetchCached, FetchFails, Tick, vars
<1>5. CASE Next /\ ~FetchAllIndices /\ ~(\E d \in ClockSteps : Tick(d))
  BY <1>1, <1>5 DEF Next, UpdateEnergyPrice, UpdateAdoptionMetric,
                    UpdateKaspaNetwork, ClearCache
<1> QED
  BY <1>3, <1>4, <1>5 DEF FetchAllIndices

LEMMA ReportedNext ==
  NetworkWasReported /\ [Next]_vars => NetworkWasReported'
<1> SUFFICES ASSUME NetworkWasReported, [Next]_vars PROVE NetworkWasReported'
  OBVIOUS
<1>1. ASSUME NEW h \in HashrateReports, NEW f \in FeeReports, NEW at \in Times,
             UpdateKaspaNetwork(h, f, at)
      PROVE  NetworkWasReported'
  BY <1>1 DEF UpdateKaspaNetwork, UpdateNetworkState, NetworkWasReported
<1>2. CASE network' = network
  BY <1>2 DEF NetworkWasReported
<1> QED
  BY <1>1, <1>2 DEF Next, vars, UpdateEnergyPrice, UpdateAdoptionMetric,
       FetchAllIndices, FetchCached, FetchComputed, FetchFails, ClearCache, Tick

LEMMA FeedsInvariant == Spec => []FeedsInv
<1>1. FeedsInv /\ [Next]_vars => FeedsInv'
  BY FeedsTypeNext, CacheNext, ReportedNext DEF FeedsInv
<1> QED
  BY FeedsInit, <1>1, PTL DEF Spec

-----------------------------------------------------------------------------

(* Answers and the cache hold valid indices only, whatever is reported.    *)
THEOREM FeedsTyped == Spec => []TypeOK
<1>1. FeedsInv => TypeOK
  BY DEF FeedsInv
<1> QED
  BY <1>1, FeedsInvariant, PTL

(* Whatever is cached is what would be computed at this moment.            *)
THEOREM CacheNeverStale == Spec => []CacheIsCurrent
<1>1. FeedsInv => CacheIsCurrent
  BY DEF FeedsInv
<1> QED
  BY <1>1, FeedsInvariant, PTL

(* Healthy feeds fail to answer for a reported fee only.                   *)
THEOREM HealthyFeedsFailForFees == Spec => []HealthyFeedsAnswer
<1>1. FeedsInv => HealthyFeedsAnswer
  BY DEF FeedsInv, TypeOK, NetworkWasReported, HealthyFeedsAnswer,
         AllFeedsHealthy, IsFresh, Indexable, Readings
<1> QED
  BY <1>1, FeedsInvariant, PTL

-----------------------------------------------------------------------------
(* The refinement.                                                         *)

LEMMA ServiceStep ==
  ASSUME TypeOK, CacheIsCurrent, [Next]_vars
  PROVE  [Service!Next]_(Service!vars)
<1> USE DEF Service!Next, Service!vars
<1>1. ASSUME NEW v \in EnergyReports, NEW at \in Times, UpdateEnergyPrice(v, at)
      PROVE  Service!ReportEnergy(v)
  BY <1>1 DEF UpdateEnergyPrice, UpdatePrice, Service!ReportEnergy, Readings
<1>2. ASSUME NEW v \in AdoptionReports, NEW at \in Times,
             UpdateAdoptionMetric(v, at)
      PROVE  Service!ReportAdoption(v)
  BY <1>2 DEF UpdateAdoptionMetric, UpdateMetric, Service!ReportAdoption, Readings
<1>3. ASSUME NEW h \in HashrateReports, NEW f \in FeeReports, NEW at \in Times,
             UpdateKaspaNetwork(h, f, at)
      PROVE  Service!ReportNetwork(h, f)
  BY <1>3 DEF UpdateKaspaNetwork, UpdateNetworkState, Service!ReportNetwork,
              Readings
<1>4. CASE FetchAllIndices
  <2>1. Readings' = Readings
    BY <1>4, ReadingsKept
       DEF FetchAllIndices, FetchCached, FetchComputed, FetchFails
  <2>2. Answered(IF Indexable(Readings) THEN {Indices(Readings)} ELSE {})
    BY <1>4 DEF FetchAllIndices, FetchCached, FetchComputed, FetchFails,
                CacheIsCurrent
  <2>3. CASE AllFeedsHealthy
    <3>1. /\ answer' = IF Indexable(Readings) THEN {Indices(Readings)} ELSE {}
          /\ current' = TRUE
      BY <2>2, <2>3 DEF Answered
    <3>2. Service!Ask
      BY <2>1, <3>1 DEF Service!Ask, Service!Indexable, Service!Indices,
           Service!Index, Service!Clip, Service!MinIndex, Service!MaxIndex,
           Service!Sources, Indexable, Indices, Index, Clip, MinIndex,
           MaxIndex, Sources
    <3> QED
      BY <3>2
  <2>4. CASE ~AllFeedsHealthy /\ current \in BOOLEAN
    BY <2>1, <2>2, <2>4 DEF Answered
  <2> QED
    BY <2>3, <2>4 DEF TypeOK
<1>5. CASE ClearCache \/ (\E d \in ClockSteps : Tick(d)) \/ UNCHANGED vars
  BY <1>5, ReadingsKept DEF ClearCache, Tick, vars
<1> QED
  BY <1>1, <1>2, <1>3, <1>4, <1>5 DEF Next

(* The cache never shows: as long as they are fresh, the feeds answer      *)
(* every question from the last accepted reports.                          *)
THEOREM FeedsImplementService == Spec => ImplementsIndexService
<1>1. Init => Service!Init
  BY DEF Init, Service!Init, Service!Sources, Readings, NewFeed, NewKaspaFeed
<1>2. FeedsInv /\ [Next]_vars => [Service!Next]_(Service!vars)
  BY ServiceStep DEF FeedsInv
<1> QED
  BY <1>1, <1>2, FeedsInvariant, PTL
     DEF Spec, ImplementsIndexService, Service!Spec
=============================================================================
