---------------------------- MODULE OracleFeeds ----------------------------
(***************************************************************************)
(* The oracle feed manager (oracle_feeds.rs): three feeds that external    *)
(* sources report to, and a cache of the indices made of them.             *)
(*                                                                         *)
(* Callers pass the time of a report and the time of a question; now is    *)
(* the clock they read for the latter.  Times are subtracted as u64:       *)
(* ClockRange stands for 2^64, so that what is dated ahead of the question *)
(* looks very old, as it does in a build without overflow checks.  That a  *)
(* feed is stale is logged and has no other effect on a question.          *)
(*                                                                         *)
(* answer and current are no state of the program.  They put down the      *)
(* questions asked while all feeds are fresh: of the others the code has   *)
(* two minds, it promises an error and gives an answer.                    *)
(***************************************************************************)
EXTENDS PegIndices

CONSTANTS
  EnergyReports, AdoptionReports, HashrateReports, FeeReports,
  CacheTtl,                 \* seconds an entry of the cache is served
  MaxAge,                   \* at which a feed is fresh: what callers of
                            \* all_feeds_healthy pass, 24 hours for a fetch
  ClockRange, ClockSteps,
  MaxTime                   \* bound of the model

ASSUME ReportAssumption ==
  /\ EnergyReports \subseteq Int /\ AdoptionReports \subseteq Int
  /\ HashrateReports \subseteq Int /\ FeeReports \subseteq Int
ASSUME ClockAssumption ==
  /\ CacheTtl \in Nat /\ MaxAge \in Nat /\ MaxTime \in Nat
  /\ ClockRange \in Nat /\ ClockRange > MaxTime
  /\ ClockSteps \subseteq Int

VARIABLES
  energy, adoption,   \* [value, at]
  network,            \* [hashrate, fee, at]
  cache,              \* {} or the one entry, [indices, at]
  now,
  answer,             \* what the last question to fresh feeds was
                      \* answered: {} or {indices}
  current             \* whether it was asked after the last report

vars == <<energy, adoption, network, cache, now, answer, current>>

Times == 0 .. MaxTime

-----------------------------------------------------------------------------
(* Readings as the indices are made of them, and their ages.               *)

Readings == [hashrate |-> network.hashrate, energy |-> energy.value,
             fees |-> network.fee, adoption |-> adoption.value]

Elapsed(at) == (now - at) % ClockRange

(* What a freshness test that forgets feeds without reports would do.      *)
LooksFresh(feed) == Elapsed(feed.at) <= MaxAge

(* Time 0 stands for a feed that nothing was reported to.                  *)
IsFresh(feed) == feed.at # 0 /\ Elapsed(feed.at) <= MaxAge

AllFeedsHealthy == IsFresh(energy) /\ IsFresh(adoption) /\ IsFresh(network)

Served(entry) == Elapsed(entry.at) < CacheTtl

-----------------------------------------------------------------------------
(* The operations.                                                         *)

NewFeed == [value |-> 100, at |-> 0]
NewKaspaFeed == [hashrate |-> 0, fee |-> 0, at |-> 0]

Init ==
  /\ energy = NewFeed /\ adoption = NewFeed /\ network = NewKaspaFeed
  /\ cache = {} /\ answer = {} /\ current = FALSE /\ now = 0

(* The feeds' own updates: values are validated, but for the fee.          *)
UpdatePrice(v, at) == v > 0 /\ energy' = [value |-> v, at |-> at]
UpdateMetric(v, at) == v > 0 /\ adoption' = [value |-> v, at |-> at]
UpdateNetworkState(hashrate, fee, at) ==
  hashrate > 0 /\ network' = [hashrate |-> hashrate, fee |-> fee, at |-> at]

(* What an update that leaves the cache alone would do.                    *)
UpdateEnergyOnly(v, at) ==
  /\ UpdatePrice(v, at)
  /\ current' = FALSE
  /\ UNCHANGED <<adoption, network, cache, now, answer>>

(* The manager's updates: each clears the cache.                           *)
UpdateEnergyPrice(v, at) ==
  /\ UpdatePrice(v, at)
  /\ cache' = {}
  /\ current' = FALSE
  /\ UNCHANGED <<adoption, network, now, answer>>

UpdateAdoptionMetric(v, at) ==
  /\ UpdateMetric(v, at)
  /\ cache' = {}
  /\ current' = FALSE
  /\ UNCHANGED <<energy, network, now, answer>>

(* What an update that keeps the cache while the hashrate is the same      *)
(* would do.                                                               *)
UpdateNetworkUnlessSame(hashrate, fee, at) ==
  /\ UpdateNetworkState(hashrate, fee, at)
  /\ cache' = IF hashrate = network.hashrate THEN cache ELSE {}
  /\ current' = FALSE
  /\ UNCHANGED <<energy, adoption, now, answer>>

UpdateKaspaNetwork(hashrate, fee, at) ==
  /\ UpdateNetworkState(hashrate, fee, at)
  /\ cache' = {}
  /\ current' = FALSE
  /\ UNCHANGED <<energy, adoption, now, answer>>

(* A question is put down if all feeds are fresh.                          *)
Answered(a) ==
  /\ answer' = IF AllFeedsHealthy THEN a ELSE answer
  /\ current' = (AllFeedsHealthy \/ current)

(* fetch_all_indices answers from the cache ...                            *)
FetchCached ==
  /\ \E entry \in cache : Served(entry) /\ Answered({entry.indices})
  /\ UNCHANGED <<energy, adoption, network, cache, now>>

(* ... or makes the indices and keeps them, ...                            *)
FetchComputed ==
  /\ \A entry \in cache : ~Served(entry)
  /\ Indexable(Readings)
  /\ cache' = {[indices |-> Indices(Readings), at |-> now]}
  /\ Answered({Indices(Readings)})
  /\ UNCHANGED <<energy, adoption, network, now>>

(* ... or fails, because the network has no valid index.                   *)
FetchFails ==
  /\ \A entry \in cache : ~Served(entry)
  /\ ~Indexable(Readings)
  /\ Answered({})
  /\ UNCHANGED <<energy, adoption, network, cache, now>>

FetchAllIndices == FetchCached \/ FetchComputed \/ FetchFails

ClearCache ==
  /\ cache' = {}
  /\ UNCHANGED <<energy, adoption, network, now, answer, current>>

Tick(d) ==
  /\ now + d \in Times
  /\ now' = now + d
  /\ UNCHANGED <<energy, adoption, network, cache, answer, current>>

Next ==
  \/ \E v \in EnergyReports, at \in Times : UpdateEnergyPrice(v, at)
  \/ \E v \in AdoptionReports, at \in Times : UpdateAdoptionMetric(v, at)
  \/ \E h \in HashrateReports, f \in FeeReports, at \in Times :
       UpdateKaspaNetwork(h, f, at)
  \/ FetchAllIndices
  \/ ClearCache
  \/ \E d \in ClockSteps : Tick(d)

Spec == Init /\ [][Next]_vars

-----------------------------------------------------------------------------
(* Properties.                                                             *)

IndexVectors == [Sources -> MinIndex .. MaxIndex]

(* Accepted readings are positive but for fees, the cache has one entry at *)
(* most, and answers are valid indices.                                    *)
TypeOK ==
  /\ energy \in [value : Int, at : Times] /\ energy.value > 0
  /\ adoption \in [value : Int, at : Times] /\ adoption.value > 0
  /\ network \in [hashrate : Int, fee : Int, at : Times]
  /\ cache \in SUBSET [indices : IndexVectors, at : Times]
  /\ \A e, f \in cache : e = f
  /\ answer \in SUBSET IndexVectors
  /\ now \in Times /\ current \in BOOLEAN

(* A report never outlives its effect on the cache: whatever is cached,    *)
(* served or not, is what would be computed now (oracle_feeds.rs, "Inva-   *)
(* lidate cache on any update").                                           *)
CacheIsCurrent ==
  \A entry \in cache :
    Indexable(Readings) /\ entry.indices = Indices(Readings)

(* all_feeds_healthy ("fresh and valid") never takes a feed without        *)
(* reports for a fresh one, whatever the clock says: when a question fails *)
(* although all feeds are healthy, it is for a fee that was reported.      *)
HealthyFeedsAnswer ==
  AllFeedsHealthy /\ ~Indexable(Readings) =>
    network.hashrate > 0 /\ network.fee <= 0

(* The cache cannot be told from the answers of fresh feeds: they are made *)
(* of the last accepted reports, wherever the clock was meanwhile.         *)
(* ("Or returns error if any source is stale", says fetch_all_indices of   *)
(* the other answers; it gives them from old reports all the same.)        *)
Service == INSTANCE IndexService WITH readings <- Readings
ImplementsIndexService == Service!Spec
=============================================================================
