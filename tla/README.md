# A verification of the ENRK stablecoin protocol

TLA+ modules that model the Rust crate `src/contracts/igra` and the covenant
examples `src/examples/enrk` of this repository, TLC configurations that check
them on small instances, and theorems about them that TLAPS proves. File names
without a path are those of `src/contracts/igra/src/`.

## 1. The system

ENRK is a stablecoin with two tranches, issued against KAS: the senior token
ENRK and the junior token kFIAT, which may make up at most a frozen percentage
(30) of the total debt. The crate is a library of managers. Each is a plain
struct with `&mut self` methods: a call runs to its end, returns `Err` without
having changed anything or does all of its work. There are no threads, no
persistence and no facade over the managers (`protocol.rs` of
`docs/design/PHASE_4_ARCHITECTURE_PROPOSAL.md` was never written). What makes
the system hard is in the sequences of calls: prices and time move between two
calls, callers hold clones of what a manager gave out, and two managers keep
books about the same thing without knowing of each other.

| Component | State | Operations | Correct when |
|---|---|---|---|
| Token layer, `kaspa_tokens.rs` | two ledgers: supply and balances per address | mint, burn, transfer of either token; headroom, ratio, `verify_invariants` | supply is the sum of balances; the junior share grows only within the cap; headroom and guard agree; holders can burn |
| Vault manager, `vault.rs` | vaults (KAS, two debts, status), next id | create, mint and burn either token, deposit, withdraw, close, list candidates | owners cannot endanger a vault; the cap holds over all debts with fees; a borrower can get out |
| Liquidation manager, `liquidation.rs` | auctions (copy of vault id, collateral, debt, start), next id | start, price, bid, finalize | one auction per vault; the price falls to the end price; an auction ends by a bid or after its duration; ids are not reused |
| Circuit breaker, `circuit_breaker.rs` | paused or not, reason, time | check peg, check oracle health, require active | latched once tripped; trips above the thresholds and only then, whatever the conversions cut off |
| Peg and oracle prices, `peg.rs` | last price per source | weighted index, deviation, record, get with priority | the peg is off only if an index is; an answer is recent; healthy sources mean an answer |
| Oracle feeds, `oracle_feeds.rs` | three feeds with timestamps, a cache | updates, fetch of all four indices, health | an answer is made of the last reports: the cache does not show |
| Stability pool, `stability_pool.rs` | balance, fees, last buyback | deposit fees and proceeds, buy back | the balance covers what is burned and accounts for all fees and proceeds |
| Kaspa adapter, `kaspa_adapter.rs` | none | index formulas, transaction strings, address check | - |
| Parameters and errors, `lib.rs`, `types.rs`, `errors.rs` | frozen constants | `validate` | - |
| Covenants, variant B, `examples/enrk/b/*.ag` | coins that carry a price as state, vaults | use, sweep; liquidate, withdraw | the coins keep the feed's value; a vault is judged at an authentic price |
| Covenants, variant A, `examples/enrk/a/*.ag` | coins whose value is the price, vaults | the same | the same |
| Back-tests, `tests/` | none of the program's | Monte Carlo studies, mass measurement | - |

How they interact. Prices go from the oracle feeds through the peg calculator
into parameters (`kas_price`, `enrk_price`, `kfiat_price`) of the vault and the
liquidation managers: always by the caller's hand. Vaults go from
`get_liquidation_candidates` (clones) to `start_liquidation(&Vault)`. Fees come
back from `mint_*` and `submit_bid` as numbers that the caller should hand to
the stability pool. Vault debts and token supplies should move together, and
the circuit breaker should be asked before each operation; no code does either.

Hard behaviours, each listed with its line under "hazards" in `PROJECT.json`:
prices moving between two calls of an owner; the owner acting between two calls
of a keeper; stale clones; auctions that expired and lie around; a clock that is
set back under unsigned subtraction; integer division against an inequality
that is coded apart from it; truncating conversions to `u8` and `u16`; a cache
that several updates must clear; coins at an old price beside those at a new one.
Nothing is persisted, so there is no crash recovery, and nothing runs
concurrently inside a manager, so a call is one step.

## 2. The modules

| Module | Models |
|---|---|
| `TrancheSupply` | abstract: what both bookkeepers promise about the senior and the junior supply |
| `KaspaTokens` | `kaspa_tokens.rs` |
| `VaultRatios` | `Vault::calculate_icr` and `is_under_collateralized` of `types.rs`, used by both managers |
| `VaultManager` | `vault.rs` |
| `LiquidationManager` | `liquidation.rs` and `LiquidationAuction` of `types.rs` |
| `Liquidations` | the two managers composed, with a keeper between them |
| `PegIndices` | the arithmetic from readings to indices to the peg and its deviation (`oracle_feeds.rs`, `kaspa_adapter.rs`, `peg.rs`) |
| `IndexService` | abstract: what a caller of the oracle feeds may count on |
| `OracleFeeds` | `oracle_feeds.rs` |
| `OraclePrices` | `OracleManager` of `peg.rs` |
| `CircuitBreaker` | `circuit_breaker.rs` |
| `Safeguards` | `IndexService`, `OraclePrices` and `CircuitBreaker` composed, with a keeper between them |
| `StabilityPool` | `stability_pool.rs` |
| `PriceRounds` | `examples/enrk/b/oracle.ag` and `vault.ag` |
| `MC*` | values of the constants for TLC |
| `SumLemmas` | lemmas about sums of functions over finite domains |
| `KaspaTokensProofs` | theorems about `KaspaTokens` |
| `VaultProofs` | theorems about `VaultManager` |
| `AuctionProofs` | theorems about `LiquidationManager` |
| `LiquidationProofs` | theorems about `Liquidations`, from those about the two managers |
| `FeedProofs` | theorems about `OracleFeeds` |
| `SafeguardProofs` | theorems about `Safeguards` and about `StabilityPool` |
| `PriceRoundProofs` | theorems about `PriceRounds` |

Conventions that hold in all of them:

* A call the code rejects changes nothing, so it is no step; every condition
  the code answers with an error is a conjunct of the guard. A guard that
  several properties speak about has a name of its own (`Withdrawable`,
  `EnrkRepayable`, `Startable`, `Acceptable`).
* Amounts are `BigInt` in the code and integers here. Prices and ratios are
  `f64` in the code. Prices here are multiples of 1/`PriceUnit`, so comparing a
  quotient with a whole percentage becomes comparing two products. The code
  truncates a ratio before comparing it (`icr as u16`), which changes nothing
  against a whole percentage. Over the values of the instances the floating
  point formulas (ratio, fee, descent of the price, least bid, payout) give the
  same results as the integers; elsewhere they may differ by rounding: the cap
  quotient of `mint_kfiat` at exact equality for caps such as 7, 14 and 28, the
  price of an auction by one percent for durations such as 6 or 9 minutes, the
  quote of `max_buyable` by one unit at exact quotients such as 55 / 0.55 (which
  is refused either way), the deviation of a peg of exactly 0.89 (10 percent in
  the code, 11 here; `BreachesAreFound` speaks of deviations above whole
  percents). The theorems are about the integers; where rounding makes the code
  miss a bound, the model has the rounding: the share of `deposit_fees`
  (`CutShort`, below).
* What the code writes and never reads is left out: owners, the text of
  reasons, logs, `last_updated_seconds` of a vault, the times of the breaker's
  last checks, `last_buyback_seconds` of the pool.
* Readings and indices are whole hundredths of their baselines and pegs
  hundredths of a percent, so that the truncations to whole percents fall where
  they do in the code. Over the readings of the instance of `Safeguards` the
  floating point formulas give the same whole percents.
* Variables that are no state of the program and keep an account for a property
  are named as such in the module's header (`sold`, `paidIn`, `steady`, `answer`,
  `current`, `worst`, `receivedAt`, `burned`, `proceeds`, `deposits`, `announced`,
  `latest`, `sweeps`).
* An operator introduced by "What ... would do" is a plausible mistake, used
  only to confirm that a property notices it.

### KaspaTokens

`enrk` and `kfiat` are the ledgers of `TokenLayer`, records of `supply` and
`balances`; `DOMAIN balances` is the set of keys of the `HashMap`, so that the
removal of emptied entries is visible. One action per method: `MintEnrk`,
`MintKfiat`, `BurnEnrk`, `BurnKfiat`, `TransferEnrk`, `TransferKfiat`. The
address check is the constant `ValidAddresses`.

### VaultManager

`vaults` maps ids to `[collateral, enrk, kfiat, status]`. Prices are arguments
of every operation in the code; here they are the variable `market`, which
`MarketMove` changes at any time: two calls see the same prices or different
ones. `KfiatAtPar` is the 1.0 that `mint_enrk` and `burn_enrk` pass for the price
of kFIAT. No operation sets `VaultStatus::Liquidating`.

### LiquidationManager

`auctions` maps ids to what `start_liquidation` copies out of the vault it is
handed. `now` is the system clock; `Elapsed` subtracts times modulo
`ClockRange`, which stands for 2^64, as a release build does. (A build with
overflow checks panics instead.) The fee `submit_bid` returns changes no state.

### Liquidations

Instantiates both managers with shared prices. `FetchCandidates` takes clones
of all candidates into `handed`; `StartLiquidation(v)` starts the auction of a
clone, however old. Three variables are no state of the program, which keeps no
account of either: `sold` adds up what bidders were paid for a vault, `paidIn`
what its owner brought in less what it took out, and `steady` says whether the
prices are still those of the keeper's last question.

### OracleFeeds and IndexService

`energy`, `adoption` and `network` are the three feeds, each with the time of
its last report; `cache` is the one entry of the `HashMap`, or empty. Updates
take a value and a time from the caller and clear the cache; a fetch is
answered from the cache (`FetchCached`), computed (`FetchComputed`), or fails at
the `?` of the network's indices (`FetchFails`). `now` is the time callers pass;
it may go back. That a feed is stale is only logged, although
`oracle_feeds.rs:296` promises an error. `IndexService` therefore says what
questions to fresh feeds are answered, and knows neither cache nor time: they
are answered from the last reports, or fail if the network has no valid index.
`answer` and `current` (was it asked after the last report?) put down those
questions, the ones asked while `AllFeedsHealthy` (`MaxAge` stands for the 24
hours of `fetch_all_indices`, too); any other question may fill the cache and
leaves no other trace. Without `current` an answer from a cache that should have
been cleared would look like no step at all.

### OraclePrices, CircuitBreaker and Safeguards

The first two are components without a `Next`: `prices` maps the sources to
their last price, `Answering` is the source `get_price` takes; `state`, `reason`
and `triggeredAt` are the breaker, with one action per check. `Safeguards`
composes them with `IndexService` in place of `OracleFeeds`, which implements
it as long as the feeds are fresh, under a clock that is never set back
(`ClockSteps` are natural numbers): feeds report, the keeper fetches indices (`answer`), and has the peg that
`PegCalculator` makes of them checked at any later time; sources record prices,
dated by clocks that are off by `Skews`; the keeper has the time of the latest
one checked. `ClockRange` stands for 2^64 as in the auctions and `MinuteRange`
for the 2^16 of the `as u16`. `worst` is the largest deviation of any index so
far, `receivedAt` when a price was recorded.

### StabilityPool

`enrkBalance` and `cumulativeFees` are the pool. `DepositFees`, `AttemptBuyback`
and `DepositLiquidationProceeds` are its operations, `PriceMove` moves the price
of ENRK that is passed to `attempt_buyback`. That the allocation is between 0
and 100 is assumed: `FeeStructure::validate` adds two allocations as `u8`.
`deposit_fees` multiplies the fees by `allocation as f64 / 100.0` and cuts the
product. For fees below 2^44 the result is the exact quotient or, where that
leaves no remainder, possibly one less: 50 units at 58 percent make 28, 100 at
29 make 28. `CutShort` is the set of the fees for which it is one less, any set
of fees with a whole share; for the frozen 80 percent there are none. Its
definitions carry the prefix `Pool`, so that one module can be about it and
about `Safeguards`.

### PriceRounds

`coins` is the bag of the oracle's coins `[value, round, price]`, `vaults` the
vaults that have not been liquidated. `use` recreates a coin as it was, so
spending one with a vault is no change of `coins`; `Sweep` consumes one coin
and publishes two. `Liquidate` and `Withdraw` read any coin. The signatures and
that a transaction runs all of its entries or none belong to the language of
the covenants, which is external.

## 3. What is checked

All of these are safety properties. There is no liveness property: nothing in
the crate acts on its own, every step is a caller's, and no code calls these
methods in a loop, so no fairness can be justified. "A borrower can get out"
is therefore stated as "the call would be accepted now". That every candidate is
auctioned in the end is not stated: an expired auction nobody finalizes keeps its
vault from being started again, and nothing obliges anyone to finalize it.

### Runs that pass

`tokens` (10 010 states). Three addresses, one malformed one, amounts
-1, 0, 1, 3, 7, supplies up to 10, cap 30: the supplies go through every share
from 0% to 100%, with several points exactly at the cap (3 of 10) and one unit
to either side.
 * `SupplyIsSumOfBalances`: `verify_invariant` never fails.
 * `HoldersCanAlwaysBurn`: `burn` never answers `StateInconsistency`.
 * `HeadroomIsExact`: `mint_kfiat` accepts n exactly if n is at most
   `max_mintable_kfiat`; `JuniorMintSpendsHeadroom`: a mint uses up its amount
   of headroom, so small mints get no more than one large one.
 * `OnlySeniorBurnBreachesCap`: the header of `kaspa_tokens.rs` describes that an
   ENRK burn may leave the cap; nothing else does, and above the cap no amount
   of kFIAT is minted until repayments or new ENRK have led back.
 * `ReportedRatioBracketsCap`: the floor that `kfiat_ratio_percent` reports
   hides at most a breach below one percent and never invents one.
 * `ImplementsTranches`: the two supplies behave as `TrancheSupply`.

`vaults` (179 091 states). Three vaults, frozen ratios 200/150, fee 2%, cap 30,
KAS at 3.0 or 2.0, kFIAT at 1.0 or 0.5. With deposits of 35 and 70 and debts in
multiples of 51 a vault has ratios from far below 150% to far above 200% and
crosses both thresholds by mints, burns, withdrawals and price moves.
 * `ImplementsTranches`: `mint_kfiat` enforces over all vaults' debts, fees
   included, the cap the token layer enforces on supplies.
 * `OnlyPricesEndanger`: no call makes a vault a liquidation candidate.
 * `CandidatesOnlyImprove`: while a vault is a candidate its owner takes nothing
   out and adds no debt.
 * `EnrkMintLeavesMinimum`: an ENRK mint leaves 200%.
 * `ClosedVaultsAreFrozen`: although burns do not look at the status.
 * `DebtCanAlwaysBeCleared`: at any prices, burning all ENRK and then all kFIAT
   is accepted. (In the other order it may not be.)

   All prices of this run have kFIAT at or below 1.0. Above it the hard-coded
   price makes `OnlyPricesEndanger` and `EnrkMintLeavesMinimum` fail.

`auctions` (25 545 states). Two vaults, auctions of four minutes of two ticks,
from 100% to 85%, a clock that goes to 12, up to four auctions: auctions start
in different minutes, several expire, are finalized or not, and the same vault
is started again.
 * `OneAuctionPerVault`, `EndedAuctionsStayEnded`, `PriceNeverRises`,
   `EndsByBidOrTimeout`.

`liquidations` (1 761 216 states). Two vaults, KAS at 1.5, 1.25 or 0.5 (a vault
of 70 KAS that owes 51 is then above 200%, between the thresholds, or so far
below 150% that another 70 KAS leave it a candidate), auctions of two minutes.
 * `CandidatesBackTheirClones`: if the prices have not moved since the keeper
   asked, a vault that is still a candidate has at least the KAS and at most the
   debts of the clone the keeper holds, whatever owners repaid, paid in and took
   out in between. (At other prices it need not: the owner of a vault that
   recovered may take KAS out.)

   (That no stale clone leads to a second auction is the property
   `OneAuctionPerVault` of `auctions`, where clones are arbitrary. Every step of
   the liquidation manager here is one there: theorem `ManagersUndisturbed`.)

`feeds` (33 476 states). Readings at, far below and above the baseline, some
refused, a network that reports no fee, times of reports apart from the clock,
a time to live of two ticks and a clock that goes both ways.
 * `CacheIsCurrent`: whatever is cached is what would be computed now.
 * `HealthyFeedsAnswer`: `all_feeds_healthy` never takes a feed without reports
   for a fresh one; healthy feeds fail to answer for a reported fee only.
 * `ImplementsIndexService`: the cache does not show in what fresh feeds answer,
   wherever the clock was between the questions.

`safeguards` (1 362 692 states). Frozen weights, a threshold of 10 percent and
one of one minute of two ticks, readings that make pegs of 85, 98, 218 up to
358 hundredths (the last 258% off, which eight bits show as 2%), three sources
of which `get_price` does not know one, prices on time or a tick late.
 * `PegPausesAreJustified`: the peg is a mean, so a pause for it has an index
   behind it that was off by more than the threshold, however late the check.
 * `OraclePausesAreJustified`: a pause for the oracles means that all of them
   have been silent for longer than the threshold.
 * `BreachesAreFound`: neither conversion hides a breach by more than a percent
   or by a whole minute.
 * `PauseLatches`: checks that find all well do not resume the protocol.
 * `HealthAgreesWithBreaker`: `is_peg_healthy`, which converts through `i16`, and
   the breaker agree on pegs up to 3.55. Between 3.56 and 3.66 they do not: the
   deviation of 256% to 266% is cut to 0 to 10.
 * `AnswersAreRecent`, `HealthySourcesAnswer`: `get_price` and
   `all_sources_healthy`, which compare ages apart.

`pool` (26 040 states). Allocation of 58 percent and fees of 3 and of 50, whose
whole share of 29 the floating point product cuts to 28 (the frozen 80 percent
cuts no whole share), buybacks at, below and above the peg.
 * `PoolKeepsItsShare`: what the pool has and has burned is its share of the
   fees, at most one unit for each deposit missing and none too many, and the
   proceeds.

`rounds` (4 272 states). A feed of five units, which may be swept four times,
two vaults, prices at which they are above 200%, between and below 150%.
 * `FeedKeepsItsValue`, `UpdatesRunOut`: coins keep the feed's value together,
   and each update uses up one unit of it for good: the feed ends after fewer
   updates than it has units.
 * `JudgedAtPublishedPrices`: liquidations and withdrawals are judged at a price
   the publisher has published.

`CHECK_DEADLOCK FALSE` is set in the auction, liquidation and round runs only:
clock and ids are bounded there, and the covenants really do stop when all
vaults are liquidated and no coin can be split.

### Bounds

`MaxSupply`, `MaxVaults`, `MaxDebt`, `MaxCollateral`, `MaxAuctions` and `MaxTime`
are conjuncts of the actions that grow the quantity; they cut off behaviours
and never make an operation possible. Three vaults let one repay while two
others share the cap; two auctions of one vault after each other and one of
another exercise every rule about ids. The clock of `safeguards` ends two ticks
after the threshold can be exceeded. The theorems
of section 4 hold for all values of the bounds and of the other constants.

### Where code and documentation disagree

Each of these runs checks one statement of the documentation and TLC finds a
behaviour of the code that contradicts it.

| Run | Statement | What happens |
|---|---|---|
| `liquidation_sold` | `liquidation.rs:11` collateral transferred, debt burned | no vault is touched; bidders are paid more KAS for it than its owner has brought in and left there |
| `liquidation_won` | `liquidation.rs:9` anyone can bid to cover the debt | with KAS at 0.5 every bid is too low or asks too much KAS; for which prices is in section 4 |
| `breaker_ahead` | `circuit_breaker.rs:111` triggers if the downtime exceeds the threshold | a price dated a moment ahead makes the unsigned difference wrap and pauses the protocol, for good |
| `rounds_stale` | `ENRK_ECOSYSTEM_PROPOSAL.md:147` no instant at which rounds R and R+1 both exist | `sweep` consumes one coin; a vault that is safe at the latest price is liquidated at that of a coin not swept yet |

Seen while modelling and not kept as runs:

* Vaults. With kFIAT above 1.0 an ENRK mint does not leave the minimum ratio of
  `vault.rs:111`, since line 142 has 1.0. Below 200% a partial ENRK repayment is
  refused, which `kaspa_tokens.rs:25` and `PHASE_4_ARCHITECTURE_PROPOSAL.md:254`
  exclude. `close_vault` (`vault.rs:407`) leaves the KAS in a vault nothing can
  withdraw from. `vault.rs:9` promises 200% where `withdraw_collateral` goes down
  to 150%; `vault.rs:244` says a burn releases collateral and it does not.
* Auctions. The percentage multiplies the bid, so late bidders are paid less
  than they bid, not more (`liquidation.rs:15`). A clock set back makes the
  elapsed time wrap and the auction look expired (`liquidation.rs:272`).
  `liquidation.rs:70` speaks of an active auction where an expired one that
  nobody finalized blocks too; line 207 compares an amount of stablecoins with
  one of KAS, so above 1.0 a bid below the debt wins. `start_liquidation` judges
  a clone that may be old.
* Feeds. `fetch_all_indices` answers from stale feeds, and from feeds nothing
  was reported to (the energy and the adoption feed), where
  `oracle_feeds.rs:296` promises an error: lines 317 to 325 log a warning and go
  on. The refinement of `IndexService` leaves these questions out.
  `all_feeds_healthy` ("fresh and valid") is true of a fee of 0, with which a
  fetch fails.
* Breaker and peg. A deviation of 10.9% does not exceed 10% (whole percents);
  `is_peg_healthy` finds a peg of 3.6 healthy; after 65 536 minutes the downtime
  starts again at zero; a late `record_price` replaces a fresher price. Nothing
  calls `require_active`.
* Pool. The pause of six hours between buybacks is not kept
  (`stability_pool.rs:134` writes the time, nothing reads it). `max_buyable`
  divides the balance by a price below the peg and so quotes more than the
  balance, which `attempt_buyback` refuses unless the truncation hides the
  discount (section 4). Prices of zero and less are accepted. Allocations of 200 and 156 pass
  `FeeStructure::validate` in a build without overflow checks.
* Covenants. A coin of one unit cannot be swept; coins cannot be joined.

## 4. What is proved

All constants are arbitrary within the named assumptions (`AmountAssumption`,
`CapAssumption`: 0 < cap < 100, and so on).

`SumLemmas` provides what the ledgers need: `SumFunction` of the community
modules is a fold over a set with `CHOOSE`, and no induction theorem with an
operator parameter is at hand. The sum is characterised by partial sums over the
chosen order, and the order-free facts are proved by smallest counterexample in
Nat: `SumType`, `SumOfNaturals`, and `SumChangesAtOnePoint` (functions that agree
but for one point have sums that differ by their entries there). It serves the
ledgers, the totals of the vaults and the bags of coins.

`KaspaTokensProofs`. The inductive invariant `Books` says of both ledgers that
the domain of `balances` is a finite set of valid addresses, every entry is a
positive natural number, and the supply is their sum. `SupplyIsSumOfBalances`
alone is not inductive: that the sum of a debited ledger is the sum less n needs
the finite domain and the entry's type, and a supply in Nat after a burn needs
that a sum of naturals is at least each of its entries. `SetBalanceKeepsBook` is
the step all of `Minted`, `Burned` and `Transferred` rest on.
 * `TypeCorrect`, `SupplyConserved`, `BurnNeverStuck`.

   The cap, in the second half: the supplies are two naturals, by `Books`; the
   rest is arithmetic about one division.
 * `HeadroomExact`, `HeadroomSpent`, `ReportBracketsCap`,
   `CapBreachedOnlyBySeniorBurn`, and
   `TokensImplementTranches`: every step of `KaspaTokens` is one of
   `TrancheSupply` or leaves the supplies alone (a transfer).

`VaultProofs`. The 1.0 that stands for the price of kFIAT in `mint_enrk` is why
three of the theorems assume `KfiatAtMostPar`, that no price of kFIAT is above
it; with kFIAT at 2.0 TLC finds `OnlyPricesEndanger` and `EnrkMintLeavesMinimum`
violated. The argument has four
parts.
 * `TypeOK` is inductive: `VaultsTyped`. `StepKinds` sorts the steps into a new
   vault, a call that replaces one vault, and a move of the prices; `Called`
   says for each call what it replaces a vault by and what it has checked.
 * `StepsImproveOrCheck`: a call leaves its vault with no less KAS and no more
   debt, or makes it worse and then has checked it against the trigger at the
   least. With two facts about ratios (`BetterPasses`: an improved vault passes
   what it passed before; `ParPasses`: what passes with kFIAT at 1.0 passes at a
   lower price) this gives `OwnersDoNotEndanger`, `CandidatesAreNotEmptied` and
   `EnrkMintSound`. A candidate is not made worse, since what the worse vault
   passes the better one, not a candidate then, would pass too.
 * `ClosedStayAsTheyAre` needs the stronger invariant `ClosedOweNothing`: the
   burns accept a closed vault, but nothing it owes is left to burn.
   `BorrowersAreLetOut` follows from the types.
 * `VaultsImplementTranches`: by `SumChangesAtOnePoint` a call changes the totals
   by what it changes in its vault, so it is the step of `TrancheSupply` its own
   debt suggests; a new vault adds a zero.

`AuctionProofs`. `TypeOK` is inductive, and `OneAuctionPerVault` with it: a start
adds one auction, about a vault that has none, and every other step removes at
most one. `EndsForGood` rests on the ids in `TypeOK` being below
`nextAuctionId`. `PriceDescends` and `EndsAsPromised` assume that the clock is
never set back (every step of it is in `Nat`). They need that
no auction starts in the future of the clock (`StartedInPast`), so that the
subtraction does not wrap, and that the quotient of the descent is monotonic and
its whole minutes end where the duration does.

The last sections say which auctions can be won, the finding of the run
`liquidation_won` for all values. A bid has to be worth the debt after it is
multiplied by the price of KAS and the percentage, and its payout is the bid
times the percentage divided by the price. The percentage cancels: an auction
is won only if its collateral covers the debt divided *twice* by the price of
KAS (`OnlyCoveredAuctionsAreWon`), whatever the descent; and that much
collateral and what one unit buys more always suffices
(`AmplyCoveredAuctionsCanBeWon`). A vault under the trigger has less when KAS is
cheap. `CheapKas` says how cheap, for any trigger; at a single price and with the
frozen trigger of 150% it says that KAS is at 0.5 or below.
`CheapCollateralIsNeverSold` then needs the invariant `StartedBelowTrigger`: the
copies in `auctions` were below the trigger at some price.

`LiquidationProofs`. The modules with the theorems about the two managers are
instantiated as `Liquidations` instantiates the managers; lemmas named `Same...`
say that the definitions of both instances agree. The inductive invariant
`KeeperInv` adds to the types the range of the vaults' ids, so that `auctions` and
`sold` speak of vaults there can be. `ComponentSteps` shows that a step of the composition is a step of each
manager or leaves it alone, so that the composition implements both
specifications (`ManagersUndisturbed`), and what is proved of a manager alone
holds beside the other.
 * `LiquidationsTyped`, `AuctionsKeepPromises` (one auction for a vault, ended
   for good), `VaultsKeepPromises` (debt can be cleared, closed vaults are
   frozen) for all values.
 * `OwnersKeepPromises` if kFIAT is never above 1.0, `AuctionsRunTheirCourse` if
   the clock is never set back, as above.
 * `ClonesAreBacked` if kFIAT is never above 1.0: a vault that is a candidate now
   was one all the time since the keeper asked, by `OnlyPricesEndanger`, and so
   has only improved, by `CandidatesOnlyImprove`. The one property needs both
   promises of the vault manager, at every step.
 * `CheapKasIsNeverPaidOut`: under `CheapKas` `sold` stays zero.

`FeedProofs`. The invariant is `TypeOK`, `CacheIsCurrent` and that a time of
report other than 0 is a sign of an accepted report. `CacheIsCurrent` carries the
refinement: with it each way of answering, while the feeds are fresh, is the
`Ask` of `IndexService`; the answers of stale feeds are steps that leave it alone.
 * `FeedsTyped`, `CacheNeverStale`, `HealthyFeedsFailForFees`,
   `FeedsImplementService`.

`SafeguardProofs`. `MeanIsWithinSpread` is the heart: for natural weights that
add up to 100 the peg, clipped towards the ideal, is off by no more than the
worst index. `BreachIsDeviation` and `DowntimeIs` say what the conversions to
`u8`, `u16` and the unsigned difference leave of a deviation and a downtime. The
invariant adds to the types that `worst` bounds what feeds and keeper hold
(`HeldIsBounded`) and that the time of a price is off by a skew from when it was
recorded (`PricesAreDated`).
 * `SafeguardsTyped`, `PegPausesHaveCause`, `HealthAgrees`, `BreachesFound`,
   `PausesLatch`, `AnswersRecent`, `HealthySourcesSuffice` for a system clock
   that is never set back (`ClockAssumption`; the times of prices may be off by
   any skew) and otherwise without assumptions; `OraclePausesHaveCause` if no skew is positive: the run
   `breaker_ahead` shows that it needs to be so.

   The stability pool, at the end of the module: types and `PoolKeepsItsShare`
   are inductive together (`PoolBook`); what is left is that a share is cut by
   one unit at most, for every allocation and every `CutShort`.
 * `PoolNeverOwes`, `ShareKept`, and `QuoteAcceptedIfDiscountIsSmall`:
   what `max_buyable` quotes at a price p below the peg is accepted exactly if
   the balance times (1 - p) is below p: at 0.95, a balance below 19.

`PriceRoundProofs`. The coins are a bag, and what matters are three sums over it:
of 1 for each coin (`Single`), of its value (`Worth`), and of its value less one
(`Spare`). `SweptBag` shows what a sweep does to any such sum: one coin's weight
goes, two coins' weights come. The inductive invariant `RoundsInv` says that the
sums are one more than the number of sweeps, the value of the feed, and that
value less both. The last, a sum of naturals, is why the sweeps run out; it does
not follow from the first two without an induction over the bag.
 * `RoundsTyped`, `FeedNotDrained`, `SweepsRunOut`, `JudgedAuthentically`.

Every property of a passing run is stated by one of these theorems, seven of them
under a hypothesis named above: `KfiatAtMostPar` for `OnlyPricesEndanger`,
`CandidatesOnlyImprove`, `EnrkMintLeavesMinimum` and `CandidatesBackTheirClones`;
a clock that is not set back
for `PriceNeverRises` and `EndsByBidOrTimeout`; no positive skew for
`OraclePausesAreJustified`. Left to TLC are the behaviours that refute the
documentation (a theorem says what cannot happen, a run shows what does) and
that the guards let the interesting cases happen at all.

Out of the prover's reach: liveness under fairness and `ENABLED` (none is used),
induction theorems that take an operator, and RECURSIVE definitions (none is
used in a module that is proved about).

## 5. What is left

`PriceRounds` with several sweeps in one transaction as one step.

Not modelled:

* Variant A of the covenants: variant B with one field less, where the price is
  the value of the coin and `sweep` leaves both values free. `vault.ag` is the
  same.
* A protocol that joins the managers (fees into the pool, vault debts with token
  supplies, the breaker before each operation): there is no such code.
* `errors.rs` and the constants of `lib.rs` (used as values of the
  configurations), the transaction strings of `kaspa_adapter.rs`, the Monte Carlo
  scripts and the mass measurement: they keep no state of the program.
