--------------------------- MODULE AuctionProofs ---------------------------
(***************************************************************************)
(* Theorems about LiquidationManager for every value of its constants.     *)
(*                                                                         *)
(* TypeOK is inductive.  OneAuctionPerVault is too, beside TypeOK: the ids *)
(* in use are all below the next one, so a new auction has an id of its    *)
(* own, and Startable keeps its vault apart from those of the others.      *)
(* What ends stays ended because ids are only taken from the counter.      *)
(* The last two sections say which auctions can be won at all: not those   *)
(* with too little KAS, and none at all when KAS is cheap.                 *)
(***************************************************************************)
EXTENDS LiquidationManager, TLAPS

(* What starts an auction is a vault that owes something.                  *)
LEMMA CandidatesOwe ==
  ASSUME NEW w \in VaultStates, NEW m \in Markets, NEW percent,
         BelowRatio(w, m, percent)
  PROVE  /\ w.collateral \in Nat
         /\ w.enrk + w.kfiat \in Nat \ {0}
<1>1. w.collateral \in Nat /\ w.enrk \in Nat /\ w.kfiat \in Nat
  BY CallerAssumption
<1>2. m.enrk \in Nat /\ m.kfiat \in Nat
  BY CallerAssumption DEF Market
<1>3. w.enrk * m.enrk + w.kfiat * m.kfiat # 0
  BY DEF BelowRatio, DebtValue
<1>4. w.enrk # 0 \/ w.kfiat # 0
  <2>1. SUFFICES ASSUME w.enrk = 0, w.kfiat = 0 PROVE FALSE
    OBVIOUS
  <2>2. w.enrk * m.enrk = 0 /\ w.kfiat * m.kfiat = 0
    BY <1>2, <2>1
  <2>. QED BY <1>3, <2>2
<1>. QED BY <1>1, <1>4

(* Removing an auction leaves the others as they were.                     *)
LEMMA Removed ==
  ASSUME NEW id, Remove(id)
  PROVE  /\ DOMAIN auctions' = DOMAIN auctions \ {id}
         /\ \A i \in DOMAIN auctions' : auctions'[i] = auctions[i]
         /\ nextAuctionId' = nextAuctionId
         /\ now' = now
BY DEF Remove

(* Starting an auction adds one, about the vault handed in, under the next *)
(* id, and leaves the others as they were.                                 *)
LEMMA Started ==
  ASSUME NEW v, NEW w, NEW m, StartLiquidation(v, w, m)
  PROVE  /\ DOMAIN auctions' = DOMAIN auctions \cup {nextAuctionId}
         /\ auctions'[nextAuctionId]
              = [vaultId |-> v, collateral |-> w.collateral,
                 debt |-> w.enrk + w.kfiat, startedAt |-> now]
         /\ \A i \in DOMAIN auctions \ {nextAuctionId} :
              auctions'[i] = auctions[i]
         /\ nextAuctionId' = nextAuctionId + 1
         /\ now' = now
BY DEF StartLiquidation

LEMMA TypeInit == Init => TypeOK
BY ClockAssumption DEF Init, TypeOK, NoAuctions

LEMMA TypeNext == TypeOK /\ [Next]_vars => TypeOK'
<1>. SUFFICES ASSUME TypeOK, [Next]_vars PROVE TypeOK'
  OBVIOUS
<1>. USE DEF TypeOK
<1>1. ASSUME NEW v \in VaultIds, NEW w \in VaultStates, NEW m \in Markets,
             StartLiquidation(v, w, m)
      PROVE  TypeOK'
  <2>1. BelowRatio(w, m, McrTrigger)
    BY <1>1 DEF StartLiquidation, Startable
  <2>2. [vaultId |-> v, collateral |-> w.collateral,
         debt |-> w.enrk + w.kfiat, startedAt |-> now] \in Auction
    BY <2>1, CandidatesOwe DEF Auction
  <2>3. \A id \in DOMAIN auctions' : auctions'[id] \in Auction
    BY <1>1, <2>2, Started
  <2>4. nextAuctionId' = nextAuctionId + 1 /\ now' = now
    BY <1>1, Started
  <2>5. DOMAIN auctions' = DOMAIN auctions \cup {nextAuctionId}
    BY <1>1, Started
  <2>6. DOMAIN auctions \cup {nextAuctionId} \subseteq 1 .. nextAuctionId
    OBVIOUS
  <2>7. nextAuctionId = nextAuctionId' - 1
    BY <2>4
  <2>8. DOMAIN auctions' \subseteq 1 .. nextAuctionId' - 1
    BY <2>5, <2>6, <2>7
  <2>. QED BY <2>3, <2>4, <2>8
<1>2. ASSUME NEW id \in DOMAIN auctions, Remove(id) PROVE TypeOK'
  BY <1>2, Removed
<1>3. ASSUME NEW d \in ClockSteps, Tick(d) PROVE TypeOK'
  BY <1>3 DEF Tick
<1>4. CASE UNCHANGED vars
  BY <1>4 DEF vars
<1>. QED
  BY <1>1, <1>2, <1>3, <1>4 DEF Next, SubmitBid, FinalizeExpiredAuction

(* Auctions have ids handed out so far, are about some debt and started in *)
(* the time the clock has run through, whatever vaults callers hand in.    *)
THEOREM AuctionsTyped == Spec => []TypeOK
BY TypeInit, TypeNext, PTL DEF Spec

LEMMA OneAuctionNext ==
  TypeOK /\ OneAuctionPerVault /\ [Next]_vars => OneAuctionPerVault'
<1>. SUFFICES ASSUME TypeOK, OneAuctionPerVault, [Next]_vars
              PROVE  OneAuctionPerVault'
  OBVIOUS
<1>1. ASSUME NEW v \in VaultIds, NEW w \in VaultStates, NEW m \in Markets,
             StartLiquidation(v, w, m)
      PROVE  OneAuctionPerVault'
  <2>1. \A i \in DOMAIN auctions : i # nextAuctionId
    BY DEF TypeOK
  <2>2. \A i \in DOMAIN auctions : auctions[i].vaultId # v
    BY <1>1 DEF StartLiquidation, Startable
  <2>3. auctions'[nextAuctionId].vaultId = v
    <3>1. auctions'[nextAuctionId]
            = [vaultId |-> v, collateral |-> w.collateral,
               debt |-> w.enrk + w.kfiat, startedAt |-> now]
      BY <1>1, Started
    <3>. QED BY <3>1
  <2>4. \A i \in DOMAIN auctions : auctions'[i] = auctions[i]
    BY <1>1, <2>1, Started
  <2>5. DOMAIN auctions' = DOMAIN auctions \cup {nextAuctionId}
    BY <1>1, Started
  <2>. QED BY <2>2, <2>3, <2>4, <2>5 DEF OneAuctionPerVault
<1>2. ASSUME NEW id \in DOMAIN auctions, Remove(id) PROVE OneAuctionPerVault'
  BY <1>2, Removed DEF OneAuctionPerVault
<1>3. ASSUME NEW d \in ClockSteps, Tick(d) PROVE OneAuctionPerVault'
  BY <1>3 DEF Tick, OneAuctionPerVault
<1>4. CASE UNCHANGED vars
  BY <1>4 DEF vars, OneAuctionPerVault
<1>. QED
  BY <1>1, <1>2, <1>3, <1>4 DEF Next, SubmitBid, FinalizeExpiredAuction

(* However many keepers try however often, a vault is under the hammer at  *)
(* most once at a time.                                                    *)
THEOREM VaultAuctionedOnce == Spec => []OneAuctionPerVault
<1>1. Init => OneAuctionPerVault
  BY DEF Init, NoAuctions, OneAuctionPerVault
<1>. QED BY <1>1, TypeInit, TypeNext, OneAuctionNext, PTL DEF Spec

(* A step ends auctions or starts one under a new id, and changes none.    *)
LEMMA AuctionsKept ==
  TypeOK /\ [Next]_vars
    => /\ \A id \in 1 .. nextAuctionId - 1 :
            id \notin DOMAIN auctions => id \notin DOMAIN auctions'
       /\ \A id \in DOMAIN auctions \cap DOMAIN auctions' :
            auctions'[id] = auctions[id]
<1>. DEFINE Kept ==
       /\ \A id \in 1 .. nextAuctionId - 1 :
            id \notin DOMAIN auctions => id \notin DOMAIN auctions'
       /\ \A id \in DOMAIN auctions \cap DOMAIN auctions' :
            auctions'[id] = auctions[id]
<1>. SUFFICES ASSUME TypeOK, [Next]_vars PROVE Kept
  OBVIOUS
<1>1. ASSUME NEW v \in VaultIds, NEW w \in VaultStates, NEW m \in Markets,
             StartLiquidation(v, w, m)
      PROVE  Kept
  <2>1. nextAuctionId \notin 1 .. nextAuctionId - 1
    BY DEF TypeOK
  <2>2. DOMAIN auctions \subseteq 1 .. nextAuctionId - 1
    BY DEF TypeOK
  <2>. QED BY <1>1, <2>1, <2>2, Started
<1>2. ASSUME NEW id \in DOMAIN auctions, Remove(id) PROVE Kept
  BY <1>2, Removed
<1>3. ASSUME NEW d \in ClockSteps, Tick(d) PROVE Kept
  BY <1>3 DEF Tick
<1>4. CASE UNCHANGED vars
  BY <1>4 DEF vars
<1>. QED
  BY <1>1, <1>2, <1>3, <1>4 DEF Next, SubmitBid, FinalizeExpiredAuction

(* An auction that has ended does not come back and its id is not used     *)
(* again, and a running one is not changed.                                *)
THEOREM EndsForGood == Spec => EndedAuctionsStayEnded
BY AuctionsKept, AuctionsTyped, PTL DEF Spec, EndedAuctionsStayEnded

-----------------------------------------------------------------------------
(* The descent of the price.                                               *)

(* A larger dividend has no smaller quotient.                              *)
LEMMA QuotientGrows ==
  ASSUME NEW a \in Int, NEW b \in Int, NEW d \in Nat \ {0}, a <= b
  PROVE  /\ a \div d \in Int
         /\ a \div d <= b \div d
<1>. DEFINE p == a \div d
            q == b \div d
<1>1. /\ p \in Int /\ d * p <= a /\ a < d * p + d
      /\ q \in Int /\ d * q <= b /\ b < d * q + d
  OBVIOUS
<1>2. SUFFICES ASSUME q + 1 <= p PROVE FALSE
  BY <1>1
<1>. HIDE DEF p, q
<1>3. d * (q + 1) <= d * p
  <2>1. p - (q + 1) \in Nat
    BY <1>1, <1>2
  <2>2. d * (p - (q + 1)) >= 0
    BY <2>1
  <2>3. d * (p - (q + 1)) = d * p - d * (q + 1)
    BY <1>1
  <2>. QED BY <1>1, <2>2, <2>3
<1>4. d * (q + 1) = d * q + d
  BY <1>1
<1>. QED BY <1>1, <1>3, <1>4

(* The price after e minutes.                                              *)
PriceAfter(e) ==
  IF e >= DurationMinutes THEN EndPrice
  ELSE (100 * DurationMinutes - e * (100 - EndPrice)) \div DurationMinutes

(* The longer an auction runs the lower its price, down to the end price,  *)
(* also from the last minute of the descent to the expiry.                 *)
LEMMA PriceFalls ==
  ASSUME NEW e \in Nat, NEW f \in Nat, e <= f
  PROVE  /\ PriceAfter(f) \in Int
         /\ PriceAfter(f) <= PriceAfter(e)
         /\ EndPrice <= PriceAfter(f)
<1>. DEFINE D == DurationMinutes
            R == 100 - EndPrice
            asked(x) == 100 * D - x * R
<1>1. D \in Nat \ {0} /\ R \in 1 .. 99 /\ EndPrice \in 1 .. 99
  BY AuctionAssumption
<1>2. \A x, y \in Nat : x <= y => x * R <= y * R
  <2>. SUFFICES ASSUME NEW x \in Nat, NEW y \in Nat, x <= y
                PROVE  x * R <= y * R
    OBVIOUS
  <2>1. (y - x) \in Nat
    OBVIOUS
  <2>2. (y - x) * R >= 0
    BY <1>1, <2>1
  <2>3. (y - x) * R = y * R - x * R
    BY <1>1
  <2>. QED BY <1>1, <2>2, <2>3
<1>3. \A x \in Nat : asked(x) \in Int
  BY <1>1
<1>4. \A x, y \in Nat : x <= y => asked(y) <= asked(x)
  BY <1>1, <1>2
<1>5. asked(D) \div D = EndPrice
  <2>1. asked(D) = D * EndPrice
    BY <1>1
  <2>2. (D * EndPrice) \div D = EndPrice
    BY <1>1
  <2>. QED BY <2>1, <2>2
<1>. HIDE DEF asked
<1>6. \A x \in Nat : x <= D => /\ asked(x) \div D \in Int
                               /\ EndPrice <= asked(x) \div D
  <2>. SUFFICES ASSUME NEW x \in Nat, x <= D
                PROVE  /\ asked(x) \div D \in Int
                       /\ EndPrice <= asked(x) \div D
    OBVIOUS
  <2>1. asked(D) \in Int /\ asked(x) \in Int /\ asked(D) <= asked(x)
    BY <1>1, <1>3, <1>4
  <2>2. asked(D) \div D <= asked(x) \div D
    BY <1>1, <2>1, QuotientGrows
  <2>3. asked(x) \div D \in Int
    BY <1>1, <2>1, QuotientGrows
  <2>. QED BY <1>5, <2>2, <2>3
<1>7. \A x, y \in Nat : x <= y => asked(y) \div D <= asked(x) \div D
  BY <1>1, <1>3, <1>4, QuotientGrows
<1>8. \A x \in Nat : PriceAfter(x) = IF x >= D THEN EndPrice ELSE asked(x) \div D
  BY DEF PriceAfter, asked
<1>. HIDE DEF D
<1>9. CASE f >= D
  BY <1>1, <1>6, <1>8, <1>9
<1>10. CASE ~(f >= D)
  <2>1. ~(e >= D) /\ f <= D
    BY <1>1, <1>10
  <2>. QED BY <1>1, <1>6, <1>7, <1>8, <1>10, <2>1
<1>. QED BY <1>9, <1>10

(* No auction starts in the future of the clock.                           *)
StartedInPast == \A id \in DOMAIN auctions : auctions[id].startedAt <= now

(* A clock that is not set back keeps the starts of auctions in its past.  *)
LEMMA StartedInPastNext ==
  ASSUME ClockSteps \subseteq Nat
  PROVE  TypeOK /\ StartedInPast /\ [Next]_vars
           => StartedInPast' /\ now <= now'
<1>. SUFFICES ASSUME TypeOK, StartedInPast, [Next]_vars
              PROVE  StartedInPast' /\ now <= now'
  OBVIOUS
<1>1. now \in Nat /\ \A id \in DOMAIN auctions : auctions[id].startedAt \in Nat
  BY DEF TypeOK, Auction
<1>2. ASSUME NEW v \in VaultIds, NEW w \in VaultStates, NEW m \in Markets,
             StartLiquidation(v, w, m)
      PROVE  StartedInPast' /\ now <= now'
  <2>1. now' = now
    BY <1>2, Started
  <2>2. auctions'[nextAuctionId].startedAt = now
    <3>1. auctions'[nextAuctionId]
            = [vaultId |-> v, collateral |-> w.collateral,
               debt |-> w.enrk + w.kfiat, startedAt |-> now]
      BY <1>2, Started
    <3>. QED BY <3>1
  <2>3. \A id \in DOMAIN auctions' \ {nextAuctionId} :
           id \in DOMAIN auctions /\ auctions'[id] = auctions[id]
    BY <1>2, Started
  <2>. QED BY <1>1, <2>1, <2>2, <2>3 DEF StartedInPast
<1>3. ASSUME NEW id \in DOMAIN auctions, Remove(id)
      PROVE  StartedInPast' /\ now <= now'
  <2>1. /\ now' = now
        /\ \A i \in DOMAIN auctions' :
              i \in DOMAIN auctions /\ auctions'[i] = auctions[i]
    BY <1>3, Removed
  <2>. QED BY <1>1, <2>1 DEF StartedInPast
<1>4. ASSUME NEW d \in ClockSteps, Tick(d)
      PROVE  StartedInPast' /\ now <= now'
  <2>1. now' = now + d /\ d \in Nat /\ auctions' = auctions
    BY <1>4 DEF Tick
  <2>. QED BY <1>1, <2>1 DEF StartedInPast
<1>5. CASE UNCHANGED vars
  BY <1>1, <1>5 DEF vars, StartedInPast
<1>. QED
  BY <1>2, <1>3, <1>4, <1>5 DEF Next, SubmitBid, FinalizeExpiredAuction

(* Between a start and a later time within the bound the subtraction does  *)
(* not wrap, and more time is no fewer minutes.                            *)
LEMMA MinutesGrow ==
  ASSUME NEW s \in Nat, NEW t \in 0 .. MaxTime, NEW u \in 0 .. MaxTime,
         s <= t, t <= u
  PROVE  /\ ((t - s) % ClockRange) \div Minute \in Nat
         /\ ((u - s) % ClockRange) \div Minute \in Nat
         /\ ((t - s) % ClockRange) \div Minute
              <= ((u - s) % ClockRange) \div Minute
<1>1. Minute \in Nat \ {0} /\ MaxTime \in Nat /\ ClockRange \in Nat
  BY ClockAssumption
<1>2. MaxTime < ClockRange
  <2>1. DurationMinutes + 1 \in Nat
    BY AuctionAssumption
  <2>2. Minute * (DurationMinutes + 1) \in Nat
    BY <1>1, <2>1
  <2>. QED BY <1>1, <2>2, ClockAssumption
<1>3. t - s \in 0 .. ClockRange - 1 /\ u - s \in 0 .. ClockRange - 1
  BY <1>1, <1>2
<1>4. (t - s) % ClockRange = t - s /\ (u - s) % ClockRange = u - s
  BY <1>1, <1>3
<1>5. (t - s) \div Minute \in Nat /\ (u - s) \div Minute \in Nat
  BY <1>1, <1>3
<1>6. (t - s) \div Minute <= (u - s) \div Minute
  <2>1. t - s \in Int /\ u - s \in Int /\ t - s <= u - s
    BY <1>1
  <2>. QED BY <1>1, <2>1, QuotientGrows
<1>. QED BY <1>4, <1>5, <1>6

(* The price of a running auction only falls, and not below the end price, *)
(* for every duration, end price and length of a minute, as long as nobody *)
(* sets the clock back.                                                    *)
THEOREM PriceDescends ==
  ASSUME ClockSteps \subseteq Nat
  PROVE  Spec => PriceNeverRises
<1>. DEFINE Falls ==
       \A id \in DOMAIN auctions \cap DOMAIN auctions' :
         /\ CurrentPricePercent(auctions[id])' <= CurrentPricePercent(auctions[id])
         /\ CurrentPricePercent(auctions[id])' >= EndPrice
<1>1. TypeOK /\ StartedInPast /\ [Next]_vars
        /\ TypeOK' /\ (now <= now')
        /\ (\A id \in DOMAIN auctions \cap DOMAIN auctions' :
              auctions'[id] = auctions[id])
        => Falls
  <2>. SUFFICES ASSUME TypeOK, StartedInPast, TypeOK', now <= now',
                       NEW id \in DOMAIN auctions \cap DOMAIN auctions',
                       auctions'[id] = auctions[id]
                PROVE  /\ CurrentPricePercent(auctions[id])'
                            <= CurrentPricePercent(auctions[id])
                       /\ CurrentPricePercent(auctions[id])' >= EndPrice
    OBVIOUS
  <2>. DEFINE s == auctions[id].startedAt
              e == ((now - s) % ClockRange) \div Minute
              f == ((now' - s) % ClockRange) \div Minute
  <2>1. s \in Nat /\ s <= now /\ now \in 0 .. MaxTime /\ now' \in 0 .. MaxTime
    BY ClockAssumption DEF TypeOK, Auction, StartedInPast
  <2>2. e \in Nat /\ f \in Nat /\ e <= f
    BY <2>1, MinutesGrow
  <2>3. CurrentPricePercent(auctions[id]) = PriceAfter(e)
    BY DEF CurrentPricePercent, IsExpired, Elapsed, PriceAfter
  <2>4. CurrentPricePercent(auctions[id])' = PriceAfter(f)
    BY DEF CurrentPricePercent, IsExpired, Elapsed, PriceAfter
  <2>. HIDE DEF e, f
  <2>5. EndPrice \in Int
    BY AuctionAssumption
  <2>. QED BY <2>2, <2>3, <2>4, <2>5, PriceFalls
<1>2. TypeOK /\ [Next]_vars
        => \A id \in DOMAIN auctions \cap DOMAIN auctions' :
             auctions'[id] = auctions[id]
  BY AuctionsKept
<1>3. TypeOK /\ StartedInPast /\ [Next]_vars => Falls /\ StartedInPast'
  BY <1>1, <1>2, TypeNext, StartedInPastNext
<1>4. Init => StartedInPast
  BY DEF Init, NoAuctions, StartedInPast
<1>. QED
  BY <1>3, <1>4, TypeInit, TypeNext, PTL DEF Spec, PriceNeverRises, Falls

-----------------------------------------------------------------------------
(* How an auction ends.                                                    *)

(* Whole minutes reach the duration when the ticks do, neither before nor  *)
(* after: no part of a minute is lost or given away by the rounding.       *)
LEMMA MinutesReachDuration ==
  ASSUME NEW x \in Nat
  PROVE  x \div Minute >= DurationMinutes <=> x >= DurationMinutes * Minute
<1>. DEFINE q == x \div Minute
            M == Minute
            D == DurationMinutes
<1>1. M \in Nat \ {0} /\ D \in Nat \ {0}
  BY ClockAssumption, AuctionAssumption
<1>2. q \in Nat /\ M * q <= x /\ x < M * q + M
  BY <1>1
<1>. HIDE DEF q, M, D
<1>3. ASSUME q >= D PROVE D * M <= M * q
  <2>1. q - D \in Nat
    BY <1>1, <1>2, <1>3
  <2>2. M * (q - D) >= 0
    BY <1>1, <2>1
  <2>3. M * (q - D) = M * q - D * M
    BY <1>1, <1>2
  <2>. QED BY <1>1, <1>2, <2>2, <2>3
<1>4. ASSUME ~(q >= D) PROVE M * q + M <= D * M
  <2>1. D - q - 1 \in Nat
    BY <1>1, <1>2, <1>4
  <2>2. M * (D - q - 1) >= 0
    BY <1>1, <2>1
  <2>3. M * (D - q - 1) = D * M - M * q - M
    BY <1>1, <1>2
  <2>. QED BY <1>1, <1>2, <2>2, <2>3
<1>5. M * q \in Nat /\ D * M \in Nat
  BY <1>1, <1>2
<1>6. q >= D => x >= D * M
  BY <1>2, <1>3, <1>5
<1>7. x >= D * M => q >= D
  BY <1>1, <1>2, <1>4, <1>5
<1>. QED BY <1>6, <1>7 DEF q, M, D

(* As long as its start is not in the future, an auction has expired when  *)
(* its duration is over.                                                   *)
LEMMA ExpiryIsTheDuration ==
  ASSUME TypeOK, StartedInPast, NEW id \in DOMAIN auctions
  PROVE  /\ now - auctions[id].startedAt \in Nat
         /\ IsExpired(auctions[id])
              <=> now - auctions[id].startedAt >= DurationMinutes * Minute
<1>. DEFINE s == auctions[id].startedAt
<1>1. s \in Nat /\ s <= now /\ now \in 0 .. MaxTime /\ MaxTime \in Nat
  BY ClockAssumption DEF TypeOK, Auction, StartedInPast
<1>2. MaxTime < ClockRange /\ ClockRange \in Nat
  <2>1. Minute * (DurationMinutes + 1) \in Nat
    BY ClockAssumption, AuctionAssumption
  <2>. QED BY <1>1, <2>1, ClockAssumption
<1>. HIDE DEF s
<1>3. now - s \in Nat /\ (now - s) % ClockRange = now - s
  BY <1>1, <1>2
<1>4. IsExpired(auctions[id]) <=> (now - s) \div Minute >= DurationMinutes
  BY <1>3 DEF IsExpired, Elapsed, s
<1>. QED BY <1>3, <1>4, MinutesReachDuration DEF s

(* An auction that goes was won or had expired.                            *)
LEMMA EndsByBidOrExpiry ==
  ASSUME TypeOK, [Next]_vars, NEW id \in DOMAIN auctions \ DOMAIN auctions'
  PROVE  \/ \E bid \in Bids, m \in Markets : Acceptable(auctions[id], bid, m.kas)
         \/ IsExpired(auctions[id])
<1>1. ASSUME NEW v \in VaultIds, NEW w \in VaultStates, NEW m \in Markets,
             StartLiquidation(v, w, m)
      PROVE  FALSE
  BY <1>1, Started
<1>2. ASSUME NEW i \in DOMAIN auctions, Remove(i) PROVE id = i
  BY <1>2, Removed
<1>3. ~ (\E d \in ClockSteps : Tick(d)) /\ ~UNCHANGED vars
  BY DEF Tick, vars
<1>. QED
  BY <1>1, <1>2, <1>3 DEF Next, SubmitBid, FinalizeExpiredAuction

(* For every duration and length of a minute, an auction ends with a bid   *)
(* that is acceptable before the last tick of its duration or is removed   *)
(* after it, as long as nobody sets the clock back.                        *)
THEOREM EndsAsPromised ==
  ASSUME ClockSteps \subseteq Nat
  PROVE  Spec => EndsByBidOrTimeout
<1>. DEFINE EndsAs(a) ==
       \/ now - a.startedAt >= DurationMinutes * Minute
       \/ /\ now - a.startedAt \in 0 .. DurationMinutes * Minute - 1
          /\ \E bid \in Bids, m \in Markets : Acceptable(a, bid, m.kas)
<1>1. TypeOK /\ StartedInPast /\ [Next]_vars
        => \A id \in DOMAIN auctions \ DOMAIN auctions' : EndsAs(auctions[id])
  <2>. SUFFICES ASSUME TypeOK, StartedInPast, [Next]_vars,
                       NEW id \in DOMAIN auctions \ DOMAIN auctions'
                PROVE  EndsAs(auctions[id])
    OBVIOUS
  <2>. DEFINE D == DurationMinutes * Minute
              x == now - auctions[id].startedAt
  <2>1. x \in Nat /\ D \in Nat /\ (IsExpired(auctions[id]) <=> x >= D)
    BY ExpiryIsTheDuration, ClockAssumption, AuctionAssumption
  <2>2. ASSUME NEW bid \in Bids, NEW m \in Markets,
               Acceptable(auctions[id], bid, m.kas)
        PROVE  EndsAs(auctions[id])
    <3>1. ~IsExpired(auctions[id])
      BY <2>2 DEF Acceptable
    <3>2. x \in 0 .. D - 1
      <4>. HIDE DEF x, D
      <4>. QED BY <2>1, <3>1
    <3>. QED BY <2>2, <3>2
  <2>3. CASE IsExpired(auctions[id])
    BY <2>1, <2>3
  <2>4. \/ \E bid \in Bids, m \in Markets : Acceptable(auctions[id], bid, m.kas)
        \/ IsExpired(auctions[id])
    BY EndsByBidOrExpiry
  <2>. HIDE DEF EndsAs
  <2>. QED BY <2>2, <2>3, <2>4
<1>2. Init => StartedInPast
  BY DEF Init, NoAuctions, StartedInPast
<1>3. TypeOK /\ StartedInPast /\ [Next]_vars => StartedInPast'
  BY StartedInPastNext
<1>. QED
  BY <1>1, <1>2, <1>3, TypeInit, TypeNext, PTL
     DEF Spec, EndsByBidOrTimeout, EndsAs

-----------------------------------------------------------------------------
(* Which auctions can be won.  The percentage lowers what a bid receives   *)
(* and raises what a bid must reach, so it cancels: at every minute of the *)
(* descent a bid that is high enough is owed at least the debt divided by  *)
(* the price of KAS twice, in whole KAS.                                   *)

(* The collateral is at least debt / kas^2, down to less than one KAS.     *)
CoversDebtTwiceDivided(a, kas) ==
  PriceUnit * PriceUnit * a.debt < kas * kas * (a.collateral + 1)

(* Factors that are not negative keep an order.                            *)
LEMMA TimesKeepsOrder ==
  ASSUME NEW c \in Nat, NEW a \in Int, NEW b \in Int, a <= b
  PROVE  c * a \in Int /\ c * b \in Int /\ c * a <= c * b
<1>1. b - a \in Nat
  OBVIOUS
<1>2. c * (b - a) >= 0
  BY <1>1
<1>3. c * (b - a) = c * b - c * a /\ c * a \in Int /\ c * b \in Int
  OBVIOUS
<1>. QED BY <1>2, <1>3

(* What a bid that is high enough is owed, at any percentage.              *)
LEMMA PayoutIsDebtTwiceDivided ==
  ASSUME NEW bid \in Nat, NEW percent \in Nat, NEW kas \in Nat \ {0},
         NEW debt \in Nat,
         bid * kas * percent >= 100 * PriceUnit * debt
  PROVE  /\ CollateralForBid(bid, percent, kas) \in Nat
         /\ PriceUnit * PriceUnit * debt
              < kas * kas * (CollateralForBid(bid, percent, kas) + 1)
<1>. DEFINE U == PriceUnit
            x == bid * percent * U
            y == 100 * kas
            q == CollateralForBid(bid, percent, kas)
<1>1. U \in Nat \ {0}
  BY AuctionAssumption
<1>2. x \in Nat /\ y \in Nat \ {0} /\ q = x \div y
  BY <1>1 DEF CollateralForBid
<1>. HIDE DEF q
<1>3. q \in Nat /\ x < y * (q + 1)
  <2>. HIDE DEF x, y
  <2>1. q \in Nat /\ x < y * q + y
    BY <1>2
  <2>. QED BY <1>2, <2>1
<1>4. kas * x + kas <= kas * (y * (q + 1))
  <2>. DEFINE z == y * (q + 1)
  <2>1. z \in Int /\ x \in Int /\ x + 1 <= z
    BY <1>2, <1>3
  <2>. HIDE DEF x, z
  <2>2. kas * (x + 1) <= kas * z
    BY <2>1, TimesKeepsOrder
  <2>3. kas * (x + 1) = kas * x + kas
    BY <2>1
  <2>. QED BY <2>2, <2>3 DEF z
<1>5. kas * (y * (q + 1)) = 100 * (kas * kas * (q + 1))
  BY <1>3
<1>6. kas * x = U * (bid * kas * percent)
  BY <1>1
<1>7. U * (bid * kas * percent) >= 100 * (U * U * debt)
  <2>. DEFINE paid == bid * kas * percent
              owed == 100 * U * debt
  <2>1. paid \in Int /\ owed \in Int /\ owed <= paid
    BY <1>1
  <2>2. U * owed = 100 * (U * U * debt)
    BY <1>1
  <2>. HIDE DEF paid, owed
  <2>3. U * owed \in Int /\ U * paid \in Int /\ U * owed <= U * paid
    BY <1>1, <2>1, TimesKeepsOrder
  <2>. QED BY <2>2, <2>3 DEF paid
<1>8. U * U * debt < kas * kas * (q + 1)
  <2>. DEFINE l == U * U * debt
              r == kas * kas * (q + 1)
  <2>1. l \in Nat /\ r \in Nat
    BY <1>1, <1>3
  <2>2. 100 * l < 100 * r
    <3>. DEFINE a == kas * x
                b == U * (bid * kas * percent)
                c == kas * (y * (q + 1))
    <3>1. a + kas <= c /\ c = 100 * r /\ a = b /\ b >= 100 * l
      BY <1>4, <1>5, <1>6, <1>7
    <3>2. a \in Int /\ b \in Int /\ 100 * l \in Int /\ 100 * r \in Int
      BY <1>1, <1>2, <2>1
    <3>. HIDE DEF a, b, c, l, r
    <3>. QED BY <3>1, <3>2
  <2>. HIDE DEF l, r
  <2>3. l < r
    BY <2>1, <2>2
  <2>. QED BY <2>3 DEF l, r
<1>. QED BY <1>3, <1>8 DEF q

LEMMA PriceType ==
  ASSUME TypeOK, NEW id \in DOMAIN auctions
  PROVE  CurrentPricePercent(auctions[id]) \in 1 .. 100
<1>. DEFINE a == auctions[id]
            e == Elapsed(a)
<1>1. e \in Nat
  <2>1. now \in Nat /\ a.startedAt \in Nat
    BY ClockAssumption DEF TypeOK, Auction
  <2>2. ClockRange \in Nat \ {0} /\ Minute \in Nat \ {0}
    <3>1. Minute * (DurationMinutes + 1) \in Nat
      BY ClockAssumption, AuctionAssumption
    <3>. QED BY <3>1, ClockAssumption
  <2>. DEFINE seconds == (now - a.startedAt) % ClockRange
  <2>3. seconds \in Nat
    BY <2>1, <2>2
  <2>. HIDE DEF seconds
  <2>4. seconds \div Minute \in Nat
    BY <2>2, <2>3
  <2>. QED BY <2>4 DEF seconds, Elapsed
<1>. HIDE DEF e
<1>2. CurrentPricePercent(a) = PriceAfter(e)
  BY DEF CurrentPricePercent, IsExpired, PriceAfter, e
<1>3. /\ PriceAfter(e) \in Int /\ EndPrice <= PriceAfter(e)
      /\ PriceAfter(e) <= PriceAfter(0)
  BY <1>1, PriceFalls
<1>4. PriceAfter(0) = 100
  <2>. DEFINE D == DurationMinutes
  <2>1. D \in Nat \ {0} /\ (100 * D) \div D = 100
    BY AuctionAssumption
  <2>. QED BY <2>1, AuctionAssumption DEF PriceAfter
<1>. QED BY <1>2, <1>3, <1>4, AuctionAssumption

(* An auction that goes has expired or is covered at some price of a bid.  *)
LEMMA WonAreCovered ==
  ASSUME TypeOK, [Next]_vars, NEW id \in DOMAIN auctions \ DOMAIN auctions'
  PROVE  \/ IsExpired(auctions[id])
         \/ \E m \in Markets : CoversDebtTwiceDivided(auctions[id], m.kas)
<1>1. ASSUME NEW bid \in Bids, NEW m \in Markets,
             Acceptable(auctions[id], bid, m.kas)
      PROVE  CoversDebtTwiceDivided(auctions[id], m.kas)
  <2>. DEFINE a == auctions[id]
              kas == m.kas
              percent == CurrentPricePercent(a)
              q == CollateralForBid(bid, percent, kas)
  <2>1. /\ bid \in Nat /\ kas \in Nat \ {0} /\ percent \in Nat
        /\ a.debt \in Nat /\ a.collateral \in Nat
    BY <1>1, PriceType, CallerAssumption DEF Acceptable, Market, TypeOK, Auction
  <2>2. bid * kas * percent >= 100 * PriceUnit * a.debt /\ q <= a.collateral
    BY <1>1 DEF Acceptable
  <2>3. q \in Nat /\ PriceUnit * PriceUnit * a.debt < kas * kas * (q + 1)
    <3>. HIDE DEF percent, kas, a
    <3>. QED BY <2>1, <2>2, PayoutIsDebtTwiceDivided
  <2>4. kas * kas * (q + 1) <= kas * kas * (a.collateral + 1)
    <3>. DEFINE k == kas * kas
    <3>1. k \in Nat /\ q + 1 \in Int /\ a.collateral + 1 \in Int
          /\ q + 1 <= a.collateral + 1
      BY <2>1, <2>2, <2>3
    <3>. HIDE DEF k, q
    <3>2. k * (q + 1) <= k * (a.collateral + 1)
      BY <3>1, TimesKeepsOrder
    <3>. QED BY <3>2 DEF k
  <2>5. PriceUnit * PriceUnit * a.debt \in Int /\ kas * kas * (q + 1) \in Int
        /\ kas * kas * (a.collateral + 1) \in Int
    BY <2>1, <2>3, AuctionAssumption
  <2>6. PriceUnit * PriceUnit * a.debt < kas * kas * (a.collateral + 1)
    <3>. DEFINE l == PriceUnit * PriceUnit * a.debt
                n == kas * kas * (q + 1)
                r == kas * kas * (a.collateral + 1)
    <3>1. l \in Int /\ n \in Int /\ r \in Int /\ l < n /\ n <= r
      BY <2>3, <2>4, <2>5
    <3>. HIDE DEF l, n, r
    <3>2. l < r
      BY <3>1
    <3>. QED BY <3>2 DEF l, r
  <2>. QED BY <2>6 DEF CoversDebtTwiceDivided
<1>. QED BY <1>1, EndsByBidOrExpiry

(* "Anyone can bid to buy collateral and cover the vault's debt"           *)
(* (liquidation.rs) holds of some auctions only: whatever the duration and *)
(* the end price, an auction is won only if its collateral is debt / kas^2 *)
(* at some price of KAS; any other runs until it expires.                  *)
THEOREM OnlyCoveredAuctionsAreWon ==
  Spec => [][\A id \in DOMAIN auctions \ DOMAIN auctions' :
               \/ IsExpired(auctions[id])
               \/ \E m \in Markets : CoversDebtTwiceDivided(auctions[id], m.kas)]_vars
<1>1. TypeOK /\ [Next]_vars
        => \A id \in DOMAIN auctions \ DOMAIN auctions' :
             \/ IsExpired(auctions[id])
             \/ \E m \in Markets : CoversDebtTwiceDivided(auctions[id], m.kas)
  BY WonAreCovered
<1>. QED
  BY <1>1, TypeInit, TypeNext, PTL DEF Spec

(* The condition is met to the unit: what has one more bid's worth of KAS  *)
(* can be won.                                                             *)

LEMMA FactorsAreOrdered ==
  ASSUME NEW c \in Nat \ {0}, NEW a \in Int, NEW b \in Int, c * a <= c * b
  PROVE  a <= b
<1>1. SUFFICES ASSUME b + 1 <= a PROVE FALSE
  OBVIOUS
<1>2. c * (b + 1) <= c * a /\ c * a \in Int /\ c * b \in Int
  BY <1>1, TimesKeepsOrder
<1>3. c * (b + 1) = c * b + c
  OBVIOUS
<1>. DEFINE x == c * a
            y == c * b
<1>4. x \in Int /\ y \in Int /\ y + c <= x /\ x <= y
  BY <1>2, <1>3
<1>. HIDE DEF x, y
<1>. QED BY <1>4

LEMMA LeastBidIsAffordable ==
  ASSUME NEW percent \in 1 .. 100, NEW kas \in Nat \ {0}, NEW debt \in Nat \ {0},
         NEW collateral \in Nat,
         PriceUnit * PriceUnit * debt + PriceUnit * kas <= kas * kas * collateral
  PROVE  \E bid \in Nat \ {0} :
           /\ bid * kas * percent >= 100 * PriceUnit * debt
           /\ CollateralForBid(bid, percent, kas) <= collateral
<1>. DEFINE U == PriceUnit
            y == kas * percent
            n == 100 * U * debt
            bid == (n + y - 1) \div y
            x == bid * percent * U
            z == 100 * kas
<1>1. U \in Nat \ {0} /\ percent \in Nat \ {0}
  BY AuctionAssumption
<1>2. y \in Nat \ {0} /\ n \in Nat \ {0} /\ z \in Nat \ {0}
  BY <1>1
<1>3. bid \in Nat \ {0} /\ n <= y * bid /\ y * bid <= n + y
  <2>. DEFINE m == n + y - 1
  <2>1. m \in Nat
    BY <1>2
  <2>. DEFINE q == m \div y
  <2>2. bid \in Nat /\ y * bid <= m /\ m < y * bid + y
    <3>1. bid = q
      OBVIOUS
    <3>. HIDE DEF m, y, n, bid
    <3>2. q \in Nat /\ y * q <= m /\ m < y * q + y
      BY <1>2, <2>1
    <3>. HIDE DEF q
    <3>. QED BY <3>1, <3>2
  <2>. HIDE DEF m, y, n
  <2>. DEFINE w == y * bid
  <2>3. w \in Int /\ w <= m /\ m < w + y
    BY <1>2, <2>2
  <2>4. n <= w /\ w <= n + y
    <3>. HIDE DEF w, bid
    <3>. QED BY <1>2, <2>3 DEF m
  <2>5. bid # 0
    <3>. HIDE DEF bid
    <3>1. bid = 0 => w = 0
      BY <1>2
    <3>. QED BY <1>2, <2>4, <3>1
  <2>. QED BY <2>2, <2>4, <2>5
<1>. HIDE DEF bid
<1>4. bid * kas * percent = y * bid
  BY <1>1, <1>3
<1>5. U * (y * bid) <= U * (n + y)
  <2>. DEFINE w == y * bid
  <2>1. w \in Int /\ n + y \in Int /\ w <= n + y
    BY <1>2, <1>3
  <2>. HIDE DEF w, n, y
  <2>. QED BY <1>1, <2>1, TimesKeepsOrder DEF w
<1>6. U * (n + y) <= 100 * (U * U * debt + U * kas)
  <2>1. U * kas \in Nat /\ percent <= 100
    BY <1>1
  <2>2. U * kas * percent <= U * kas * 100
    <3>. DEFINE v == U * kas
    <3>. HIDE DEF v
    <3>1. v * percent <= v * 100
      BY <1>1, <2>1, TimesKeepsOrder DEF v
    <3>. QED BY <3>1 DEF v
  <2>3. U * (n + y) = 100 * (U * U * debt) + U * kas * percent
    BY <1>1
  <2>4. 100 * (U * U * debt + U * kas) = 100 * (U * U * debt) + U * kas * 100
    BY <1>1
  <2>. DEFINE a == 100 * (U * U * debt)
              b == U * kas * percent
              c == U * kas * 100
  <2>5. a \in Int /\ b \in Int /\ c \in Int /\ b <= c
    BY <1>1, <2>2
  <2>6. a + b <= a + c
    <3>. HIDE DEF a, b, c
    <3>. QED BY <2>5
  <2>. QED BY <2>3, <2>4, <2>6
<1>7. 100 * (U * U * debt + U * kas) <= 100 * (kas * kas * collateral)
  <2>. DEFINE l == U * U * debt + U * kas
              r == kas * kas * collateral
  <2>1. l \in Int /\ r \in Int /\ l <= r
    BY <1>1
  <2>. HIDE DEF l, r
  <2>2. 100 * l <= 100 * r
    BY <2>1
  <2>. QED BY <2>2 DEF l, r
<1>8. kas * x <= kas * (z * collateral)
  <2>1. kas * x = U * (y * bid)
    BY <1>1, <1>3
  <2>2. kas * (z * collateral) = 100 * (kas * kas * collateral)
    BY <1>1
  <2>. DEFINE a == U * (y * bid)
              b == U * (n + y)
              c == 100 * (U * U * debt + U * kas)
              d == 100 * (kas * kas * collateral)
  <2>3. a \in Int /\ b \in Int /\ c \in Int /\ d \in Int
    BY <1>1, <1>2, <1>3
  <2>4. a <= b /\ b <= c /\ c <= d
    BY <1>5, <1>6, <1>7
  <2>5. a <= d
    <3>. HIDE DEF a, b, c, d
    <3>. QED BY <2>3, <2>4
  <2>. QED BY <2>1, <2>2, <2>5
<1>9. x \in Int /\ z * collateral \in Int
  BY <1>1, <1>3
<1>10. x <= z * collateral
  <2>. HIDE DEF x, z
  <2>. DEFINE w == z * collateral
  <2>1. w \in Int /\ kas * x <= kas * w
    BY <1>8, <1>9
  <2>. HIDE DEF w
  <2>2. x <= w
    BY <1>9, <2>1, FactorsAreOrdered
  <2>. QED BY <2>2 DEF w
<1>11. x \div z <= collateral
  <2>. HIDE DEF x, z
  <2>1. x \div z <= (z * collateral) \div z
    <3>. DEFINE w == z * collateral
    <3>. HIDE DEF w
    <3>1. x \div z <= w \div z
      BY <1>2, <1>9, <1>10, QuotientGrows DEF w
    <3>. QED BY <3>1 DEF w
  <2>2. (z * collateral) \div z = collateral
    BY <1>2
  <2>. QED BY <2>1, <2>2
<1>12. CollateralForBid(bid, percent, kas) <= collateral
  BY <1>11 DEF CollateralForBid
<1>. QED BY <1>3, <1>4, <1>12

(* For every descent and at any minute before the expiry, an auction whose *)
(* collateral is debt / kas^2 and the KAS of one unit (1 / kas) more has a *)
(* bid that wins it.                                                       *)
THEOREM AmplyCoveredAuctionsCanBeWon ==
  Spec => [](\A id \in DOMAIN auctions, m \in Markets :
               LET a == auctions[id] IN
               /\ ~IsExpired(a)
               /\ PriceUnit * PriceUnit * a.debt + PriceUnit * m.kas
                    <= m.kas * m.kas * a.collateral
               => \E bid \in Nat : Acceptable(a, bid, m.kas))
<1>1. ASSUME TypeOK, NEW id \in DOMAIN auctions, NEW m \in Markets,
             ~IsExpired(auctions[id]),
             PriceUnit * PriceUnit * auctions[id].debt + PriceUnit * m.kas
               <= m.kas * m.kas * auctions[id].collateral
      PROVE  \E bid \in Nat : Acceptable(auctions[id], bid, m.kas)
  <2>. DEFINE a == auctions[id]
              percent == CurrentPricePercent(a)
              kas == m.kas
  <2>1. percent \in 1 .. 100
    BY <1>1, PriceType
  <2>2. /\ kas \in Nat \ {0} /\ a.debt \in Nat \ {0} /\ a.collateral \in Nat
        /\ PriceUnit * PriceUnit * a.debt + PriceUnit * kas
             <= kas * kas * a.collateral
    BY <1>1, CallerAssumption DEF TypeOK, Auction, Market
  <2>. HIDE DEF a, percent, kas
  <2>3. PICK bid \in Nat \ {0} :
          /\ bid * kas * percent >= 100 * PriceUnit * a.debt
          /\ CollateralForBid(bid, percent, kas) <= a.collateral
    BY <2>1, <2>2, LeastBidIsAffordable
  <2>4. Acceptable(a, bid, kas)
    BY <1>1, <2>3 DEF Acceptable, a, percent
  <2>. QED BY <2>4 DEF a, kas
<1>2. TypeOK =>
        (\A id \in DOMAIN auctions, m \in Markets :
           LET a == auctions[id] IN
           /\ ~IsExpired(a)
           /\ PriceUnit * PriceUnit * a.debt + PriceUnit * m.kas
                <= m.kas * m.kas * a.collateral
           => \E bid \in Nat : Acceptable(a, bid, m.kas))
  BY <1>1
<1>. QED BY <1>2, AuctionsTyped, PTL

-----------------------------------------------------------------------------
(* A vault below the trigger does not have that much collateral when KAS   *)
(* is cheap.  With the frozen trigger of 150% and one price, CheapKas says *)
(* that KAS is at 0.5 or below.                                            *)

CheapKas ==
  /\ \A m \in Markets : m.enrk <= PriceUnit /\ m.kfiat <= PriceUnit
  /\ \A m, o \in Markets :
       o.kas * o.kas * (McrTrigger * PriceUnit + 100 * m.kas)
         <= 100 * (PriceUnit * PriceUnit * m.kas)

(* What the auction is about was below the trigger, with its debt at par.  *)
BelowTriggerAtPar(a, kas) ==
  100 * (a.collateral * kas) < McrTrigger * (a.debt * PriceUnit)

StartedBelowTrigger ==
  \A id \in DOMAIN auctions : \E m \in Markets :
    BelowTriggerAtPar(auctions[id], m.kas)

LEMMA CandidatesBelowTriggerAtPar ==
  ASSUME CheapKas, NEW w \in VaultStates, NEW m \in Markets,
         BelowRatio(w, m, McrTrigger)
  PROVE  100 * (w.collateral * m.kas) < McrTrigger * ((w.enrk + w.kfiat) * PriceUnit)
<1>. DEFINE U == PriceUnit
            e == w.enrk * m.enrk
            k == w.kfiat * m.kfiat
            d == w.enrk + w.kfiat
            c == w.collateral * m.kas
<1>1. /\ w.collateral \in Nat /\ w.enrk \in Nat /\ w.kfiat \in Nat
      /\ m.kas \in Nat /\ m.enrk \in Nat /\ m.kfiat \in Nat
      /\ U \in Nat /\ McrTrigger \in Nat
  BY CallerAssumption, AuctionAssumption DEF Market
<1>2. m.enrk <= U /\ m.kfiat <= U
  BY DEF CheapKas
<1>3. e \in Int /\ w.enrk * U \in Int /\ e <= w.enrk * U
  BY <1>1, <1>2, TimesKeepsOrder
<1>4. k \in Int /\ w.kfiat * U \in Int /\ k <= w.kfiat * U
  BY <1>1, <1>2, TimesKeepsOrder
<1>5. d * U = w.enrk * U + w.kfiat * U
  BY <1>1
<1>6. e + k \in Int /\ d * U \in Int /\ e + k <= d * U
  <2>. DEFINE eu == w.enrk * U
              ku == w.kfiat * U
              du == d * U
  <2>. HIDE DEF e, k, eu, ku, du
  <2>1. e \in Int /\ k \in Int /\ eu \in Int /\ ku \in Int
        /\ e <= eu /\ k <= ku /\ du = eu + ku
    BY <1>3, <1>4, <1>5 DEF eu, ku, du
  <2>. QED BY <2>1 DEF du
<1>7. 100 * c < McrTrigger * (e + k)
  BY DEF BelowRatio, CollateralValue, DebtValue
<1>8. c \in Int
  BY <1>1
<1>. HIDE DEF c, d, e, k
<1>9. McrTrigger * (e + k) \in Int /\ McrTrigger * (d * U) \in Int
      /\ McrTrigger * (e + k) <= McrTrigger * (d * U)
  <2>. DEFINE ek == e + k
              du == d * U
  <2>1. ek \in Int /\ du \in Int /\ ek <= du
    BY <1>6
  <2>. HIDE DEF ek, du
  <2>2. McrTrigger * ek \in Int /\ McrTrigger * du \in Int
        /\ McrTrigger * ek <= McrTrigger * du
    BY <1>1, <2>1, TimesKeepsOrder
  <2>. QED BY <2>2 DEF ek, du
<1>10. 100 * c < McrTrigger * (d * U)
  <2>. DEFINE l == McrTrigger * (e + k)
              r == McrTrigger * (d * U)
  <2>1. l \in Int /\ r \in Int /\ l <= r /\ 100 * c < l
    BY <1>7, <1>9
  <2>. HIDE DEF l, r
  <2>2. 100 * c < r
    BY <1>8, <2>1
  <2>. QED BY <2>2 DEF r
<1>. QED BY <1>10 DEF c, d

LEMMA CheapIsUncovered ==
  ASSUME CheapKas, NEW a \in Auction, NEW m \in Markets, NEW o \in Markets,
         BelowTriggerAtPar(a, m.kas)
  PROVE  ~CoversDebtTwiceDivided(a, o.kas)
<1>. DEFINE U == PriceUnit
            M == McrTrigger
            k == m.kas
            s == o.kas * o.kas
            c == a.collateral
            d == a.debt
            t == 100 * (U * U * k)
<1>1. /\ U \in Nat /\ M \in Nat /\ k \in Nat \ {0} /\ s \in Nat
      /\ c \in Nat /\ d \in Nat \ {0} /\ t \in Nat
  BY CallerAssumption, AuctionAssumption DEF Market, Auction
<1>2. s * (M * U + 100 * k) <= t
  BY DEF CheapKas
<1>3. 100 * (c * k) < M * (d * U)
  BY DEF BelowTriggerAtPar
<1>. HIDE DEF U, M, k, s, c, d
<1>. SUFFICES ASSUME U * U * d < s * (c + 1) PROVE FALSE
  BY DEF CoversDebtTwiceDivided, U, s, c, d
<1>4. 100 * k * (U * U * d) < 100 * k * (s * (c + 1))
  <2>. DEFINE l == U * U * d
              r == s * (c + 1)
  <2>1. 100 * k \in Nat /\ l \in Int /\ r \in Int /\ l + 1 <= r
    BY <1>1
  <2>. HIDE DEF l, r
  <2>2. 100 * k * (l + 1) <= 100 * k * r /\ 100 * k * (l + 1) \in Int
        /\ 100 * k * r \in Int
    BY <2>1, TimesKeepsOrder
  <2>3. 100 * k * (l + 1) = 100 * k * l + 100 * k /\ 100 * k * l \in Int
    BY <1>1, <2>1
  <2>4. 100 * k * l < 100 * k * r
    <3>. DEFINE x == 100 * k * l
                y == 100 * k * r
    <3>1. x \in Int /\ y \in Int /\ x + 100 * k <= y
      BY <2>2, <2>3
    <3>. HIDE DEF x, y
    <3>2. x < y
      BY <1>1, <3>1
    <3>. QED BY <3>2 DEF x, y
  <2>. QED BY <2>4 DEF l, r
<1>5. 100 * k * (s * (c + 1)) <= s * (d * (M * U + 100 * k))
  <2>. DEFINE x == 100 * (c * k)
              y == M * (d * U)
              z == d * (M * U + 100 * k)
              h == 100 * k
  <2>1. x + h \in Int /\ z \in Int /\ h \in Nat /\ x \in Int /\ y \in Int
    BY <1>1
  <2>2. z = y + d * h
    BY <1>1
  <2>3. h <= d * h /\ d * h \in Int
    <3>1. 1 <= d /\ h \in Nat
      BY <1>1
    <3>. HIDE DEF h
    <3>2. h * 1 <= h * d /\ h * d \in Int
      BY <1>1, <3>1, TimesKeepsOrder
    <3>3. h * 1 = h /\ h * d = d * h
      BY <1>1, <3>1
    <3>. QED BY <3>2, <3>3
  <2>4. x < y
    BY <1>3
  <2>5. x + h <= z
    <3>. DEFINE g == d * h
    <3>1. /\ x \in Int /\ y \in Int /\ h \in Int /\ g \in Int
          /\ x < y /\ h <= g /\ z = y + g
      BY <2>1, <2>2, <2>3, <2>4
    <3>. HIDE DEF x, y, z, h, g
    <3>. QED BY <3>1
  <2>6. 100 * k * (s * (c + 1)) = s * (x + h)
    BY <1>1
  <2>. HIDE DEF x, z, h
  <2>7. s * (x + h) <= s * z
    BY <1>1, <2>1, <2>5, TimesKeepsOrder
  <2>. QED BY <2>6, <2>7 DEF z
<1>6. s * (d * (M * U + 100 * k)) <= 100 * k * (U * U * d)
  <2>. DEFINE x == s * (M * U + 100 * k)
  <2>1. x \in Int /\ t \in Int /\ x <= t
    BY <1>1, <1>2
  <2>2. s * (d * (M * U + 100 * k)) = d * x
    BY <1>1
  <2>3. 100 * k * (U * U * d) = d * t
    BY <1>1
  <2>. HIDE DEF x, t
  <2>4. d * x <= d * t
    BY <1>1, <2>1, TimesKeepsOrder
  <2>. QED BY <2>2, <2>3, <2>4
<1>. DEFINE p == 100 * k * (U * U * d)
            q == 100 * k * (s * (c + 1))
            r == s * (d * (M * U + 100 * k))
<1>7. p \in Int /\ q \in Int /\ r \in Int
  BY <1>1
<1>8. p < q /\ q <= r /\ r <= p
  BY <1>4, <1>5, <1>6
<1>. HIDE DEF p, q, r
<1>. QED BY <1>7, <1>8

LEMMA StartedBelowTriggerNext ==
  ASSUME CheapKas
  PROVE  TypeOK /\ StartedBelowTrigger /\ [Next]_vars => StartedBelowTrigger'
<1>. SUFFICES ASSUME TypeOK, StartedBelowTrigger, [Next]_vars
              PROVE  StartedBelowTrigger'
  OBVIOUS
<1>1. ASSUME NEW v \in VaultIds, NEW w \in VaultStates, NEW m \in Markets,
             StartLiquidation(v, w, m)
      PROVE  StartedBelowTrigger'
  <2>. DEFINE a == [vaultId |-> v, collateral |-> w.collateral,
                    debt |-> w.enrk + w.kfiat, startedAt |-> now]
  <2>1. BelowTriggerAtPar(a, m.kas)
    BY <1>1, CandidatesBelowTriggerAtPar
       DEF StartLiquidation, Startable, BelowTriggerAtPar
  <2>. HIDE DEF a
  <2>2. auctions'[nextAuctionId] = a
    BY <1>1, Started DEF a
  <2>3. \A id \in DOMAIN auctions' \ {nextAuctionId} :
           id \in DOMAIN auctions /\ auctions'[id] = auctions[id]
    BY <1>1, Started
  <2>. QED BY <2>1, <2>2, <2>3 DEF StartedBelowTrigger
<1>2. ASSUME NEW id \in DOMAIN auctions, Remove(id) PROVE StartedBelowTrigger'
  BY <1>2, Removed DEF StartedBelowTrigger
<1>3. ASSUME NEW d \in ClockSteps, Tick(d) PROVE StartedBelowTrigger'
  BY <1>3 DEF Tick, StartedBelowTrigger
<1>4. CASE UNCHANGED vars
  BY <1>4 DEF vars, StartedBelowTrigger
<1>. QED
  BY <1>1, <1>2, <1>3, <1>4 DEF Next, SubmitBid, FinalizeExpiredAuction

LEMMA CheapAuctionsExpire ==
  ASSUME CheapKas, TypeOK, StartedBelowTrigger, [Next]_vars,
         NEW id \in DOMAIN auctions \ DOMAIN auctions'
  PROVE  IsExpired(auctions[id])
<1>1. PICK m \in Markets : BelowTriggerAtPar(auctions[id], m.kas)
  BY DEF StartedBelowTrigger
<1>2. auctions[id] \in Auction
  BY DEF TypeOK
<1>3. ASSUME NEW o \in Markets PROVE ~CoversDebtTwiceDivided(auctions[id], o.kas)
  BY <1>1, <1>2, CheapIsUncovered
<1>. QED BY <1>3, WonAreCovered

(* If KAS is that cheap no auction is ever won, whatever is bid and        *)
(* whenever: every auction runs until it expires and is cleaned up         *)
(* (submit_bid always answers BidTooLow or BidExceedsCollateral).          *)
THEOREM CheapCollateralIsNeverSold ==
  ASSUME CheapKas
  PROVE  Spec => [][\A id \in DOMAIN auctions \ DOMAIN auctions' :
                      IsExpired(auctions[id])]_vars
<1>1. TypeOK /\ StartedBelowTrigger /\ [Next]_vars
        => \A id \in DOMAIN auctions \ DOMAIN auctions' : IsExpired(auctions[id])
  BY CheapAuctionsExpire
<1>2. Init => StartedBelowTrigger
  BY DEF Init, NoAuctions, StartedBelowTrigger
<1>3. TypeOK /\ StartedBelowTrigger /\ [Next]_vars => StartedBelowTrigger'
  BY StartedBelowTriggerNext
<1>. QED
  BY <1>1, <1>2, <1>3, TypeInit, TypeNext, PTL DEF Spec
=============================================================================
