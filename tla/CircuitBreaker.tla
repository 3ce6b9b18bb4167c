--------------------------- MODULE CircuitBreaker --------------------------
(***************************************************************************)
(* The circuit breaker (circuit_breaker.rs): two checks that pause the     *)
(* protocol, and nothing that resumes it.                                  *)
(*                                                                         *)
(* now is the system clock, which both checks read.  Times are subtracted  *)
(* as u64 (ClockRange stands for 2^64) and the minutes of downtime are cut *)
(* to u16 (MinuteRange is 2^16), as a build without overflow checks does.  *)
(* The times of the last checks are only shown; they are left out.  The    *)
(* operations are put together with their callers in Safeguards.           *)
(***************************************************************************)
EXTENDS PegIndices

CONSTANTS
  PegThreshold, DowntimeThreshold,    \* CircuitBreakerParams
  Minute,                             \* clock ticks in a minute
  ClockRange, MinuteRange

VARIABLES
  state,          \* "Active" or "Paused"
  reason,         \* "none", "peg" or "oracle"
  triggeredAt,
  now             \* the system clock

breakerVars == <<state, reason, triggeredAt>>

Init == state = "Active" /\ reason = "none" /\ triggeredAt = 0

TypeOK ==
  /\ state \in {"Active", "Paused"}
  /\ reason \in {"none", "peg", "oracle"} /\ (state = "Active" <=> reason = "none")
  /\ triggeredAt \in Int

TriggerPause(why) ==
  /\ state' = "Paused"
  /\ reason' = why
  /\ triggeredAt' = now

(* What a deviation cut to its lowest eight bits would be.                 *)
WrappedDeviation(peg) == AbsDeviation(peg) % 256

(* The deviation of the peg as a u8: a conversion from f64 stops at 255.   *)
Deviation(peg) == IF AbsDeviation(peg) > 255 THEN 255 ELSE AbsDeviation(peg)

Breach(peg) == Deviation(peg) > PegThreshold

(* What a check that resumes the protocol when all is well would do.       *)
CheckPegAndResume(peg) ==
  IF Breach(peg) THEN TriggerPause("peg")
  ELSE state' = "Active" /\ UNCHANGED <<reason, triggeredAt>>

CheckPegDeviation(peg) ==
  IF Breach(peg) THEN TriggerPause("peg") ELSE UNCHANGED breakerVars

DowntimeMinutes(lastUpdate) ==
  (((now - lastUpdate) % ClockRange) \div Minute) % MinuteRange

(* What a check of the downtime in the wrong unit would do.                *)
SilentTicks(lastUpdate) == (now - lastUpdate) % ClockRange > DowntimeThreshold

Silent(lastUpdate) == DowntimeMinutes(lastUpdate) > DowntimeThreshold

CheckOracleHealth(lastUpdate) ==
  IF Silent(lastUpdate)
  THEN TriggerPause("oracle") ELSE UNCHANGED breakerVars

RequireActive == state = "Active"
=============================================================================
