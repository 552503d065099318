---------------------------- MODULE MemberState -----------------------------
(***************************************************************************)
(* outbound/pool/shared_state.go: the health record all pools share for    *)
(* one upstream node, and each critical section of its mutex as a function *)
(* of the record.  Time 0 stands for Go's zero time; clocks start at 1.    *)
(***************************************************************************)
EXTENDS Naturals

CONSTANTS Threshold,            \* pool.failure_threshold
          BlacklistDuration,
          TransientCooldown,    \* 0 when the option is unset
          RateLimitCooldown,    \* 0 when the option is unset
          DefaultCooldown       \* defaultTransientCooldown

ASSUME ThresholdPositive == Threshold \in Nat \ {0}
ASSUME DurationsAreNaturals ==
  /\ BlacklistDuration \in Nat \ {0} /\ DefaultCooldown \in Nat \ {0}
  /\ TransientCooldown \in Nat /\ RateLimitCooldown \in Nat

\* failureKind, the outcome of classifyFailure: the text matching that sorts an
\* error into a kind is not modelled, every kind may come out.
FailureKind == {"permanent", "transient", "rateLimit"}

Member == [failures : Nat,        \* permanent failures towards the threshold
           banned   : BOOLEAN,    \* blacklisted
           until    : Nat,        \* blacklistedUntil
           cooldown : BOOLEAN,    \* banIsCooldown
           manual   : Nat]        \* manualUntil

Healthy == [failures |-> 0, banned |-> FALSE, until |-> 0, cooldown |-> FALSE, manual |-> 0]

\* failurePolicy.cooldownFor
CooldownFor(kind) ==
  LET transient == IF TransientCooldown = 0 THEN DefaultCooldown ELSE TransientCooldown
  IN  IF kind = "rateLimit" /\ RateLimitCooldown > 0 THEN RateLimitCooldown ELSE transient

\* Seeded fault: a fresh ban replaces a longer one.
ExtendedBlindly(m, until, cooldown) ==
  [m EXCEPT !.banned = TRUE, !.until = until, !.cooldown = cooldown]

\* The later of the running ban and the new one, each with its own nature.
Extended(m, until, cooldown) ==
  IF m.banned /\ m.until > until THEN m
  ELSE [m EXCEPT !.banned = TRUE, !.until = until, !.cooldown = cooldown]

\* recordFailure at time t.
RecordFailure(m, kind, t) ==
  IF kind # "permanent" THEN Extended(m, t + CooldownFor(kind), TRUE)
  ELSE IF m.failures + 1 >= Threshold
       THEN Extended([m EXCEPT !.failures = 0], t + BlacklistDuration, FALSE)
       ELSE [m EXCEPT !.failures = @ + 1]

\* Does this failure impose a ban, i.e. is `until` set?
Bans(m, kind) == kind # "permanent" \/ m.failures + 1 >= Threshold

\* blacklistNow: keeps the later expiry, and always ends up a permanent ban.
BlacklistNow(m, until) ==
  [m EXCEPT !.failures = 0, !.banned = TRUE, !.cooldown = FALSE,
            !.until = IF m.banned /\ m.until > until THEN m.until ELSE until]

RecordSuccess(m) == [m EXCEPT !.failures = 0]

\* isBlacklisted at time t: a ban that ran out is cleared on sight.
RanOut(m, t) == m.banned /\ ~(t < m.until)
IsBlacklisted(m, t) ==
  IF RanOut(m, t)
  THEN [m EXCEPT !.banned = FALSE, !.until = 0, !.cooldown = FALSE, !.manual = 0]
  ELSE m

ForceRelease(m) == Healthy

\* releaseIfPermanent at time t keeps operator bans and live cooldowns.
Parked(m, t) == t < m.manual \/ (m.banned /\ m.cooldown /\ t < m.until)

\* Seeded faults: the operator's ban is not looked at; live cooldowns are not.
ReleaseAnyPermanent(m, t) ==
  IF m.banned /\ m.cooldown /\ t < m.until THEN m ELSE Healthy

ReleaseCooldowns(m, t) == IF t < m.manual THEN m ELSE Healthy

ReleaseIfPermanent(m, t) == IF Parked(m, t) THEN m ELSE Healthy

\* blacklistSharedMember: the operator's ban replaces whatever runs.
BlacklistByOperator(m, until) ==
  [failures |-> 0, banned |-> TRUE, until |-> until, cooldown |-> FALSE, manual |-> until]
=============================================================================
