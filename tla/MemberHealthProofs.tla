------------------------- MODULE MemberHealthProofs -------------------------
(***************************************************************************)
(* Proofs about MemberHealth, for any number of threads, any policy and    *)
(* any clock bound.                                                        *)
(*                                                                         *)
(* OperatorBanHolds is not inductive: a selection or an automatic release  *)
(* acts on a clock reading it took earlier.  BanInv adds that such a       *)
(* reading is never in the future and that the record's manualUntil is the *)
(* operator's expiry while that ban runs.  With it CooldownSurvives and    *)
(* OnlyReleasesShorten follow step by step.                                *)
(*                                                                         *)
(* MonitorInStep holds because of MirrorInv: entry and record differ only  *)
(* while a copy is on its way, and unless updates crossed there is one     *)
(* such thread and it brings the state of the record.                      *)
(***************************************************************************)
EXTENDS MemberHealth, TLAPS

ReadingsArePast == \A t \in Thread : job[t].op \in {"check", "autoRelease"} => job[t].arg <= now

OperatorBanRecorded ==
  now < operatorUntil => /\ member.banned
                         /\ member.until >= operatorUntil
                         /\ member.manual = operatorUntil

BanInv == TypeOK /\ ReadingsArePast /\ OperatorBanRecorded

\* Every kind of failure has a cooldown, possibly zero.
LEMMA CooldownType == ASSUME NEW kind PROVE CooldownFor(kind) \in Nat
BY DurationsAreNaturals DEF CooldownFor

\* The record a release leaves.
LEMMA HealthyType == Healthy \in Member /\ Healthy.failures < Threshold
BY ThresholdPositive DEF Healthy, Member

\* What a later ban leaves of the record: never an earlier expiry.
LEMMA ExtendedFacts ==
  ASSUME NEW m \in Member, NEW until \in Nat, NEW c \in BOOLEAN
  PROVE  /\ Extended(m, until, c) \in Member
         /\ Extended(m, until, c).failures = m.failures
         /\ Extended(m, until, c).manual = m.manual
         /\ Extended(m, until, c).banned
         /\ m.banned => Extended(m, until, c).until >= m.until
<1>1. CASE m.banned /\ m.until > until
  BY <1>1 DEF Extended, Member
<1>2. CASE ~(m.banned /\ m.until > until)
  <2> DEFINE n == [m EXCEPT !.banned = TRUE, !.until = until, !.cooldown = c]
  <2>1. Extended(m, until, c) = n
    BY <1>2 DEF Extended
  <2>2. n \in Member
    BY DEF Member
  <2>3. n.failures = m.failures /\ n.manual = m.manual /\ n.banned /\ n.until = until
    BY DEF Member
  <2>4. m.banned => until >= m.until
    BY <1>2 DEF Member
  <2> HIDE DEF n
  <2> QED BY <2>1, <2>2, <2>3, <2>4
<1> QED BY <1>1, <1>2

\* recordFailure never ends or shortens a ban and leaves the operator's mark alone.
LEMMA RecordFailureFacts ==
  ASSUME NEW m \in Member, m.failures < Threshold, NEW kind \in FailureKind, NEW t \in Nat
  PROVE  /\ RecordFailure(m, kind, t) \in Member
         /\ RecordFailure(m, kind, t).failures < Threshold
         /\ RecordFailure(m, kind, t).manual = m.manual
         /\ m.banned => /\ RecordFailure(m, kind, t).banned
                        /\ RecordFailure(m, kind, t).until >= m.until
<1>1. CASE kind # "permanent"
  <2>1. t + CooldownFor(kind) \in Nat
    BY CooldownType
  <2>2. RecordFailure(m, kind, t) = Extended(m, t + CooldownFor(kind), TRUE)
    BY <1>1 DEF RecordFailure
  <2> DEFINE e == Extended(m, t + CooldownFor(kind), TRUE)
  <2>3. e \in Member /\ e.failures = m.failures /\ e.manual = m.manual /\ e.banned
        /\ (m.banned => e.until >= m.until)
    BY <2>1, ExtendedFacts
  <2> HIDE DEF e
  <2> QED BY <2>2, <2>3 DEF e
<1>2. CASE kind = "permanent" /\ m.failures + 1 >= Threshold
  <2> DEFINE n == [m EXCEPT !.failures = 0]
  <2>1. n \in Member /\ n.failures = 0 /\ n.manual = m.manual /\ (n.banned <=> m.banned)
        /\ n.until = m.until
    BY DEF Member
  <2>2. RecordFailure(m, kind, t) = Extended(n, t + BlacklistDuration, FALSE)
    BY <1>2 DEF RecordFailure
  <2>3. t + BlacklistDuration \in Nat
    BY DurationsAreNaturals
  <2> HIDE DEF n
  <2>4. /\ Extended(n, t + BlacklistDuration, FALSE) \in Member
        /\ Extended(n, t + BlacklistDuration, FALSE).failures = n.failures
        /\ Extended(n, t + BlacklistDuration, FALSE).manual = n.manual
        /\ Extended(n, t + BlacklistDuration, FALSE).banned
        /\ n.banned => Extended(n, t + BlacklistDuration, FALSE).until >= n.until
    BY <2>1, <2>3, ExtendedFacts
  <2>5. 0 < Threshold
    BY ThresholdPositive
  <2> QED BY <2>1, <2>2, <2>4, <2>5, Zenon
<1>3. CASE kind = "permanent" /\ ~(m.failures + 1 >= Threshold)
  BY <1>3, ThresholdPositive DEF RecordFailure, Member
<1> QED BY <1>1, <1>2, <1>3

\* blacklistNow bans, never for less than before, and leaves the operator's mark alone.
LEMMA BlacklistNowFacts ==
  ASSUME NEW m \in Member, NEW until \in Nat
  PROVE  /\ BlacklistNow(m, until) \in Member
         /\ BlacklistNow(m, until).failures = 0
         /\ BlacklistNow(m, until).manual = m.manual
         /\ BlacklistNow(m, until).banned
         /\ m.banned => BlacklistNow(m, until).until >= m.until
<1> DEFINE u == IF m.banned /\ m.until > until THEN m.until ELSE until
           n == [m EXCEPT !.failures = 0, !.banned = TRUE, !.cooldown = FALSE, !.until = u]
<1>1. BlacklistNow(m, until) = n
  BY DEF BlacklistNow
<1>2. u \in Nat /\ (m.banned => u >= m.until)
  BY DEF Member
<1> HIDE DEF u
<1>3. n \in Member
  BY <1>2 DEF Member
<1>4. n.failures = 0 /\ n.manual = m.manual /\ n.banned /\ n.until = u
  BY <1>2 DEF Member
<1> HIDE DEF n
<1> QED BY <1>1, <1>2, <1>3, <1>4

\* What a reset leaves in a thread: no reading of the clock, no change of the record.
LEMMA LeftJobs ==
  ASSUME NEW j \in Left
  PROVE  /\ j \in [op : Op, arg : Nat, length : Nat]
         /\ j.op \in {"idle", "late", "showOperatorBan"}
<1>1. CASE j = Idle \/ j = Late
  BY <1>1 DEF Idle, Late, Job, JobWithLength, Op
<1>2. ASSUME NEW d \in BanLengths, j = Job("showOperatorBan", d)
      PROVE  /\ j \in [op : Op, arg : Nat, length : Nat]
             /\ j.op \in {"idle", "late", "showOperatorBan"}
  BY <1>2, InputsTyped DEF Job, JobWithLength, Op
<1> QED BY <1>1, <1>2 DEF Left

-----------------------------------------------------------------------------
\* Every step keeps BanInv.
LEMMA StepKeepsBanInv == BanInv /\ [Next]_vars => BanInv'
<1> SUFFICES ASSUME BanInv, [Next]_vars PROVE BanInv'
  OBVIOUS
<1> USE DEF BanInv
<1>0. now \in Nat /\ member \in Member /\ member.failures < Threshold
      /\ operatorUntil \in Nat /\ coolingUntil \in Nat
  BY DEF TypeOK
<1>crossed. crossed' \in BOOLEAN
  BY DEF Next, Cross, Reset, vars, TypeOK
<1> USE <1>crossed
<1>1. ASSUME NEW t \in Thread, NEW kind \in Kinds, RecordFailureStep(t, kind) PROVE BanInv'
  <2>1. kind \in FailureKind
    BY InputsTyped
  <2>2. member' = RecordFailure(member, kind, now)
    BY <1>1 DEF RecordFailureStep
  <2>3. /\ member' \in Member /\ member'.failures < Threshold
        /\ member'.manual = member.manual
        /\ member.banned => member'.banned /\ member'.until >= member.until
    BY <1>0, <2>1, <2>2, RecordFailureFacts
  <2>4. member'.until \in Nat
    BY <2>3 DEF Member
  <2>5. Job("showBan", member'.until) \in [op : Op, arg : Nat, length : Nat]
        /\ Idle \in [op : Op, arg : Nat, length : Nat]
        /\ Job("showBan", member'.until).op = "showBan" /\ Idle.op = "idle"
    BY <2>4 DEF Job, JobWithLength, Op, Idle
  <2>6. \E j \in {Job("showBan", member'.until), Idle} : job' = [job EXCEPT ![t] = j]
    BY <1>1 DEF RecordFailureStep, Set
  <2>7. coolingUntil' \in Nat
    BY <1>0, <1>1, CooldownType, DurationsAreNaturals DEF RecordFailureStep, TakenOver
  <2>8. now' = now /\ view' = view /\ operatorUntil' = operatorUntil
    BY <1>1 DEF RecordFailureStep
  <2>9. TypeOK'
    BY <2>3, <2>5, <2>6, <2>7, <2>8 DEF TypeOK
  <2>10. ReadingsArePast'
    BY <2>5, <2>6, <2>8 DEF ReadingsArePast, TypeOK
  <2>11. OperatorBanRecorded'
    BY <1>0, <2>3, <2>8, <2>4 DEF OperatorBanRecorded, Member
  <2> QED BY <2>9, <2>10, <2>11
<1>2. ASSUME NEW t \in Thread, BeginPinFailure(t) PROVE BanInv'
  <2>1. Job("pinFailure", now + BlacklistDuration) \in [op : Op, arg : Nat, length : Nat]
        /\ Job("pinFailure", now + BlacklistDuration).op = "pinFailure"
    BY <1>0, DurationsAreNaturals DEF Job, JobWithLength, Op
  <2> QED BY <1>2, <2>1 DEF BeginPinFailure, Set, history, TypeOK, ReadingsArePast,
                            OperatorBanRecorded
<1>3. ASSUME NEW t \in Thread, PinFailure(t) PROVE BanInv'
  <2>1. job[t].arg \in Nat
    BY DEF TypeOK
  <2>2. member' = BlacklistNow(member, job[t].arg)
    BY <1>3 DEF PinFailure
  <2>3. /\ member' \in Member /\ member'.failures = 0
        /\ member'.manual = member.manual /\ member'.banned
        /\ member.banned => member'.until >= member.until
    BY <1>0, <2>1, <2>2, BlacklistNowFacts
  <2>4. member'.until \in Nat
    BY <2>3 DEF Member
  <2>5. Job("showBan", member'.until) \in [op : Op, arg : Nat, length : Nat]
        /\ Job("showBan", member'.until).op = "showBan"
    BY <2>4 DEF Job, JobWithLength, Op
  <2>6. /\ job' = [job EXCEPT ![t] = Job("showBan", member'.until)]
        /\ now' = now /\ view' = view /\ operatorUntil' = operatorUntil
        /\ coolingUntil' \in Nat
    BY <1>0, <1>3 DEF PinFailure, Set, TakenOver
  <2>7. TypeOK'
    BY <2>3, <2>5, <2>6, ThresholdPositive DEF TypeOK
  <2>8. ReadingsArePast'
    BY <2>5, <2>6 DEF ReadingsArePast, TypeOK
  <2>9. OperatorBanRecorded'
    BY <1>0, <2>3, <2>4, <2>6 DEF OperatorBanRecorded, Member
  <2> QED BY <2>7, <2>8, <2>9
<1>4. ASSUME NEW t \in Thread, Success(t) PROVE BanInv'
  <2>1. /\ RecordSuccess(member) \in Member /\ RecordSuccess(member).failures = 0
        /\ RecordSuccess(member).banned = member.banned
        /\ RecordSuccess(member).until = member.until
        /\ RecordSuccess(member).manual = member.manual
    BY <1>0 DEF RecordSuccess, Member
  <2> QED BY <1>4, <2>1, ThresholdPositive DEF Success, history, TypeOK, ReadingsArePast,
                                               OperatorBanRecorded
<1>5. ASSUME NEW t \in Thread, BeginCheck(t) \/ BeginAutoRelease(t) PROVE BanInv'
  <2>1. \A op \in Op : /\ Job(op, now) \in [op : Op, arg : Nat, length : Nat]
                       /\ Job(op, now).arg = now
    BY <1>0 DEF Job, JobWithLength
  <2>2. \E op \in Op : job' = [job EXCEPT ![t] = Job(op, now)]
    BY <1>5 DEF BeginCheck, BeginAutoRelease, Set, Op
  <2>3. UNCHANGED <<now, member, view, operatorUntil, coolingUntil>>
    BY <1>5 DEF BeginCheck, BeginAutoRelease, history
  <2>4. TypeOK'
    BY <2>1, <2>2, <2>3 DEF TypeOK
  <2>5. ReadingsArePast'
    BY <1>0, <2>1, <2>2, <2>3 DEF ReadingsArePast, TypeOK
  <2> QED BY <2>3, <2>4, <2>5 DEF OperatorBanRecorded
<1>6. ASSUME NEW t \in Thread, Check(t) \/ AutoRelease(t) PROVE BanInv'
  <2>1. job[t].arg \in Nat /\ job[t].arg <= now
    BY <1>6 DEF Check, AutoRelease, TypeOK, ReadingsArePast
  <2>2. member' \in Member /\ member'.failures < Threshold
    <3>1. CASE member' = IsBlacklisted(member, job[t].arg)
      BY <1>0, <3>1 DEF IsBlacklisted, Member
    <3>2. CASE member' = ReleaseIfPermanent(member, job[t].arg)
      BY <1>0, <3>2, HealthyType DEF ReleaseIfPermanent
    <3> QED BY <1>6, <3>1, <3>2 DEF Check, AutoRelease
  <2>3. now < operatorUntil => member' = member
    BY <1>0, <1>6, <2>1 DEF Check, AutoRelease, IsBlacklisted, RanOut, ReleaseIfPermanent,
                            Parked, OperatorBanRecorded, Member
  <2>4. Job("showClear", 0) \in [op : Op, arg : Nat, length : Nat]
        /\ Idle \in [op : Op, arg : Nat, length : Nat]
        /\ Job("showClear", 0).op = "showClear" /\ Idle.op = "idle"
    BY DEF Job, JobWithLength, Op, Idle
  <2>5. /\ \E j \in {Job("showClear", 0), Idle} : job' = [job EXCEPT ![t] = j]
        /\ UNCHANGED <<now, view, operatorUntil, coolingUntil>>
    BY <1>6 DEF Check, AutoRelease, Set, history
  <2>6. TypeOK'
    BY <2>2, <2>4, <2>5 DEF TypeOK
  <2>7. ReadingsArePast'
    BY <2>4, <2>5 DEF ReadingsArePast, TypeOK
  <2> QED BY <2>3, <2>5, <2>6, <2>7 DEF OperatorBanRecorded
<1>7. ASSUME NEW t \in Thread, OperatorRelease(t) PROVE BanInv'
  <2>1. Job("showClear", 0) \in [op : Op, arg : Nat, length : Nat]
        /\ Job("showClear", 0).op = "showClear"
    BY DEF Job, JobWithLength, Op
  <2> QED BY <1>0, <1>7, <2>1, HealthyType
          DEF OperatorRelease, ForceRelease, Set, TypeOK, ReadingsArePast, OperatorBanRecorded
<1>8. ASSUME NEW t \in Thread, NEW d \in BanLengths, BeginOperatorBan(t, d) PROVE BanInv'
  <2>1. d \in Nat
    BY InputsTyped
  <2>2. JobWithLength("operatorBan", now + d, d) \in [op : Op, arg : Nat, length : Nat]
        /\ JobWithLength("operatorBan", now + d, d).op = "operatorBan"
    BY <1>0, <2>1 DEF JobWithLength, Op
  <2> QED BY <1>8, <2>2 DEF BeginOperatorBan, Set, history, TypeOK, ReadingsArePast,
                            OperatorBanRecorded
<1>9. ASSUME NEW t \in Thread, OperatorBan(t) PROVE BanInv'
  <2>1. job[t].arg \in Nat /\ job[t].length \in Nat
    BY DEF TypeOK
  <2>2. Job("showOperatorBan", job[t].length) \in [op : Op, arg : Nat, length : Nat]
        /\ Job("showOperatorBan", job[t].length).op = "showOperatorBan"
        /\ Idle \in [op : Op, arg : Nat, length : Nat] /\ Idle.op = "idle"
    BY <2>1 DEF Job, JobWithLength, Op, Idle
  <2>3. /\ member' \in Member /\ member'.failures = 0 /\ member'.banned
        /\ member'.until = job[t].arg /\ member'.manual = job[t].arg
        /\ operatorUntil' = job[t].arg /\ coolingUntil' = 0
        /\ \E j \in {Idle, Job("showOperatorBan", job[t].length)} : job' = [job EXCEPT ![t] = j]
        /\ now' = now /\ view' = view
    BY <1>9, <2>1 DEF OperatorBan, BlacklistByOperator, Member, Set
  <2>4. TypeOK'
    BY <2>1, <2>2, <2>3, ThresholdPositive DEF TypeOK
  <2>5. ReadingsArePast'
    BY <2>2, <2>3 DEF ReadingsArePast, TypeOK
  <2> QED BY <2>1, <2>3, <2>4, <2>5 DEF OperatorBanRecorded
<1>10. ASSUME NEW t \in Thread, Show(t) PROVE BanInv'
  <2>1. Idle \in [op : Op, arg : Nat, length : Nat] /\ Idle.op = "idle"
    BY DEF Job, JobWithLength, Op, Idle
  <2>2. job[t].arg \in Nat
    BY DEF TypeOK
  <2>3. view' \in [banned : BOOLEAN, until : Nat]
    <3>1. \/ view' = NotBanned \/ view' = Banned(job[t].arg) \/ view' = Banned(now + job[t].arg)
      BY <1>10 DEF Show
    <3>2. NotBanned \in [banned : BOOLEAN, until : Nat]
          /\ \A u \in Nat : Banned(u) \in [banned : BOOLEAN, until : Nat]
      BY DEF NotBanned, Banned
    <3> QED BY <1>0, <2>2, <3>1, <3>2
  <2> QED BY <1>10, <2>1, <2>3 DEF Show, Set, history, TypeOK, ReadingsArePast,
                                   OperatorBanRecorded
<1>11. CASE Tick
  BY <1>0, <1>11 DEF Tick, history, TypeOK, ReadingsArePast, OperatorBanRecorded
<1>12. CASE UNCHANGED vars
  BY <1>12 DEF vars, TypeOK, ReadingsArePast, OperatorBanRecorded
<1>13. ASSUME NEW t \in Thread, NEW d \in BanLengths, BeginLateBan(t, d) PROVE BanInv'
  <2>1. Job("lateBan", now + d) \in [op : Op, arg : Nat, length : Nat]
        /\ Job("lateBan", now + d).op = "lateBan"
    BY <1>0, InputsTyped DEF Job, JobWithLength, Op
  <2> QED BY <1>13, <2>1 DEF BeginLateBan, Set, history, TypeOK, ReadingsArePast,
                             OperatorBanRecorded
<1>14. CASE Reset
  <2>1. \A t \in Thread : job'[t] \in Left
    BY <1>14 DEF Reset
  <2>2. \A j \in Left : /\ j \in [op : Op, arg : Nat, length : Nat]
                        /\ j.op \notin {"check", "autoRelease"}
    BY LeftJobs
  <2>3. job' \in [Thread -> [op : Op, arg : Nat, length : Nat]]
    BY <1>14, <2>2 DEF Reset
  <2>4. member' \in Member /\ member'.failures < Threshold
    BY <1>14, HealthyType DEF Reset
  <2>5. view' \in [banned : BOOLEAN, until : Nat]
    BY <1>14 DEF Reset, NotBanned
  <2>6. now' = now /\ operatorUntil' = 0 /\ coolingUntil' = 0
    BY <1>14 DEF Reset
  <2>7. TypeOK'
    BY <1>0, <2>3, <2>4, <2>5, <2>6 DEF TypeOK
  <2> QED BY <1>0, <2>1, <2>2, <2>6, <2>7 DEF ReadingsArePast, OperatorBanRecorded
<1> QED BY <1>1, <1>2, <1>3, <1>4, <1>5, <1>6, <1>7, <1>8, <1>9, <1>10, <1>11, <1>12, <1>13,
           <1>14 DEF Next, ThreadStep

\* A fresh member is not banned and no thread holds a reading of the clock.
LEMMA InitHasBanInv == Init => BanInv
<1> SUFFICES ASSUME Init PROVE BanInv
  OBVIOUS
<1>1. crossed \in BOOLEAN
  BY Zenon DEF Init
<1>2. Idle \in [op : Op, arg : Nat, length : Nat] /\ Idle.op = "idle"
  BY DEF Idle, Job, JobWithLength, Op
<1>3. NotBanned \in [banned : BOOLEAN, until : Nat]
  BY DEF NotBanned
<1>4. TypeOK
  BY <1>1, <1>2, <1>3, HealthyType DEF Init, TypeOK
<1> QED BY <1>2, <1>4 DEF Init, BanInv, ReadingsArePast, OperatorBanRecorded

\* An operator's ban holds to its end against every dial, probe, selection and
\* recovery, with any number of them in flight (blacklistSharedMember,
\* releaseIfPermanent, isBlacklisted).
THEOREM OperatorBanIsKept == Spec => []OperatorBanHolds
<1>1. BanInv => OperatorBanHolds
  BY DEF BanInv, OperatorBanRecorded, OperatorBanHolds
<1> QED BY <1>1, InitHasBanInv, StepKeepsBanInv, PTL DEF Spec

-----------------------------------------------------------------------------
(* Cooldowns and the length of a ban. *)

\* What recordFailure does to the ban: a failure that asks for a shorter one than is running
\* changes nothing of it, one that bans sets its own, any other leaves it alone.
LEMMA RecordFailureBan ==
  ASSUME NEW m \in Member, NEW kind \in FailureKind, NEW t \in Nat
  PROVE  LET n == RecordFailure(m, kind, t)
             until == t + (IF kind # "permanent" THEN CooldownFor(kind) ELSE BlacklistDuration)
         IN  IF Bans(m, kind) /\ ~(m.banned /\ m.until > until)
             THEN n.banned /\ n.until = until /\ n.cooldown = (kind # "permanent")
             ELSE n.banned = m.banned /\ n.until = m.until /\ n.cooldown = m.cooldown
<1> DEFINE until == t + (IF kind # "permanent" THEN CooldownFor(kind) ELSE BlacklistDuration)
<1>1. CASE kind # "permanent"
  <2>1. RecordFailure(m, kind, t) = Extended(m, until, TRUE) /\ Bans(m, kind)
    BY <1>1 DEF RecordFailure, Bans
  <2> HIDE DEF until
  <2>2. CASE m.banned /\ m.until > until
    BY <2>1, <2>2 DEF Extended, until
  <2>3. CASE ~(m.banned /\ m.until > until)
    BY <1>1, <2>1, <2>3 DEF Extended, Member, until
  <2> QED BY <2>2, <2>3
<1>2. CASE kind = "permanent" /\ m.failures + 1 >= Threshold
  <2> DEFINE z == [m EXCEPT !.failures = 0]
  <2>1. RecordFailure(m, kind, t) = Extended(z, until, FALSE) /\ Bans(m, kind)
    BY <1>2 DEF RecordFailure, Bans
  <2>2. z \in Member /\ z.banned = m.banned /\ z.until = m.until /\ z.cooldown = m.cooldown
    BY DEF Member
  <2> HIDE DEF until, z
  <2>3. CASE m.banned /\ m.until > until
    BY <2>1, <2>2, <2>3 DEF Extended, until
  <2>4. CASE ~(m.banned /\ m.until > until)
    BY <1>2, <2>1, <2>2, <2>4 DEF Extended, Member, until
  <2> QED BY <2>3, <2>4
<1>3. CASE kind = "permanent" /\ ~(m.failures + 1 >= Threshold)
  BY <1>3 DEF RecordFailure, Bans, Member
<1> QED BY <1>1, <1>2, <1>3

\* A selection or an automatic release that acts on a clock reading of the past does not
\* see a running ban as over.
LEMMA RunningBanIsSeen ==
  ASSUME BanInv, NEW t \in Thread, Check(t) \/ AutoRelease(t), member.banned, now < member.until
  PROVE  /\ Check(t) => member' = member
         /\ member.cooldown => member' = member
<1>1. job[t].arg \in Nat /\ job[t].arg <= now /\ now \in Nat /\ member.until \in Nat
  BY DEF BanInv, ReadingsArePast, Check, AutoRelease, TypeOK, Member
<1> QED BY <1>1 DEF Check, AutoRelease, IsBlacklisted, RanOut, ReleaseIfPermanent, Parked

\* No automatic path ends a cooldown early.
LEMMA StepKeepsCooldown == BanInv /\ CooldownSurvives /\ [Next]_vars => CooldownSurvives'
<1> SUFFICES ASSUME BanInv, CooldownSurvives, [Next]_vars PROVE CooldownSurvives'
  OBVIOUS
<1>0. now \in Nat /\ member \in Member /\ member.until \in Nat /\ coolingUntil \in Nat
  BY DEF BanInv, TypeOK, Member
<1>1. ASSUME NEW t \in Thread, NEW kind \in Kinds, RecordFailureStep(t, kind) PROVE CooldownSurvives'
  <2> DEFINE until == now + (IF kind # "permanent" THEN CooldownFor(kind) ELSE BlacklistDuration)
  <2>1. kind \in FailureKind /\ until \in Nat /\ now' = now
    BY <1>0, <1>1, InputsTyped, CooldownType, DurationsAreNaturals DEF RecordFailureStep
  <2>2. member' = RecordFailure(member, kind, now)
    BY <1>1 DEF RecordFailureStep
  <2>3. IF Bans(member, kind) /\ ~(member.banned /\ member.until > until)
        THEN member'.banned /\ member'.until = until /\ member'.cooldown = (kind # "permanent")
        ELSE member'.banned = member.banned /\ member'.until = member.until /\ member'.cooldown = member.cooldown
    BY <1>0, <2>1, <2>2, RecordFailureBan
  <2>4. coolingUntil' = IF Bans(member, kind) /\ ~(member.banned /\ member.until > until)
                        THEN (IF kind # "permanent" THEN until ELSE 0) ELSE coolingUntil
    BY <1>1 DEF RecordFailureStep, TakenOver, Bans
  <2> HIDE DEF until
  <2>5. CASE Bans(member, kind) /\ ~(member.banned /\ member.until > until)
    <3>1. CASE kind # "permanent"
      <4>1. member'.banned /\ member'.cooldown /\ member'.until = until /\ coolingUntil' = until
        BY <2>3, <2>4, <2>5, <3>1
      <4> QED BY <2>1, <4>1 DEF CooldownSurvives
    <3>2. CASE kind = "permanent"
      BY <1>0, <2>1, <2>4, <2>5, <3>2 DEF CooldownSurvives
    <3> QED BY <3>1, <3>2
  <2>6. CASE ~(Bans(member, kind) /\ ~(member.banned /\ member.until > until))
    BY <2>1, <2>3, <2>4, <2>6 DEF CooldownSurvives
  <2> QED BY <2>5, <2>6
<1>2. ASSUME NEW t \in Thread, PinFailure(t) \/ OperatorRelease(t) \/ OperatorBan(t) PROVE CooldownSurvives'
  BY <1>0, <1>2 DEF PinFailure, OperatorRelease, OperatorBan, CooldownSurvives
<1>3. ASSUME NEW t \in Thread, Success(t) PROVE CooldownSurvives'
  BY <1>0, <1>3 DEF Success, RecordSuccess, Member, history, CooldownSurvives
<1>4. ASSUME NEW t \in Thread, Check(t) \/ AutoRelease(t) PROVE CooldownSurvives'
  <2>1. UNCHANGED <<now, coolingUntil>>
    BY <1>4 DEF Check, AutoRelease, history
  <2>2. now < coolingUntil => member' = member
    BY <1>0, <1>4, RunningBanIsSeen DEF CooldownSurvives
  <2> QED BY <2>1, <2>2 DEF CooldownSurvives
<1>5. CASE UNCHANGED <<member, coolingUntil>> /\ (now' = now \/ now' = now + 1)
  BY <1>0, <1>5 DEF CooldownSurvives
<1>6. CASE Reset
  BY <1>0, <1>6 DEF Reset, CooldownSurvives
<1> QED BY <1>1, <1>2, <1>3, <1>4, <1>5, <1>6
        DEF Next, ThreadStep, Tick, BeginPinFailure, BeginCheck, BeginAutoRelease,
             BeginOperatorBan, BeginLateBan, Show, history, vars

\* A cooldown keeps the node out of rotation to its end, however many probes, recoveries and
\* selections act on clock readings of any age (isBlacklisted, releaseIfPermanent).
THEOREM CooldownIsKept == Spec => []CooldownSurvives
<1>1. Init => CooldownSurvives
  BY DEF Init, CooldownSurvives
<1> QED BY <1>1, InitHasBanInv, StepKeepsBanInv, StepKeepsCooldown, PTL DEF Spec

\* No failure, success or selection shortens a ban that runs, only a release, the
\* operator's own ban or a reset (recordFailure, blacklistNow, isBlacklisted).
THEOREM BansOnlyGrow == Spec => OnlyReleasesShorten
<1> DEFINE Shortens ==
      member.banned /\ now < member.until /\ ~(member'.banned /\ member'.until >= member.until)
<1>1. BanInv /\ [Next]_vars
        => [Shortens => Reset \/ \E t \in Thread : AutoRelease(t) \/ OperatorRelease(t) \/ OperatorBan(t)]_vars
  <2> SUFFICES ASSUME BanInv, [Next]_vars, Shortens
               PROVE  Reset \/ \E t \in Thread : AutoRelease(t) \/ OperatorRelease(t) \/ OperatorBan(t)
    OBVIOUS
  <2>0. now \in Nat /\ member \in Member /\ member.until \in Nat /\ member.failures < Threshold
    BY DEF BanInv, TypeOK, Member
  <2>1. ASSUME member' = member PROVE FALSE
    BY <2>0, <2>1
  <2>2. ASSUME NEW t \in Thread, NEW kind \in Kinds, RecordFailureStep(t, kind) PROVE FALSE
    BY <2>0, <2>2, RecordFailureFacts, InputsTyped DEF RecordFailureStep
  <2>3. ASSUME NEW t \in Thread, PinFailure(t) PROVE FALSE
    <3>1. job[t].arg \in Nat
      BY DEF BanInv, TypeOK
    <3> QED BY <2>0, <2>3, <3>1, BlacklistNowFacts DEF PinFailure
  <2>4. ASSUME NEW t \in Thread, Success(t) PROVE FALSE
    BY <2>0, <2>4 DEF Success, RecordSuccess, Member
  <2>5. ASSUME NEW t \in Thread, Check(t) PROVE FALSE
    BY <2>1, <2>5, RunningBanIsSeen
  <2> QED BY <2>1, <2>2, <2>3, <2>4, <2>5
          DEF Next, ThreadStep, Tick, BeginPinFailure, BeginCheck, BeginAutoRelease,
               BeginOperatorBan, BeginLateBan, Show, vars
<1> QED BY <1>1, InitHasBanInv, StepKeepsBanInv, PTL DEF Spec, OnlyReleasesShorten

-----------------------------------------------------------------------------
(* What the dashboard shows. *)

\* What a thread is about to copy is the member's ban, with an expiry that is not early.
Announces(j) ==
  /\ j.op = "showBan" => member.banned /\ j.arg >= member.until
  /\ j.op = "showClear" => ~member.banned
  /\ j.op = "showOperatorBan" => member.banned /\ now + j.arg >= member.until

Mirrored == view.banned = member.banned /\ (member.banned => view.until >= member.until)

\* MonitorInStep is not inductive: the entry is behind while a copy is on its way.  Unless
\* two of them crossed there is at most one such thread, and what it brings is right.
MirrorInv ==
  /\ \A t \in Thread : job[t].op = "operatorBan" => job[t].arg <= now + job[t].length
  /\ ~crossed => /\ \A t, u \in Thread : Showing(job[t]) /\ Showing(job[u]) => t = u
                 /\ \A t \in Thread : Announces(job[t])
                 /\ (\A t \in Thread : ~Showing(job[t])) => Mirrored

\* A step that leaves the ban and the entry alone and announces nothing.
LEMMA QuietStepKeepsMirror ==
  ASSUME BanInv, MirrorInv, BanInv', Cross, NEW t \in Thread, NEW j, Set(t, j), ~Showing(job[t]), ~Showing(j),
         job[t].op # "lateBan", j.op = "operatorBan" => j.arg <= now + j.length,
         member'.banned = member.banned, member'.until = member.until, UNCHANGED <<now, view>>
  PROVE  MirrorInv'
<1>1. \A u \in Thread : job'[u] = IF u = t THEN j ELSE job[u]
  BY DEF Set, BanInv, TypeOK
<1>2. crossed' = crossed
  <2>1. \A u \in Thread : ~(job[u].op = "lateBan" /\ job'[u] = Idle)
    BY <1>1 DEF Idle, Job, JobWithLength
  <2>2. crossed \in BOOLEAN
    BY DEF BanInv, TypeOK
  <2> QED BY <1>1, <2>1, <2>2 DEF Cross
<1>3. \A u \in Thread : Showing(job'[u]) <=> Showing(job[u])
  BY <1>1
<1>4. ~crossed => \A u \in Thread : Announces(job[u])'
  BY <1>1 DEF MirrorInv, Announces, Showing
<1> QED BY <1>1, <1>2, <1>3, <1>4 DEF MirrorInv, Mirrored

\* A step that changes the ban and has it to announce: it is alone, or crosses another one.
LEMMA UpdateKeepsMirror ==
  ASSUME BanInv, MirrorInv, BanInv', Cross, NEW t \in Thread, NEW j, Set(t, j), ~Showing(job[t]), Showing(j),
         Announces(j)', UNCHANGED now
  PROVE  MirrorInv'
<1>1. \A u \in Thread : job'[u] = IF u = t THEN j ELSE job[u]
  BY DEF Set, BanInv, TypeOK
<1>2. crossed' = \E u \in Thread : Showing(job[u])
  BY <1>1, Zenon DEF Cross
<1>3. ~crossed' => \A u \in Thread : u # t => ~Showing(job'[u])
  BY <1>1, <1>2
<1>4. ~crossed' => \A u \in Thread : Announces(job[u])'
  BY <1>1, <1>3 DEF Announces, Showing
<1>5. \A u \in Thread : job'[u].op = "operatorBan" => job'[u].arg <= now' + job'[u].length
  BY <1>1 DEF MirrorInv, Showing
<1> QED BY <1>1, <1>3, <1>4, <1>5 DEF MirrorInv

\* Every step either keeps entry and record alike or has exactly one copy on its way.
LEMMA StepKeepsMirror == BanInv /\ BanInv' /\ MirrorInv /\ [Next]_vars => MirrorInv'
<1> SUFFICES ASSUME BanInv, BanInv', MirrorInv, [Next]_vars PROVE MirrorInv'
  OBVIOUS
<1>0. /\ now \in Nat /\ member \in Member /\ member.until \in Nat /\ member'.until \in Nat
      /\ \A t \in Thread : job[t].arg \in Nat /\ job[t].length \in Nat
  BY DEF BanInv, TypeOK, Member
<1>i. /\ ~Showing(Idle) /\ Idle.op = "idle" /\ Late.op = "late" /\ \A a : Job("lateBan", a).op = "lateBan"
      /\ \A a : Job("pinFailure", a).op = "pinFailure"
      /\ \A a : Job("check", a).op = "check" /\ Job("autoRelease", a).op = "autoRelease"
      /\ \A a : Job("showBan", a).op = "showBan" /\ Job("showBan", a).arg = a
      /\ Job("showClear", 0).op = "showClear"
      /\ \A a : Job("showOperatorBan", a).op = "showOperatorBan" /\ Job("showOperatorBan", a).arg = a
      /\ \A a, l : /\ JobWithLength("operatorBan", a, l).op = "operatorBan"
                   /\ JobWithLength("operatorBan", a, l).arg = a
                   /\ JobWithLength("operatorBan", a, l).length = l
  BY DEF Idle, Late, Job, JobWithLength, Showing
<1>1. ASSUME NEW t \in Thread, NEW kind \in Kinds, RecordFailureStep(t, kind), Cross PROVE MirrorInv'
  <2>1. member' = RecordFailure(member, kind, now) /\ UNCHANGED <<now, view>> /\ ~Showing(job[t])
        /\ job[t].op # "lateBan"
    BY <1>1, <1>i DEF RecordFailureStep
  <2>2. CASE Bans(member, kind)
    <3>1. member'.banned
      <4>1. kind \in FailureKind /\ (kind = "permanent" => member.failures + 1 >= Threshold)
        BY <2>2, InputsTyped DEF Bans
      <4> QED BY <1>0, <2>1, <2>2, <4>1, RecordFailureBan
    <3>2. Set(t, Job("showBan", member'.until))
      BY <1>1, <2>2 DEF RecordFailureStep
    <3>3. PICK j : j = Job("showBan", member'.until)
      OBVIOUS
    <3>4. Announces(j)' /\ Showing(j)
      BY <1>0, <1>i, <3>1, <3>3 DEF Announces, Showing
    <3> QED BY <1>1, <2>1, <3>2, <3>3, <3>4, UpdateKeepsMirror
  <2>3. CASE ~Bans(member, kind)
    <3>1. member'.banned = member.banned /\ member'.until = member.until
      BY <1>0, <2>1, <2>3, RecordFailureBan, InputsTyped
    <3>2. Set(t, Idle)
      BY <1>1, <2>3 DEF RecordFailureStep
    <3> QED BY <1>1, <1>i, <2>1, <3>1, <3>2, QuietStepKeepsMirror
  <2> QED BY <2>2, <2>3
<1>2. ASSUME NEW t \in Thread, PinFailure(t), Cross PROVE MirrorInv'
  <2>1. member'.banned /\ UNCHANGED <<now, view>> /\ ~Showing(job[t])
    BY <1>0, <1>2, BlacklistNowFacts DEF PinFailure, Showing
  <2>2. PICK j : j = Job("showBan", member'.until)
    OBVIOUS
  <2>3. Announces(j)' /\ Showing(j)
    BY <1>0, <1>i, <2>1, <2>2 DEF Announces, Showing
  <2> QED BY <1>2, <2>1, <2>2, <2>3, UpdateKeepsMirror DEF PinFailure
<1>3. ASSUME NEW t \in Thread, Success(t), Cross PROVE MirrorInv'
  <2>1. member'.banned = member.banned /\ member'.until = member.until
    BY <1>0, <1>3 DEF Success, RecordSuccess, Member
  <2>2. Set(t, Idle)
    BY <1>3 DEF Success, Set, BanInv, TypeOK
  <2> QED BY <1>3, <1>i, <2>1, <2>2, QuietStepKeepsMirror DEF Success
<1>4. ASSUME NEW t \in Thread, BeginPinFailure(t) \/ BeginCheck(t) \/ BeginAutoRelease(t), Cross PROVE MirrorInv'
  <2>1. \E j \in {Job("pinFailure", now + BlacklistDuration), Job("check", now), Job("autoRelease", now)} : Set(t, j)
    BY <1>4 DEF BeginPinFailure, BeginCheck, BeginAutoRelease
  <2> QED BY <1>4, <1>i, <2>1, QuietStepKeepsMirror DEF BeginPinFailure, BeginCheck,
       BeginAutoRelease, Showing
<1>5. ASSUME NEW t \in Thread, NEW d \in BanLengths, BeginOperatorBan(t, d), Cross PROVE MirrorInv'
  <2>1. JobWithLength("operatorBan", now + d, d).arg <= now + JobWithLength("operatorBan", now + d, d).length
    BY <1>0, <1>i, InputsTyped
  <2> QED BY <1>5, <1>i, <2>1, QuietStepKeepsMirror DEF BeginOperatorBan, Showing
<1>6. ASSUME NEW t \in Thread, Check(t), Cross PROVE MirrorInv'
  <2>1. UNCHANGED <<now, view>> /\ ~Showing(job[t])
    BY <1>6 DEF Check, Showing
  <2>2. CASE RanOut(member, job[t].arg)
    <3>1. ~member'.banned /\ Set(t, Job("showClear", 0))
      BY <1>0, <1>6, <2>2 DEF Check, IsBlacklisted, Member
    <3>2. Announces(Job("showClear", 0))' /\ Showing(Job("showClear", 0))
      BY <1>i, <3>1 DEF Announces, Showing
    <3> QED BY <1>6, <2>1, <3>1, <3>2, UpdateKeepsMirror
  <2>3. CASE ~RanOut(member, job[t].arg)
    BY <1>6, <1>i, <2>1, <2>3, QuietStepKeepsMirror DEF Check, IsBlacklisted
  <2> QED BY <2>2, <2>3
<1>7. ASSUME NEW t \in Thread, AutoRelease(t), Cross PROVE MirrorInv'
  <2>1. UNCHANGED <<now, view>> /\ ~Showing(job[t])
    BY <1>7 DEF AutoRelease, Showing
  <2>2. CASE ~Parked(member, job[t].arg)
    <3>1. ~member'.banned /\ Set(t, Job("showClear", 0))
      BY <1>7, <2>2 DEF AutoRelease, ReleaseIfPermanent, Healthy
    <3>2. Announces(Job("showClear", 0))' /\ Showing(Job("showClear", 0))
      BY <1>i, <3>1 DEF Announces, Showing
    <3> QED BY <1>7, <2>1, <3>1, <3>2, UpdateKeepsMirror
  <2>3. CASE Parked(member, job[t].arg)
    BY <1>7, <1>i, <2>1, <2>3, QuietStepKeepsMirror DEF AutoRelease, ReleaseIfPermanent
  <2> QED BY <2>2, <2>3
<1>8. ASSUME NEW t \in Thread, OperatorRelease(t), Cross PROVE MirrorInv'
  <2>1. ~member'.banned /\ Set(t, Job("showClear", 0)) /\ UNCHANGED <<now, view>> /\ ~Showing(job[t])
    BY <1>8, <1>i DEF OperatorRelease, ForceRelease, Healthy
  <2>2. Announces(Job("showClear", 0))' /\ Showing(Job("showClear", 0))
    BY <1>i, <2>1 DEF Announces, Showing
  <2> QED BY <1>8, <2>1, <2>2, UpdateKeepsMirror
<1>9. ASSUME NEW t \in Thread, OperatorBan(t), Cross PROVE MirrorInv'
  <2>1. /\ member'.banned /\ member'.until = job[t].arg /\ UNCHANGED <<now, view>> /\ ~Showing(job[t])
        /\ job[t].op \in {"operatorBan", "lateBan"}
    BY <1>9 DEF OperatorBan, BlacklistByOperator, Showing
  <2>2. CASE job[t].op = "operatorBan"
    <3>1. Set(t, Job("showOperatorBan", job[t].length)) /\ job[t].arg <= now + job[t].length
      BY <1>9, <2>2 DEF OperatorBan, MirrorInv
    <3>2. PICK j : j = Job("showOperatorBan", job[t].length)
      OBVIOUS
    <3>3. Announces(j)' /\ Showing(j)
      BY <1>0, <1>i, <2>1, <3>1, <3>2 DEF Announces, Showing
    <3> QED BY <1>9, <2>1, <3>1, <3>2, <3>3, UpdateKeepsMirror
  <2>3. CASE job[t].op = "lateBan"
    <3>1. \A u \in Thread : job'[u] = IF u = t THEN Idle ELSE job[u]
      BY <1>9, <2>3 DEF OperatorBan, Set, BanInv, TypeOK
    <3>2. crossed'
      BY <1>9, <1>i, <2>3, <3>1, ZenonT(40) DEF Cross
    <3> QED BY <1>i, <2>1, <3>1, <3>2 DEF MirrorInv
  <2> QED BY <2>1, <2>2, <2>3
<1>10. ASSUME NEW t \in Thread, Show(t), Cross PROVE MirrorInv'
  <2>1. \A u \in Thread : job'[u] = IF u = t THEN Idle ELSE job[u]
    BY <1>10 DEF Show, Set, BanInv, TypeOK
  <2>2. UNCHANGED <<now, member>> /\ Showing(job[t])
    BY <1>10 DEF Show, Showing
  <2>3. crossed' = crossed
    <3>1. \A u \in Thread : Showing(job'[u]) => Showing(job[u])
      BY <1>i, <2>1
    <3>2. \A u \in Thread : ~(job[u].op = "lateBan" /\ job'[u] = Idle)
      BY <1>i, <2>1, <2>2 DEF Showing
    <3>3. crossed \in BOOLEAN
      BY DEF BanInv, TypeOK
    <3> QED BY <1>10, <3>1, <3>2, <3>3 DEF Cross
  <2>4. ~crossed => Mirrored'
    <3>1. ~crossed => Announces(job[t])
      BY DEF MirrorInv
    <3>2. CASE job[t].op = "showBan"
      <4>1. view'.banned = TRUE /\ view'.until = job[t].arg
        BY <1>10, <3>2 DEF Show, Banned
      <4>2. member.banned \in BOOLEAN
        BY <1>0 DEF Member
      <4> QED BY <2>2, <3>1, <3>2, <4>1, <4>2 DEF Announces, Mirrored
    <3>3. CASE job[t].op = "showOperatorBan"
      <4>1. view'.banned = TRUE /\ view'.until = now + job[t].arg
        BY <1>10, <3>3 DEF Show, Banned
      <4>2. member.banned \in BOOLEAN
        BY <1>0 DEF Member
      <4> QED BY <2>2, <3>1, <3>3, <4>1, <4>2 DEF Announces, Mirrored
    <3>4. CASE job[t].op = "showClear"
      <4>1. view'.banned = FALSE
        BY <1>10, <3>4 DEF Show, NotBanned
      <4>2. member.banned \in BOOLEAN
        BY <1>0 DEF Member
      <4> QED BY <2>2, <3>1, <3>4, <4>1, <4>2 DEF Announces, Mirrored
    <3> QED BY <2>2, <3>2, <3>3, <3>4 DEF Showing
  <2>5. ~crossed => \A u \in Thread : Announces(job[u])'
    BY <1>i, <2>1, <2>2 DEF MirrorInv, Announces, Showing
  <2> QED BY <1>i, <2>1, <2>2, <2>3, <2>4, <2>5 DEF MirrorInv
<1>11. ASSUME Tick, Cross PROVE MirrorInv'
  <2>1. now' = now + 1 /\ UNCHANGED <<member, view, job>>
    BY <1>11 DEF Tick
  <2>2. crossed' = crossed
    BY <1>11, <1>i, <2>1 DEF Cross, BanInv, TypeOK
  <2> QED BY <1>0, <2>1, <2>2 DEF MirrorInv, Announces, Mirrored
<1>12. CASE UNCHANGED vars
  BY <1>12 DEF vars, MirrorInv, Announces, Mirrored
<1>13. ASSUME NEW t \in Thread, NEW d \in BanLengths, BeginLateBan(t, d), Cross PROVE MirrorInv'
  <2>1. PICK j : j = Job("lateBan", now + d)
    OBVIOUS
  <2>2. j.op = "lateBan" /\ job[t].op = "late" /\ Set(t, j) /\ UNCHANGED <<now, member, view>>
    BY <1>13, <1>i, <2>1 DEF BeginLateBan
  <2> QED BY <1>13, <2>2, QuietStepKeepsMirror DEF Showing
<1>14. CASE Reset
  <2>1. \A t \in Thread : job'[t].op \in {"idle", "late", "showOperatorBan"}
    BY <1>14, LeftJobs DEF Reset
  <2>2. crossed' = (\E t \in Thread : Showing(job'[t]))
    BY <1>14 DEF Reset
  <2>3. Mirrored'
    BY <1>14 DEF Reset, Mirrored, Healthy, NotBanned
  <2>4. ~crossed' => \A t \in Thread : Announces(job[t])'
    BY <2>1, <2>2 DEF Announces, Showing
  <2> QED BY <2>1, <2>2, <2>3, <2>4 DEF MirrorInv
<1> QED BY <1>1, <1>2, <1>3, <1>4, <1>5, <1>6, <1>7, <1>8, <1>9, <1>10, <1>11, <1>12, <1>13,
           <1>14 DEF Next, ThreadStep

\* Whenever nothing is under way and the last update did not cross another one, the
\* dashboard's entry shows the member's ban, with an expiry that is not early
\* (blacklistSharedMember and the monitor's Blacklist and ClearBlacklist after it).
THEOREM EntryFollowsMember == Spec => []MonitorInStep
<1>1. Init => MirrorInv
  BY DEF Init, MirrorInv, Announces, Mirrored, Showing, Idle, Job, JobWithLength,
       NotBanned, Healthy
<1>2. MirrorInv => MonitorInStep
  <2>1. ~Showing(Idle)
    BY DEF Showing, Idle, Job, JobWithLength
  <2> QED BY <2>1 DEF MirrorInv, MonitorInStep, Quiet, Mirrored
<1> QED BY <1>1, <1>2, InitHasBanInv, StepKeepsBanInv, StepKeepsMirror, PTL DEF Spec

=============================================================================
