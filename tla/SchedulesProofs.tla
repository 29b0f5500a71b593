-------------------------- MODULE SchedulesProofs --------------------------
(***************************************************************************)
(* Proofs about Schedules, for any schedules, occasions, clock and faults. *)
(* FiringsBecomeRuns holds with any number of daemons. One run an occasion *)
(* and one run at a time hold with one daemon, and the assumption is       *)
(* needed: TLC finds two daemons that start a run each (run "twice").      *)
(***************************************************************************)
EXTENDS Schedules, WellFoundedInduction, SequenceTheorems, TLAPS

RunRecords == [schedule : Standing, due : Time, status : Active \cup {"ended"}]

\* Nothing is known of a schedule before it is made.
MadeFirst ==
  /\ \A s \in stored : made[s] # Never
  /\ \A i \in DOMAIN runs : made[runs[i].schedule] # Never
  /\ \A d \in Daemons :
       /\ \A s \in reconciler[d].todo : made[s] # Never
       /\ reconciler[d].step \in Steps => made[Schedule(d)] # Never

\* The account of a schedule that stands holds every occasion that has a run or is about
\* to have one.
AccountIsKept ==
  /\ \A i \in DOMAIN runs :
       runs[i].schedule \in stored => runs[i].due \in resolved[runs[i].schedule]
  /\ \A d \in Daemons :
       reconciler[d].step = "start" /\ Schedule(d) \in stored =>
         reconciler[d].due \in resolved[Schedule(d)]

\* Only a schedule that skips has an occasion accounted for without a run.
OnlySkipped ==
  \A d \in Daemons : reconciler[d].step = "account" => Schedule(d) \in skipping

ScheduleInv == TypeOK /\ MadeFirst /\ AccountIsKept /\ OnlySkipped /\ FiringsBecomeRuns

\* What the only daemon is about to do was not done before: the occasion is not in the
\* account until it claims it, has no run when it starts one, and its schedule is idle.
NotDoneBefore ==
  \A d \in Daemons :
    /\ reconciler[d].step \in {"busy", "claim"} /\ Schedule(d) \in stored =>
         reconciler[d].due \notin resolved[Schedule(d)]
    /\ reconciler[d].step = "start" => ~Ran(Schedule(d), reconciler[d].due)
    /\ reconciler[d].step \in {"claim", "start"} => ~Busy(Schedule(d))

OneDaemonInv == ScheduleInv /\ NotDoneBefore /\ OneRunPerOccasion /\ OneAtATime

\* What became of an occasion that was accounted for.
Starting(s, t) ==
  \E d \in Daemons :
    reconciler[d].step = "start" /\ Schedule(d) = s /\ reconciler[d].due = t

HasGone(s, t) == Ran(s, t) \/ <<s, t>> \in lost \/ Starting(s, t)

States == {Asleep} \cup [step : {"next"}, todo : SUBSET Standing] \cup Settlings
------------------------------------------------------------------------------
(* The last of some times, what a reconciler is about, and what it owes.    *)

LEMMA LaterIsWellFounded == IsWellFoundedOn({p \in Nat \X Nat : p[1] < p[2]}, Nat)
BY NatLessThanWellFounded DEF OpToRel

LEMMA MaxOfTimes ==
  ASSUME NEW N \in Nat, NEW S \in SUBSET (-1 .. N), S # {}
  PROVE  Max(S) \in S /\ \A t \in S : t <= Max(S)
<1> DEFINE R == {p \in Nat \X Nat : p[1] < p[2]}
           T == {N - t : t \in S}
<1>1. T \subseteq Nat /\ T # {}
  <2>1. \A t \in S : t \in Int /\ N - t \in Nat
    OBVIOUS
  <2> QED BY <2>1
<1>2. PICK x \in T : \A y \in T : ~ (<<y, x>> \in R)
  <2> HIDE DEF T, R
  <2>1. IsWellFoundedOn(R, Nat)
    BY LaterIsWellFounded DEF R
  <2> QED BY <1>1, <2>1, WFMin
<1>3. \A y \in T : x <= y
  <2> SUFFICES ASSUME NEW y \in T, y < x PROVE FALSE
    BY <1>1
  <2>1. <<y, x>> \in R
    BY <1>1
  <2> QED BY <1>2, <2>1
<1>4. \E t \in S : \A u \in S : t >= u
  <2>1. PICK t \in S : x = N - t
    OBVIOUS
  <2>2. \A u \in S : u \in Int /\ N - t <= N - u
    BY <1>3, <2>1
  <2> QED BY <2>2
<1> QED BY <1>4 DEF Max

LEMMA TimeTypes == MaxTime \in Nat /\ Never = -1 /\ MostCounted \in Nat /\ MaxFaults \in Nat
BY SchedulesAssumption DEF SchedulesAssumption

LEMMA RunTypes ==
  ASSUME TypeOK
  PROVE  /\ runs \in Seq(RunRecords) /\ Len(runs) \in Nat /\ DOMAIN runs = 1 .. Len(runs)
         /\ \A i \in DOMAIN runs : /\ runs[i] \in RunRecords
                                  /\ runs[i].schedule \in Standing
                                  /\ runs[i].due \in Time
<1>1. runs \in Seq(RunRecords)
  BY DEF TypeOK, RunRecords
<1>2. Len(runs) \in Nat /\ DOMAIN runs = 1 .. Len(runs)
  BY <1>1, LenProperties
<1>3. \A i \in 1 .. Len(runs) : runs[i] \in RunRecords
  BY <1>1, ElementOfSeq
<1> QED BY <1>1, <1>2, <1>3 DEF RunRecords

LEMMA StepTypes ==
  ASSUME TypeOK, NEW d \in Daemons
  PROVE  /\ reconciler[d].todo \subseteq Standing
         /\ reconciler[d].step \in Steps =>
              /\ Schedule(d) \in Standing /\ reconciler[d].due \in Time
              /\ reconciler[d] \in Settlings
<1>1. reconciler[d] \in States
  BY DEF TypeOK, States
<1> QED BY <1>1 DEF States, Asleep, Settlings, Steps, Schedule

LEMMA BecomeTypes ==
  ASSUME TypeOK, NEW d \in Daemons, NEW new \in States, Become(d, new)
  PROVE  /\ reconciler' \in [Daemons -> States] /\ reconciler'[d] = new
         /\ \A e \in Daemons : e # d => reconciler'[e] = reconciler[e]
<1>1. reconciler \in [Daemons -> States]
  BY DEF TypeOK, States
<1> QED BY <1>1 DEF Become

\* A step that goes to another stage of the same settling.
LEMMA GotoTypes ==
  ASSUME TypeOK, NEW d \in Daemons, reconciler[d].step \in Steps, NEW step \in Steps, Goto(d, step)
  PROVE  /\ reconciler' \in [Daemons -> States]
         /\ reconciler'[d] = [reconciler[d] EXCEPT !.step = step]
         /\ reconciler'[d].step = step /\ reconciler'[d].todo = reconciler[d].todo
         /\ Schedule(d)' = Schedule(d) /\ reconciler'[d].due = reconciler[d].due
         /\ \A e \in Daemons : e # d => reconciler'[e] = reconciler[e]
<1>1. reconciler \in [Daemons -> States] /\ reconciler[d] \in Settlings
  BY StepTypes DEF TypeOK, States
<1> DEFINE new == [reconciler[d] EXCEPT !.step = step]
<1>2. /\ new \in Settlings /\ new.step = step /\ new.todo = reconciler[d].todo
      /\ new.schedule = reconciler[d].schedule /\ new.due = reconciler[d].due
  BY <1>1 DEF Settlings
<1> HIDE DEF new
<1>3. reconciler' = [reconciler EXCEPT ![d] = new]
  BY DEF Goto, new
<1> QED BY <1>1, <1>2, <1>3 DEF States, Schedule, new

\* A step that is done with a settling, or drops it.
LEMMA GoOnTypes ==
  ASSUME TypeOK, NEW d \in Daemons, GoOn(d)
  PROVE  /\ reconciler' \in [Daemons -> States]
         /\ reconciler'[d].step = "next" /\ reconciler'[d].todo = reconciler[d].todo
         /\ \A e \in Daemons : e # d => reconciler'[e] = reconciler[e]
<1>1. Asking(reconciler[d].todo) \in States
  BY StepTypes DEF States, Asking
<1> QED BY <1>1, BecomeTypes DEF GoOn, Asking

\* What is owed was not accounted for.
LEMMA OwedIsNew ==
  ASSUME TypeOK, NEW s \in Standing, Walked(s) # {}
  PROVE  Max(Walked(s)) \in Time /\ Max(Walked(s)) \notin resolved[s]
<1> DEFINE t == Max(Walked(s))
<1>1. Walked(s) \in SUBSET Time
  BY SchedulesAssumption DEF SchedulesAssumption, Walked, Outstanding
<1>2. t \in Walked(s)
  <2>1. Time \subseteq -1 .. MaxTime
    BY TimeTypes DEF Time
  <2> QED BY <1>1, <2>1, TimeTypes, MaxOfTimes
<1> HIDE DEF t
<1>3. t \in Time /\ Since(s) < t
  BY <1>1, <1>2 DEF Walked, Outstanding
<1>4. ASSUME t \in resolved[s] PROVE FALSE
  <2>1. {Never} \cup resolved[s] \in SUBSET (-1 .. MaxTime)
    BY TimeTypes DEF TypeOK, Time
  <2>2. t <= LastFiring(s)
    BY <1>4, <2>1, TimeTypes, MaxOfTimes DEF LastFiring
  <2>3. LastFiring(s) \in Int /\ t \in Int
    <3>1. LastFiring(s) \in -1 .. MaxTime
      BY <2>1, TimeTypes, MaxOfTimes DEF LastFiring
    <3> QED BY <1>3, <3>1, TimeTypes DEF Time
  <2> QED BY <1>3, <1>4, <2>2, <2>3 DEF Since
<1> QED BY <1>3, <1>4 DEF t
------------------------------------------------------------------------------
(* What holds with any number of daemons. *)

LEMMA FiringsStay ==
  ASSUME FiringsBecomeRuns, skipping \subseteq skipping',
         \A s, t : HasGone(s, t) => HasGone(s, t)',
         \A s \in Standing \ skipping : \A t \in resolved'[s] : t \in resolved[s] \/ HasGone(s, t)'
  PROVE  FiringsBecomeRuns'
<1>1. \A s \in Standing \ skipping : \A t \in resolved[s] : HasGone(s, t)
  BY DEF FiringsBecomeRuns, HasGone, Starting
<1>2. \A s \in Standing \ skipping' : \A t \in resolved'[s] : HasGone(s, t)'
  BY <1>1
<1> QED BY <1>2 DEF FiringsBecomeRuns, HasGone, Starting

\* A reconciler moves, and neither had claimed anything nor has.
LEMMA MoveKeeps ==
  ASSUME ScheduleInv, NEW d \in Daemons, ReconcilerOnly,
         reconciler' \in [Daemons -> States],
         \A e \in Daemons : e # d => reconciler'[e] = reconciler[e],
         reconciler[d].step # "start", reconciler'[d].step # "start",
         \A s \in reconciler'[d].todo : made[s] # Never,
         reconciler'[d].step \in Steps => made[reconciler'[d].schedule] # Never,
         reconciler'[d].step = "account" => reconciler'[d].schedule \in skipping
  PROVE  ScheduleInv'
<1>1. TypeOK'
  BY DEF ScheduleInv, TypeOK, ReconcilerOnly, scheduleVars, States
<1>2. MadeFirst'
  BY DEF ScheduleInv, MadeFirst, ReconcilerOnly, scheduleVars, Schedule
<1>3. AccountIsKept'
  BY DEF ScheduleInv, AccountIsKept, ReconcilerOnly, scheduleVars, Schedule
<1>4. OnlySkipped'
  BY DEF ScheduleInv, OnlySkipped, ReconcilerOnly, scheduleVars, Schedule
<1>5. FiringsBecomeRuns'
  <2>1. \A s, t : HasGone(s, t) => HasGone(s, t)'
    BY DEF HasGone, Starting, Ran, ReconcilerOnly, Schedule
  <2>2. resolved' = resolved /\ skipping' = skipping
    BY DEF ReconcilerOnly, scheduleVars
  <2> QED BY <2>1, <2>2, FiringsStay DEF ScheduleInv
<1> QED BY <1>1, <1>2, <1>3, <1>4, <1>5 DEF ScheduleInv

\* Reconcile lists the schedules.
LEMMA ListKeeps ==
  ASSUME ScheduleInv, NEW d \in Daemons, List(d)
  PROVE  ScheduleInv'
<1> DEFINE new == Asking(stored \ paused)
<1>1. new \in States /\ Become(d, new) /\ ReconcilerOnly
  BY DEF ScheduleInv, TypeOK, States, Asking, List
<1>2. new.step = "next" /\ new.todo \subseteq stored /\ reconciler[d].step = "asleep"
  BY DEF Asking, List
<1>3. \A s \in stored : made[s] # Never
  BY DEF ScheduleInv, MadeFirst
<1> HIDE DEF new
<1> QED BY <1>1, <1>2, <1>3, BecomeTypes, MoveKeeps DEF ScheduleInv, Steps

\* Reconcile is done.
LEMMA RestKeeps ==
  ASSUME ScheduleInv, NEW d \in Daemons, Rest(d)
  PROVE  ScheduleInv'
<1>1. /\ Asleep \in States /\ Become(d, Asleep) /\ ReconcilerOnly
      /\ reconciler[d].step = "next" /\ Asleep.step = "asleep" /\ Asleep.todo = {}
  BY DEF States, Asleep, Asking, Rest
<1> QED BY <1>1, BecomeTypes, MoveKeeps DEF ScheduleInv, Steps

\* Reconcile looks at the next schedule.
LEMMA LookKeeps ==
  ASSUME ScheduleInv, NEW d \in Daemons, Look(d)
  PROVE  ScheduleInv'
<1> DEFINE late(s) == Cardinality(Walked(s)) > 1
           new(s) == IF Walked(s) = {} THEN Asking(reconciler[d].todo \ {s})
                     ELSE Settling(IF s \in skipping /\ late(s) THEN "account" ELSE "busy",
                                   reconciler[d].todo \ {s}, s, Max(Walked(s)))
<1>1. PICK s \in reconciler[d].todo : Become(d, new(s))
  BY DEF Look
<1>2. reconciler[d].step = "next" /\ ReconcilerOnly /\ TypeOK /\ MadeFirst
  BY DEF Look, ScheduleInv
<1>3. /\ reconciler[d].todo \subseteq Standing
      /\ \A t \in reconciler[d].todo : made[t] # Never
  BY <1>2, StepTypes DEF MadeFirst
<1>4. CASE Walked(s) = {}
  <2>1. new(s) = Asking(reconciler[d].todo \ {s})
    BY <1>4
  <2>2. new(s) \in States /\ new(s).step = "next" /\ new(s).todo = reconciler[d].todo \ {s}
    BY <1>3, <2>1 DEF Asking, States
  <2> HIDE DEF new
  <2> QED BY <1>1, <1>2, <1>3, <2>2, BecomeTypes, MoveKeeps DEF Steps
<1>5. CASE Walked(s) # {}
  <2> DEFINE step == IF s \in skipping /\ late(s) THEN "account" ELSE "busy"
  <2>1. new(s) = Settling(step, reconciler[d].todo \ {s}, s, Max(Walked(s)))
    BY <1>5
  <2>2. step \in {"account", "busy"} /\ (step = "account" => s \in skipping)
    OBVIOUS
  <2> HIDE DEF step, new
  <2>3. Max(Walked(s)) \in Time
    BY <1>2, <1>3, <1>5, OwedIsNew
  <2>4. /\ new(s) \in States /\ new(s).step = step /\ new(s).schedule = s
        /\ new(s).todo = reconciler[d].todo \ {s}
    BY <1>3, <2>1, <2>2, <2>3 DEF Settling, States, Settlings, Steps
  <2> QED BY <1>1, <1>2, <1>3, <2>2, <2>4, BecomeTypes, MoveKeeps
<1> QED BY <1>4, <1>5

\* Reconcile asks whether the schedule is busy.
LEMMA CheckBusyKeeps ==
  ASSUME ScheduleInv, NEW d \in Daemons, CheckBusy(d)
  PROVE  ScheduleInv'
<1>1. /\ reconciler[d].step = "busy" /\ reconciler[d].step \in Steps
      /\ ReconcilerOnly /\ TypeOK /\ MadeFirst
      /\ GoOn(d) \/ Goto(d, "claim")
  BY DEF CheckBusy, ScheduleInv, Steps
<1>2. /\ \A t \in reconciler[d].todo : made[t] # Never
      /\ made[Schedule(d)] # Never
  BY <1>1 DEF MadeFirst
<1>3. CASE GoOn(d)
  BY <1>1, <1>2, <1>3, GoOnTypes, MoveKeeps DEF Steps
<1>4. CASE Goto(d, "claim")
  BY <1>1, <1>2, <1>4, GotoTypes, MoveKeeps DEF Steps, Schedule
<1> QED BY <1>1, <1>3, <1>4

LEMMA ResolveTypes ==
  ASSUME TypeOK, NEW d \in Daemons, reconciler[d].step \in Steps, Resolve(d)
  PROVE  /\ resolved' \in [Standing -> SUBSET Time]
         /\ \A s \in Standing : resolved[s] \subseteq resolved'[s]
         /\ \A s \in Standing : \A t \in resolved'[s] :
              \/ t \in resolved[s]
              \/ s = Schedule(d) /\ s \in stored /\ t = reconciler[d].due
         /\ Schedule(d) \in stored => reconciler[d].due \in resolved'[Schedule(d)]
<1>1. Schedule(d) \in Standing /\ reconciler[d].due \in Time
  BY StepTypes
<1> QED BY <1>1 DEF TypeOK, Resolve

\* An occasion that is skipped is accounted for.
LEMMA AccountKeeps ==
  ASSUME ScheduleInv, NEW d \in Daemons, Account(d)
  PROVE  ScheduleInv'
<1>1. /\ reconciler[d].step = "account" /\ reconciler[d].step \in Steps
      /\ TypeOK /\ Resolve(d) /\ GoOn(d)
      /\ UNCHANGED <<now, scheduleVars, runs, lost, faults>>
  BY DEF Account, ScheduleInv, Steps
<1>2. /\ resolved' \in [Standing -> SUBSET Time]
      /\ \A s \in Standing : resolved[s] \subseteq resolved'[s]
      /\ \A s \in Standing : \A t \in resolved'[s] : t \in resolved[s] \/ s = Schedule(d)
  BY <1>1, ResolveTypes
<1>3. /\ reconciler' \in [Daemons -> States]
      /\ reconciler'[d].step = "next" /\ reconciler'[d].todo = reconciler[d].todo
      /\ \A e \in Daemons : e # d => reconciler'[e] = reconciler[e]
  BY <1>1, GoOnTypes
<1>4. TypeOK'
  BY <1>1, <1>2, <1>3 DEF TypeOK, scheduleVars, States
<1>5. MadeFirst'
  BY <1>1, <1>3 DEF ScheduleInv, MadeFirst, scheduleVars, Schedule, Steps
<1>6. AccountIsKept'
  <2>1. \A i \in DOMAIN runs : runs[i].schedule \in Standing
    BY <1>1, RunTypes
  <2>2. \A e \in Daemons : reconciler[e].step = "start" => Schedule(e) \in Standing
    BY <1>1, StepTypes DEF Steps
  <2> QED BY <1>1, <1>2, <1>3, <2>1, <2>2
          DEF ScheduleInv, AccountIsKept, scheduleVars, Schedule
<1>7. OnlySkipped'
  BY <1>1, <1>3 DEF ScheduleInv, OnlySkipped, scheduleVars, Schedule
<1>8. FiringsBecomeRuns'
  <2>1. \A s, t : HasGone(s, t) => HasGone(s, t)'
    BY <1>1, <1>3 DEF HasGone, Starting, Ran, Schedule
  <2>2. skipping' = skipping /\ Schedule(d) \in skipping
    BY <1>1 DEF ScheduleInv, OnlySkipped, scheduleVars
  <2> QED BY <1>2, <2>1, <2>2, FiringsStay DEF ScheduleInv
<1> QED BY <1>4, <1>5, <1>6, <1>7, <1>8 DEF ScheduleInv

\* An occasion is claimed.
LEMMA ClaimKeeps ==
  ASSUME ScheduleInv, NEW d \in Daemons, Claim(d)
  PROVE  ScheduleInv'
<1>1. /\ reconciler[d].step = "claim" /\ reconciler[d].step \in Steps
      /\ TypeOK /\ Resolve(d)
      /\ IF Schedule(d) \in stored THEN Goto(d, "start") ELSE GoOn(d)
      /\ UNCHANGED <<now, scheduleVars, runs, lost, faults>>
  BY DEF Claim, ScheduleInv, Steps
<1>2. /\ resolved' \in [Standing -> SUBSET Time]
      /\ \A s \in Standing : resolved[s] \subseteq resolved'[s]
      /\ \A s \in Standing : \A t \in resolved'[s] :
           \/ t \in resolved[s]
           \/ s = Schedule(d) /\ s \in stored /\ t = reconciler[d].due
      /\ Schedule(d) \in stored => reconciler[d].due \in resolved'[Schedule(d)]
  BY <1>1, ResolveTypes
<1>3. /\ reconciler' \in [Daemons -> States]
      /\ reconciler'[d].todo = reconciler[d].todo
      /\ \/ /\ reconciler'[d].step = "start" /\ Schedule(d) \in stored
            /\ reconciler'[d].schedule = Schedule(d) /\ reconciler'[d].due = reconciler[d].due
         \/ reconciler'[d].step = "next" /\ Schedule(d) \notin stored
      /\ \A e \in Daemons : e # d => reconciler'[e] = reconciler[e]
  <2>1. CASE Schedule(d) \in stored
    BY <1>1, <2>1, GotoTypes DEF Steps, Schedule
  <2>2. CASE Schedule(d) \notin stored
    BY <1>1, <2>2, GoOnTypes
  <2> QED BY <2>1, <2>2
<1>4. TypeOK'
  BY <1>1, <1>2, <1>3 DEF TypeOK, scheduleVars, States
<1>5. MadeFirst'
  BY <1>1, <1>3 DEF ScheduleInv, MadeFirst, scheduleVars, Schedule, Steps
<1>6. AccountIsKept'
  <2>1. \A i \in DOMAIN runs : runs[i].schedule \in Standing
    BY <1>1, RunTypes
  <2>2. \A e \in Daemons : reconciler[e].step = "start" => Schedule(e) \in Standing
    BY <1>1, StepTypes DEF Steps
  <2> QED BY <1>1, <1>2, <1>3, <2>1, <2>2
          DEF ScheduleInv, AccountIsKept, scheduleVars, Schedule
<1>7. OnlySkipped'
  BY <1>1, <1>3 DEF ScheduleInv, OnlySkipped, scheduleVars, Schedule
<1>8. FiringsBecomeRuns'
  <2>1. \A s, t : HasGone(s, t) => HasGone(s, t)'
    BY <1>1, <1>3 DEF HasGone, Starting, Ran, Schedule
  <2>2. \A s, t : s = Schedule(d) /\ s \in stored /\ t = reconciler[d].due => HasGone(s, t)'
    BY <1>3 DEF HasGone, Starting, Schedule
  <2>3. skipping' = skipping
    BY <1>1 DEF scheduleVars
  <2>4. \A s \in Standing \ skipping : \A t \in resolved'[s] :
          t \in resolved[s] \/ HasGone(s, t)'
    BY <1>2, <2>2
  <2> QED BY <2>1, <2>3, <2>4, FiringsStay DEF ScheduleInv
<1> QED BY <1>4, <1>5, <1>6, <1>7, <1>8 DEF ScheduleInv

\* What starting a run does to the runs there are.
LEMMA StartTypes ==
  ASSUME TypeOK, NEW d \in Daemons, NEW status \in Active, CreateRun(d, status)
  PROVE  /\ runs' \in Seq(RunRecords) /\ DOMAIN runs' = 1 .. Len(runs) + 1
         /\ \A i \in DOMAIN runs : runs'[i] = runs[i]
         /\ runs'[Len(runs) + 1] = [schedule |-> Schedule(d), due |-> reconciler[d].due,
                                    status |-> status]
<1> DEFINE r == [schedule |-> Schedule(d), due |-> reconciler[d].due, status |-> status]
<1>1. r \in RunRecords /\ runs' = Append(runs, r)
  BY StepTypes DEF CreateRun, RunRecords, Steps
<1>2. runs \in Seq(RunRecords) /\ Len(runs) \in Nat /\ DOMAIN runs = 1 .. Len(runs)
  BY RunTypes
<1> HIDE DEF r
<1>3. /\ runs' \in Seq(RunRecords) /\ Len(runs') = Len(runs) + 1
      /\ \A i \in 1 .. Len(runs) : runs'[i] = runs[i]
      /\ runs'[Len(runs) + 1] = r
  BY <1>1, <1>2, AppendProperties
<1>4. DOMAIN runs' = 1 .. Len(runs')
  BY <1>3, LenProperties
<1> QED BY <1>2, <1>3, <1>4 DEF r

\* What starting a run does, whether or not it fails half-way.
LEMMA StartCreates ==
  ASSUME TypeOK, NEW d \in Daemons, Start(d) \/ FailStart(d)
  PROVE  /\ \E status \in Active : CreateRun(d, status)
         /\ faults' \in 0 .. MaxFaults
<1>1. "queued" \in Active /\ "stranded" \in Active
  BY DEF Active, Adrift
<1>2. faults \in 0 .. MaxFaults
  BY DEF TypeOK
<1> QED BY <1>1, <1>2, TimeTypes DEF Start, FailStart, Fault

\* The run of a claimed occasion gets its row.
LEMMA StartKeeps ==
  ASSUME ScheduleInv, NEW d \in Daemons, Start(d) \/ FailStart(d)
  PROVE  ScheduleInv'
<1>0. PICK status \in Active : CreateRun(d, status)
  BY StartCreates DEF ScheduleInv
<1>1. /\ reconciler[d].step = "start" /\ reconciler[d].step \in Steps
      /\ TypeOK /\ GoOn(d) /\ faults' \in 0 .. MaxFaults
      /\ UNCHANGED <<now, scheduleVars, resolved, lost>>
  BY <1>0, StartCreates DEF CreateRun, ScheduleInv, Steps
<1> DEFINE n == Len(runs) + 1
<1>2. /\ runs' \in Seq(RunRecords) /\ n \in DOMAIN runs'
      /\ DOMAIN runs \subseteq DOMAIN runs'
      /\ \A i \in DOMAIN runs' : i = n \/ i \in DOMAIN runs
      /\ \A i \in DOMAIN runs : runs'[i] = runs[i]
      /\ runs'[n].schedule = Schedule(d) /\ runs'[n].due = reconciler[d].due
  <2>1. Len(runs) \in Nat /\ DOMAIN runs = 1 .. Len(runs)
    BY <1>1, RunTypes
  <2>2. /\ runs' \in Seq(RunRecords) /\ DOMAIN runs' = 1 .. n
        /\ \A i \in DOMAIN runs : runs'[i] = runs[i]
        /\ runs'[n] = [schedule |-> Schedule(d), due |-> reconciler[d].due, status |-> status]
    BY <1>0, <1>1, StartTypes
  <2>3. n \in 1 .. n /\ 1 .. Len(runs) \subseteq 1 .. n
        /\ \A i \in 1 .. n : i = n \/ i \in 1 .. Len(runs)
    BY <2>1
  <2> HIDE DEF n
  <2> QED BY <2>1, <2>2, <2>3
<1> HIDE DEF n
<1>3. /\ reconciler' \in [Daemons -> States]
      /\ reconciler'[d].step = "next" /\ reconciler'[d].todo = reconciler[d].todo
      /\ \A e \in Daemons : e # d => reconciler'[e] = reconciler[e]
  BY <1>1, GoOnTypes
<1>4. TypeOK'
  BY <1>1, <1>2, <1>3 DEF TypeOK, scheduleVars, States, RunRecords
<1>5. MadeFirst'
  BY <1>1, <1>2, <1>3 DEF ScheduleInv, MadeFirst, scheduleVars, Schedule, Steps
<1>6. AccountIsKept'
  BY <1>1, <1>2, <1>3 DEF ScheduleInv, AccountIsKept, scheduleVars, Schedule
<1>7. OnlySkipped'
  BY <1>1, <1>3 DEF ScheduleInv, OnlySkipped, scheduleVars, Schedule
<1>8. FiringsBecomeRuns'
  <2>1. \A s, t : Ran(s, t) => Ran(s, t)'
    BY <1>2 DEF Ran
  <2>2. \A s, t : Starting(s, t) => Starting(s, t)' \/ Ran(s, t)'
    BY <1>2, <1>3 DEF Starting, Ran, Schedule
  <2>3. \A s, t : HasGone(s, t) => HasGone(s, t)'
    BY <1>1, <2>1, <2>2 DEF HasGone
  <2>4. skipping' = skipping /\ resolved' = resolved
    BY <1>1 DEF scheduleVars
  <2> QED BY <2>3, <2>4, FiringsStay DEF ScheduleInv
<1> QED BY <1>4, <1>5, <1>6, <1>7, <1>8 DEF ScheduleInv

LEMMA FaultTypes ==
  ASSUME TypeOK, Fault
  PROVE  faults' \in 0 .. MaxFaults
BY TimeTypes DEF TypeOK, Fault

\* What is lost when a daemon drops what it was doing.
LEMMA LoseTypes ==
  ASSUME TypeOK, NEW d \in Daemons, LoseClaim(d)
  PROVE  /\ lost' \subseteq Standing \X Time /\ lost \subseteq lost'
         /\ reconciler[d].step = "start" => <<Schedule(d), reconciler[d].due>> \in lost'
BY StepTypes DEF TypeOK, LoseClaim, Steps

\* A daemon drops what it was doing, and some runs may end.
LEMMA DropKeeps ==
  ASSUME ScheduleInv, TypeOK', NEW d \in Daemons, LoseClaim(d),
         UNCHANGED <<scheduleVars, resolved>>,
         reconciler'[d].step \notin Steps, reconciler'[d].todo \subseteq reconciler[d].todo,
         \A e \in Daemons : e # d => reconciler'[e] = reconciler[e],
         DOMAIN runs' = DOMAIN runs,
         \A i \in DOMAIN runs : /\ runs'[i].schedule = runs[i].schedule
                                /\ runs'[i].due = runs[i].due
  PROVE  ScheduleInv'
<1>1. MadeFirst'
  BY DEF ScheduleInv, MadeFirst, scheduleVars, Schedule
<1>2. AccountIsKept'
  BY DEF ScheduleInv, AccountIsKept, scheduleVars, Schedule, Steps
<1>3. OnlySkipped'
  BY DEF ScheduleInv, OnlySkipped, scheduleVars, Schedule, Steps
<1>4. FiringsBecomeRuns'
  <2>1. \A s, t : Ran(s, t) => Ran(s, t)'
    BY DEF Ran
  <2>2. lost \subseteq lost'
    BY LoseTypes DEF ScheduleInv
  <2>3. \A s, t : Starting(s, t) => Starting(s, t)' \/ <<s, t>> \in lost'
    BY LoseTypes DEF ScheduleInv, Starting, Schedule
  <2>4. \A s, t : HasGone(s, t) => HasGone(s, t)'
    BY <2>1, <2>2, <2>3 DEF HasGone
  <2>5. skipping' = skipping /\ resolved' = resolved
    BY DEF scheduleVars
  <2> QED BY <2>4, <2>5, FiringsStay DEF ScheduleInv
<1> QED BY <1>1, <1>2, <1>3, <1>4 DEF ScheduleInv

\* A step of a reconciler fails.
LEMMA FailKeeps ==
  ASSUME ScheduleInv, NEW d \in Daemons, Fail(d)
  PROVE  ScheduleInv'
<1>1. /\ TypeOK /\ Fault /\ LoseClaim(d) /\ GoOn(d)
      /\ UNCHANGED <<now, scheduleVars, resolved, runs>>
  BY DEF Fail, ScheduleInv
<1>2. /\ reconciler' \in [Daemons -> States]
      /\ reconciler'[d].step = "next" /\ reconciler'[d].todo = reconciler[d].todo
      /\ \A e \in Daemons : e # d => reconciler'[e] = reconciler[e]
  BY <1>1, GoOnTypes
<1>3. TypeOK'
  <2>1. faults' \in 0 .. MaxFaults /\ lost' \subseteq Standing \X Time
    BY <1>1, FaultTypes, LoseTypes
  <2> QED BY <1>1, <1>2, <2>1 DEF TypeOK, scheduleVars, States
<1> QED BY <1>1, <1>2, <1>3, DropKeeps DEF Steps

\* What recovery makes of a row.
LEMMA RecoveredTypes ==
  \A status \in Active \cup {"ended"} :
    /\ Recovered[status] \in Active \cup {"ended"}
    /\ Recovered[status] \in Active => status \in Active
BY DEF Recovered, Active, Adrift

\* A daemon dies.
LEMMA DieKeeps ==
  ASSUME ScheduleInv, NEW d \in Daemons, Die(d)
  PROVE  ScheduleInv'
<1>1. /\ TypeOK /\ Fault /\ LoseClaim(d) /\ Become(d, Asleep)
      /\ UNCHANGED <<now, scheduleVars, resolved>>
      /\ runs' = [i \in DOMAIN runs |-> [runs[i] EXCEPT !.status = Recovered[@]]]
  BY DEF Die, ScheduleInv
<1>2. Asleep \in States /\ Asleep.step = "asleep" /\ Asleep.todo = {}
  BY DEF States, Asleep
<1>3. /\ reconciler' \in [Daemons -> States] /\ reconciler'[d] = Asleep
      /\ \A e \in Daemons : e # d => reconciler'[e] = reconciler[e]
  BY <1>1, <1>2, BecomeTypes
<1>4. /\ DOMAIN runs' = DOMAIN runs
      /\ \A i \in DOMAIN runs : /\ runs'[i] \in RunRecords
                                /\ runs'[i].schedule = runs[i].schedule
                                /\ runs'[i].due = runs[i].due
  <2>1. \A status \in Active \cup {"ended"} : Recovered[status] \in Active \cup {"ended"}
    BY RecoveredTypes
  <2> QED BY <1>1, <2>1, RunTypes DEF RunRecords
<1>5. runs' \in Seq(RunRecords)
  <2>1. runs' \in [1 .. Len(runs) -> RunRecords] /\ Len(runs) \in Nat
    BY <1>1, <1>4, RunTypes
  <2> QED BY <2>1, SeqDef
<1>6. TypeOK'
  <2>1. faults' \in 0 .. MaxFaults /\ lost' \subseteq Standing \X Time
    BY <1>1, FaultTypes, LoseTypes
  <2> QED BY <1>1, <1>3, <1>5, <2>1 DEF TypeOK, scheduleVars, States, RunRecords
<1> QED BY <1>1, <1>2, <1>3, <1>4, <1>6, DropKeeps DEF Steps

\* Nothing changes but the clock and the status of runs.
LEMMA OnlyStatusKeeps ==
  ASSUME ScheduleInv, TypeOK', UNCHANGED <<scheduleVars, resolved, reconciler, lost>>,
         DOMAIN runs' = DOMAIN runs,
         \A i \in DOMAIN runs : /\ runs'[i].schedule = runs[i].schedule
                                /\ runs'[i].due = runs[i].due
  PROVE  ScheduleInv'
<1>1. MadeFirst'
  BY DEF ScheduleInv, MadeFirst, scheduleVars, Schedule
<1>2. AccountIsKept'
  BY DEF ScheduleInv, AccountIsKept, scheduleVars, Schedule
<1>3. OnlySkipped'
  BY DEF ScheduleInv, OnlySkipped, scheduleVars, Schedule
<1>4. FiringsBecomeRuns'
  <2>1. \A s, t : HasGone(s, t) => HasGone(s, t)'
    BY DEF HasGone, Starting, Ran, Schedule
  <2>2. skipping' = skipping /\ resolved' = resolved
    BY DEF scheduleVars
  <2> QED BY <2>1, <2>2, FiringsStay DEF ScheduleInv
<1> QED BY <1>1, <1>2, <1>3, <1>4 DEF ScheduleInv

LEMMA SetStatusTypes ==
  ASSUME TypeOK, NEW i \in DOMAIN runs, NEW status \in Active \cup {"ended"},
         SetStatus(i, status)
  PROVE  /\ runs' \in Seq(RunRecords) /\ DOMAIN runs' = DOMAIN runs
         /\ runs'[i] = [runs[i] EXCEPT !.status = status] /\ runs'[i].status = status
         /\ \A j \in DOMAIN runs : j # i => runs'[j] = runs[j]
         /\ \A j \in DOMAIN runs : /\ runs'[j].schedule = runs[j].schedule
                                   /\ runs'[j].due = runs[j].due
<1> DEFINE new == [runs[i] EXCEPT !.status = status]
<1>1. /\ runs \in Seq(RunRecords) /\ DOMAIN runs = 1 .. Len(runs)
      /\ runs[i] \in RunRecords
  BY RunTypes
<1>2. /\ new \in RunRecords /\ new.status = status
      /\ new.schedule = runs[i].schedule /\ new.due = runs[i].due
  BY <1>1 DEF RunRecords
<1> HIDE DEF new
<1>3. runs' = [runs EXCEPT ![i] = new]
  BY DEF SetStatus, new
<1>4. runs' \in Seq(RunRecords)
  BY <1>1, <1>2, <1>3, ExceptSeq
<1> QED BY <1>1, <1>2, <1>3, <1>4 DEF new

\* The turn of a run comes, or it ends.
LEMMA RunKeeps ==
  ASSUME ScheduleInv, NEW i \in DOMAIN runs, Begin(i) \/ Finish(i) \/ FinishUnrecorded(i)
  PROVE  ScheduleInv'
<1>1. PICK status \in Active \cup {"ended"} : SetStatus(i, status)
  BY DEF Begin, Finish, FinishUnrecorded, Active, Adrift
<1>2. /\ TypeOK /\ UNCHANGED <<now, scheduleVars, resolved, reconciler, lost>>
      /\ faults' \in 0 .. MaxFaults
  BY FaultTypes DEF Begin, Finish, FinishUnrecorded, ScheduleInv, TypeOK
<1>3. /\ runs' \in Seq(RunRecords) /\ DOMAIN runs' = DOMAIN runs
      /\ \A j \in DOMAIN runs : /\ runs'[j].schedule = runs[j].schedule
                                /\ runs'[j].due = runs[j].due
  BY <1>1, <1>2, SetStatusTypes
<1>4. TypeOK'
  BY <1>2, <1>3 DEF TypeOK, scheduleVars, RunRecords
<1> QED BY <1>2, <1>3, <1>4, OnlyStatusKeeps

\* Time passes.
LEMMA TickKeeps ==
  ASSUME ScheduleInv, Tick
  PROVE  ScheduleInv'
<1>1. TypeOK'
  BY TimeTypes DEF ScheduleInv, TypeOK, Tick, Time, scheduleVars
<1> QED BY <1>1, OnlyStatusKeeps DEF Tick, scheduleVars

\* A schedule is made.
LEMMA NewScheduleKeeps ==
  ASSUME ScheduleInv, NEW s \in Standing, NewSchedule(s)
  PROVE  ScheduleInv'
<1>1. /\ TypeOK /\ made[s] = Never /\ stored' = stored \cup {s}
      /\ made' = [made EXCEPT ![s] = now] /\ skipping \subseteq skipping'
      /\ skipping' \subseteq skipping \cup {s}
      /\ UNCHANGED <<now, paused, resolved, runs, reconciler, lost, faults>>
  BY DEF NewSchedule, ScheduleInv
<1>2. /\ made' \in [Standing -> Time \cup {Never}] /\ made'[s] # Never
      /\ \A t \in Standing : t # s => made'[t] = made[t]
  BY <1>1, TimeTypes DEF TypeOK, Time
<1>3. TypeOK'
  BY <1>1, <1>2 DEF TypeOK
<1>4. /\ \A i \in DOMAIN runs : runs[i].schedule \in Standing
      /\ \A d \in Daemons : /\ reconciler[d].todo \subseteq Standing
                            /\ reconciler[d].step \in Steps => Schedule(d) \in Standing
  BY <1>1, RunTypes, StepTypes
<1>5. MadeFirst'
  BY <1>1, <1>2, <1>4 DEF ScheduleInv, MadeFirst, TypeOK, Schedule
<1>6. AccountIsKept'
  BY <1>1, <1>4 DEF ScheduleInv, MadeFirst, AccountIsKept, Schedule, Steps
<1>7. OnlySkipped'
  BY <1>1 DEF ScheduleInv, OnlySkipped, Schedule
<1>8. FiringsBecomeRuns'
  <2>1. \A r, t : HasGone(r, t) => HasGone(r, t)'
    BY <1>1 DEF HasGone, Starting, Ran, Schedule
  <2> QED BY <1>1, <2>1, FiringsStay DEF ScheduleInv
<1> QED BY <1>3, <1>5, <1>6, <1>7, <1>8 DEF ScheduleInv

\* A schedule is paused or resumed.
LEMMA PauseKeeps ==
  ASSUME ScheduleInv, NEW s \in Standing, PauseSchedule(s)
  PROVE  ScheduleInv'
<1>1. UNCHANGED <<now, made, stored, skipping, resolved, runs, reconciler, lost, faults>>
  BY DEF PauseSchedule
<1>2. TypeOK'
  BY DEF ScheduleInv, TypeOK, PauseSchedule
<1>3. MadeFirst' /\ AccountIsKept' /\ OnlySkipped'
  BY <1>1 DEF ScheduleInv, MadeFirst, AccountIsKept, OnlySkipped, Schedule
<1>4. FiringsBecomeRuns'
  <2>1. \A r, t : HasGone(r, t) => HasGone(r, t)'
    BY <1>1 DEF HasGone, Starting, Ran, Schedule
  <2> QED BY <1>1, <2>1, FiringsStay DEF ScheduleInv
<1> QED BY <1>2, <1>3, <1>4 DEF ScheduleInv

\* A schedule is forgotten, and its account with it.
LEMMA ForgetKeeps ==
  ASSUME ScheduleInv, NEW s \in Standing, ForgetSchedule(s)
  PROVE  ScheduleInv'
<1>1. /\ TypeOK /\ stored' = stored \ {s} /\ paused' = paused \ {s}
      /\ resolved' = [resolved EXCEPT ![s] = {}]
      /\ UNCHANGED <<now, made, skipping, runs, reconciler, lost, faults>>
  BY DEF ForgetSchedule, ScheduleInv
<1>2. /\ resolved' \in [Standing -> SUBSET Time] /\ resolved'[s] = {}
      /\ \A t \in Standing : t # s => resolved'[t] = resolved[t]
  BY <1>1 DEF TypeOK
<1>3. TypeOK'
  BY <1>1, <1>2 DEF TypeOK
<1>4. /\ \A i \in DOMAIN runs : runs[i].schedule \in Standing
      /\ \A d \in Daemons : reconciler[d].step \in Steps => Schedule(d) \in Standing
  BY <1>1, RunTypes, StepTypes
<1>5. MadeFirst' /\ OnlySkipped'
  BY <1>1 DEF ScheduleInv, MadeFirst, OnlySkipped, Schedule
<1>6. AccountIsKept'
  BY <1>1, <1>2, <1>4 DEF ScheduleInv, AccountIsKept, Schedule, Steps
<1>7. FiringsBecomeRuns'
  <2>1. \A r, t : HasGone(r, t) => HasGone(r, t)'
    BY <1>1 DEF HasGone, Starting, Ran, Schedule
  <2> QED BY <1>1, <1>2, <2>1, FiringsStay DEF ScheduleInv
<1> QED BY <1>3, <1>5, <1>6, <1>7 DEF ScheduleInv

LEMMA InitInv == Init => ScheduleInv
<1> SUFFICES ASSUME Init PROVE ScheduleInv
  OBVIOUS
<1>1. runs = <<>> /\ runs \in Seq(RunRecords) /\ DOMAIN runs = {}
  BY EmptySeq DEF Init
<1>2. TypeOK
  BY <1>1, TimeTypes DEF Init, TypeOK, Time, RunRecords
<1>3. MadeFirst /\ AccountIsKept /\ OnlySkipped /\ FiringsBecomeRuns
  BY <1>1 DEF Init, MadeFirst, AccountIsKept, OnlySkipped, FiringsBecomeRuns, Asleep, Steps
<1> QED BY <1>2, <1>3 DEF ScheduleInv

LEMMA NextKeeps == ScheduleInv /\ [Next]_vars => ScheduleInv'
<1> SUFFICES ASSUME ScheduleInv, [Next]_vars PROVE ScheduleInv'
  OBVIOUS
<1>1. CASE UNCHANGED vars
  <2>1. TypeOK'
    BY <1>1 DEF vars, scheduleVars, ScheduleInv, TypeOK
  <2> QED BY <1>1, <2>1, OnlyStatusKeeps DEF vars, scheduleVars
<1>2. CASE Tick
  BY <1>2, TickKeeps
<1>3. ASSUME NEW s \in Standing, NewSchedule(s) \/ PauseSchedule(s) \/ ForgetSchedule(s)
      PROVE  ScheduleInv'
  BY <1>3, NewScheduleKeeps, PauseKeeps, ForgetKeeps
<1>4. ASSUME NEW d \in Daemons, Reconcile(d) \/ Fail(d) \/ FailStart(d) \/ Die(d)
      PROVE  ScheduleInv'
  BY <1>4, ListKeeps, RestKeeps, LookKeeps, CheckBusyKeeps, AccountKeeps, ClaimKeeps,
     StartKeeps, FailKeeps, DieKeeps DEF Reconcile
<1>5. ASSUME NEW i \in DOMAIN runs, Begin(i) \/ Finish(i) \/ FinishUnrecorded(i)
      PROVE  ScheduleInv'
  BY <1>5, RunKeeps
<1> QED BY <1>1, <1>2, <1>3, <1>4, <1>5 DEF Next

\* With any number of daemons, in every reachable state.
THEOREM ScheduleInvariant == Spec => []ScheduleInv
BY InitInv, NextKeeps, PTL DEF Spec

\* Every variable keeps its type: what is owed is an occasion (due.go:75-83, Owed).
THEOREM TypeCorrect == Spec => []TypeOK
<1>1. ScheduleInv => TypeOK
  BY DEF ScheduleInv
<1> QED BY <1>1, ScheduleInvariant, PTL

\* No occasion is used up but by its run, by a failure to start it or by a policy that
\* skips it (scheduled.go:76-86, reconcileOne).
THEOREM FiringsHold == Spec => []FiringsBecomeRuns
<1>1. ScheduleInv => FiringsBecomeRuns
  BY DEF ScheduleInv
<1> QED BY <1>1, ScheduleInvariant, PTL
------------------------------------------------------------------------------
(* What holds with one daemon. *)

OneDaemon == \A d, e \in Daemons : d = e

\* The runs there are stay, and none becomes active.
RunsOnlyEnd ==
  /\ DOMAIN runs' = DOMAIN runs
  /\ \A i \in DOMAIN runs : /\ runs'[i].schedule = runs[i].schedule
                            /\ runs'[i].due = runs[i].due
                            /\ runs'[i].status \in Active => runs[i].status \in Active

LEMMA EndingRuns ==
  ASSUME RunsOnlyEnd
  PROVE  /\ OneRunPerOccasion => OneRunPerOccasion'
         /\ OneAtATime => OneAtATime'
         /\ \A s : Busy(s)' => Busy(s)
         /\ \A s, t : Ran(s, t)' => Ran(s, t)
BY DEF RunsOnlyEnd, OneRunPerOccasion, OneAtATime, Busy, Ran

\* The daemon is between two schedules.
LEMMA BetweenKeeps ==
  ASSUME OneDaemon, OneDaemonInv, ScheduleInv', RunsOnlyEnd,
         NEW d \in Daemons, reconciler'[d].step \notin Steps
  PROVE  OneDaemonInv'
<1>1. NotDoneBefore'
  BY DEF OneDaemon, NotDoneBefore, Steps
<1> QED BY <1>1, EndingRuns DEF OneDaemonInv

\* The daemon stays where it is.
LEMMA StayingKeeps ==
  ASSUME OneDaemonInv, ScheduleInv', RunsOnlyEnd, UNCHANGED reconciler,
         \A d \in Daemons : reconciler[d].step \in Steps /\ Schedule(d) \in stored' =>
           Schedule(d) \in stored /\ resolved'[Schedule(d)] \subseteq resolved[Schedule(d)]
  PROVE  OneDaemonInv'
<1>1. NotDoneBefore'
  <2> SUFFICES ASSUME NEW d \in Daemons
               PROVE  /\ reconciler[d].step \in {"busy", "claim"} /\ Schedule(d) \in stored' =>
                           reconciler[d].due \notin resolved'[Schedule(d)]
                      /\ reconciler[d].step = "start" => ~Ran(Schedule(d), reconciler[d].due)'
                      /\ reconciler[d].step \in {"claim", "start"} => ~Busy(Schedule(d))'
    BY DEF NotDoneBefore, Schedule
  <2>1. Schedule(d)' = Schedule(d) /\ reconciler'[d] = reconciler[d]
    BY DEF Schedule
  <2> QED BY <2>1, EndingRuns DEF OneDaemonInv, NotDoneBefore, Steps
<1> QED BY <1>1, EndingRuns DEF OneDaemonInv

\* What is owed is new.
LEMMA LookIsNew ==
  ASSUME OneDaemon, OneDaemonInv, ScheduleInv', NEW d \in Daemons, Look(d)
  PROVE  OneDaemonInv'
<1> DEFINE late(s) == Cardinality(Walked(s)) > 1
           new(s) == IF Walked(s) = {} THEN Asking(reconciler[d].todo \ {s})
                     ELSE Settling(IF s \in skipping /\ late(s) THEN "account" ELSE "busy",
                                   reconciler[d].todo \ {s}, s, Max(Walked(s)))
<1>1. PICK s \in reconciler[d].todo : Become(d, new(s))
  BY DEF Look
<1>2. /\ TypeOK /\ s \in Standing /\ RunsOnlyEnd
      /\ resolved' = resolved /\ stored' = stored
  BY StepTypes DEF Look, ReconcilerOnly, scheduleVars, RunsOnlyEnd, OneDaemonInv, ScheduleInv
<1>3. reconciler'[d] = new(s)
  BY <1>1, <1>2 DEF Become, TypeOK
<1>4. CASE Walked(s) = {}
  <2>1. reconciler'[d].step = "next"
    BY <1>3, <1>4 DEF Asking
  <2> QED BY <1>2, <2>1, BetweenKeeps DEF Steps
<1>5. CASE Walked(s) # {}
  <2>1. /\ reconciler'[d].step \in {"account", "busy"}
        /\ reconciler'[d].schedule = s /\ reconciler'[d].due = Max(Walked(s))
    BY <1>3, <1>5 DEF Settling
  <2>2. Max(Walked(s)) \notin resolved[s]
    BY <1>2, <1>5, OwedIsNew
  <2>3. NotDoneBefore'
    BY <1>2, <2>1, <2>2 DEF OneDaemon, NotDoneBefore, Schedule
  <2> QED BY <1>2, <2>3, EndingRuns DEF OneDaemonInv
<1> QED BY <1>4, <1>5

\* A schedule found idle has what it owes claimed.
LEMMA CheckBusyIsNew ==
  ASSUME OneDaemon, OneDaemonInv, ScheduleInv', NEW d \in Daemons, CheckBusy(d)
  PROVE  OneDaemonInv'
<1>1. /\ reconciler[d].step = "busy" /\ reconciler[d].step \in Steps /\ TypeOK /\ RunsOnlyEnd
      /\ runs' = runs /\ resolved' = resolved /\ stored' = stored
      /\ IF Busy(Schedule(d)) THEN GoOn(d) ELSE Goto(d, "claim")
  BY DEF CheckBusy, ReconcilerOnly, scheduleVars, RunsOnlyEnd, OneDaemonInv, ScheduleInv, Steps
<1>2. CASE Busy(Schedule(d))
  BY <1>1, <1>2, GoOnTypes, BetweenKeeps DEF Steps
<1>3. CASE ~Busy(Schedule(d))
  <2>1. /\ reconciler'[d].step = "claim" /\ Schedule(d)' = Schedule(d)
        /\ reconciler'[d].due = reconciler[d].due
    BY <1>1, <1>3, GotoTypes DEF Steps
  <2>2. ~Busy(Schedule(d))'
    BY <1>1, <1>3, <2>1 DEF Busy
  <2>3. NotDoneBefore'
    BY <1>1, <2>1, <2>2 DEF OneDaemon, OneDaemonInv, NotDoneBefore
  <2> QED BY <1>1, <2>3, EndingRuns DEF OneDaemonInv
<1> QED BY <1>2, <1>3

\* What is claimed was in no account, so it has no run.
LEMMA ClaimIsNew ==
  ASSUME OneDaemon, OneDaemonInv, ScheduleInv', NEW d \in Daemons, Claim(d)
  PROVE  OneDaemonInv'
<1>1. /\ reconciler[d].step = "claim" /\ reconciler[d].step \in Steps /\ TypeOK /\ RunsOnlyEnd
      /\ runs' = runs
      /\ IF Schedule(d) \in stored THEN Goto(d, "start") ELSE GoOn(d)
  BY DEF Claim, RunsOnlyEnd, OneDaemonInv, ScheduleInv, Steps
<1>2. CASE Schedule(d) \notin stored
  BY <1>1, <1>2, GoOnTypes, BetweenKeeps DEF Steps
<1>3. CASE Schedule(d) \in stored
  <2>1. /\ reconciler'[d].step = "start" /\ Schedule(d)' = Schedule(d)
        /\ reconciler'[d].due = reconciler[d].due
    BY <1>1, <1>3, GotoTypes DEF Steps
  <2>2. reconciler[d].due \notin resolved[Schedule(d)] /\ ~Busy(Schedule(d))
    BY <1>1, <1>3 DEF OneDaemonInv, NotDoneBefore
  <2>3. ~Ran(Schedule(d), reconciler[d].due)
    BY <1>3, <2>2 DEF OneDaemonInv, ScheduleInv, AccountIsKept, Ran
  <2>4. ~Busy(Schedule(d))' /\ ~Ran(Schedule(d), reconciler[d].due)'
    BY <1>1, <2>1, <2>2, <2>3 DEF Busy, Ran
  <2>5. NotDoneBefore'
    BY <2>1, <2>4 DEF OneDaemon, NotDoneBefore
  <2> QED BY <1>1, <2>5, EndingRuns DEF OneDaemonInv
<1> QED BY <1>2, <1>3

\* The run that is started is the first for its occasion, and alone.
LEMMA StartIsNew ==
  ASSUME OneDaemon, OneDaemonInv, ScheduleInv', NEW d \in Daemons, Start(d) \/ FailStart(d)
  PROVE  OneDaemonInv'
<1>0. PICK status \in Active : CreateRun(d, status)
  BY StartCreates DEF OneDaemonInv, ScheduleInv
<1>1. /\ reconciler[d].step = "start" /\ TypeOK /\ GoOn(d)
      /\ ~Ran(Schedule(d), reconciler[d].due) /\ ~Busy(Schedule(d))
  BY <1>0 DEF CreateRun, OneDaemonInv, ScheduleInv, NotDoneBefore
<1> DEFINE n == Len(runs) + 1
<1>2. /\ Len(runs) \in Nat /\ DOMAIN runs = 1 .. Len(runs) /\ DOMAIN runs' = 1 .. n
      /\ \A i \in DOMAIN runs : runs'[i] = runs[i]
      /\ runs'[n].schedule = Schedule(d) /\ runs'[n].due = reconciler[d].due
  <2>1. Len(runs) \in Nat /\ DOMAIN runs = 1 .. Len(runs)
    BY <1>1, RunTypes
  <2>2. /\ DOMAIN runs' = 1 .. n
        /\ \A i \in DOMAIN runs : runs'[i] = runs[i]
        /\ runs'[n] = [schedule |-> Schedule(d), due |-> reconciler[d].due, status |-> status]
    BY <1>0, <1>1, StartTypes
  <2> HIDE DEF n
  <2> QED BY <2>1, <2>2
<1>3. \A i \in DOMAIN runs' : i = n \/ i \in DOMAIN runs
  BY <1>2
<1> HIDE DEF n
<1>4. OneRunPerOccasion'
  BY <1>1, <1>2, <1>3 DEF OneDaemonInv, OneRunPerOccasion, Ran
<1>5. OneAtATime'
  BY <1>1, <1>2, <1>3 DEF OneDaemonInv, OneAtATime, Busy
<1>6. reconciler'[d].step = "next"
  BY <1>1, GoOnTypes
<1>7. NotDoneBefore'
  BY <1>6 DEF OneDaemon, NotDoneBefore
<1> QED BY <1>4, <1>5, <1>7 DEF OneDaemonInv

\* The reconciler lists, rests, accounts for what it skips, fails or dies.
LEMMA RestIsNew ==
  ASSUME OneDaemon, OneDaemonInv, ScheduleInv', NEW d \in Daemons,
         List(d) \/ Rest(d) \/ Account(d) \/ Fail(d) \/ Die(d)
  PROVE  OneDaemonInv'
<1>1. TypeOK /\ reconciler \in [Daemons -> States]
  BY DEF OneDaemonInv, ScheduleInv, TypeOK, States
<1>2. reconciler'[d].step \notin Steps
  BY <1>1 DEF List, Rest, Account, Fail, Die, GoOn, Become, Asking, Asleep, Steps
<1>3. RunsOnlyEnd
  <2>1. CASE runs' = runs
    BY <2>1 DEF RunsOnlyEnd
  <2>2. CASE Die(d)
    BY <1>1, <2>2, RunTypes, RecoveredTypes DEF Die, RunsOnlyEnd, RunRecords
  <2> QED BY <2>1, <2>2 DEF List, Rest, Account, Fail, ReconcilerOnly
<1> QED BY <1>2, <1>3, BetweenKeeps

\* The turn of a run comes, or it ends.
LEMMA RunIsNew ==
  ASSUME OneDaemonInv, ScheduleInv', NEW i \in DOMAIN runs,
         Begin(i) \/ Finish(i) \/ FinishUnrecorded(i)
  PROVE  OneDaemonInv'
<1>1. PICK status \in Active \cup {"ended"} : SetStatus(i, status)
  BY DEF Begin, Finish, FinishUnrecorded, Active, Adrift
<1>2. /\ TypeOK /\ UNCHANGED <<now, scheduleVars, resolved, reconciler, lost>>
      /\ runs[i].status \in Active
  BY DEF Begin, Finish, FinishUnrecorded, OneDaemonInv, ScheduleInv, Active
<1>3. RunsOnlyEnd
  BY <1>1, <1>2, SetStatusTypes DEF RunsOnlyEnd
<1> QED BY <1>2, <1>3, StayingKeeps DEF scheduleVars

\* Time passes, and people make, pause and forget schedules.
LEMMA PeopleAreNew ==
  ASSUME OneDaemonInv, ScheduleInv',
         \/ Tick \/ UNCHANGED vars
         \/ \E s \in Standing : NewSchedule(s) \/ PauseSchedule(s) \/ ForgetSchedule(s)
  PROVE  OneDaemonInv'
<1>1. UNCHANGED <<reconciler, runs>> /\ RunsOnlyEnd
  BY DEF Tick, vars, NewSchedule, PauseSchedule, ForgetSchedule, RunsOnlyEnd
<1>2. TypeOK /\ MadeFirst
  BY DEF OneDaemonInv, ScheduleInv
<1>3. CASE Tick \/ UNCHANGED vars
  BY <1>1, <1>3, StayingKeeps DEF Tick, vars, scheduleVars
<1>4. ASSUME NEW s \in Standing, NewSchedule(s)
      PROVE  OneDaemonInv'
  <2>1. \A d \in Daemons : reconciler[d].step \in Steps => Schedule(d) # s
    BY <1>2, <1>4 DEF NewSchedule, MadeFirst
  <2>2. stored' = stored \cup {s} /\ resolved' = resolved
    BY <1>4 DEF NewSchedule
  <2> QED BY <1>1, <2>1, <2>2, StayingKeeps
<1>5. ASSUME NEW s \in Standing, PauseSchedule(s) \/ ForgetSchedule(s)
      PROVE  OneDaemonInv'
  <2>1. stored' \subseteq stored /\ \A t \in Standing : resolved'[t] \subseteq resolved[t]
    BY <1>2, <1>5 DEF PauseSchedule, ForgetSchedule, TypeOK
  <2>2. \A d \in Daemons : reconciler[d].step \in Steps => Schedule(d) \in Standing
    BY <1>2, StepTypes
  <2> QED BY <1>1, <2>1, <2>2, StayingKeeps
<1> QED BY <1>3, <1>4, <1>5

LEMMA NextIsNew ==
  ASSUME OneDaemon
  PROVE  OneDaemonInv /\ [Next]_vars => OneDaemonInv'
<1> SUFFICES ASSUME OneDaemonInv, [Next]_vars PROVE OneDaemonInv'
  OBVIOUS
<1>1. ScheduleInv'
  BY NextKeeps DEF OneDaemonInv
<1>2. CASE UNCHANGED vars \/ Tick
  BY <1>1, <1>2, PeopleAreNew
<1>3. ASSUME NEW s \in Standing, NewSchedule(s) \/ PauseSchedule(s) \/ ForgetSchedule(s)
      PROVE  OneDaemonInv'
  BY <1>1, <1>3, PeopleAreNew
<1>4. ASSUME NEW d \in Daemons, Reconcile(d) \/ Fail(d) \/ FailStart(d) \/ Die(d)
      PROVE  OneDaemonInv'
  BY <1>1, <1>4, RestIsNew, LookIsNew, CheckBusyIsNew, ClaimIsNew, StartIsNew DEF Reconcile
<1>5. ASSUME NEW i \in DOMAIN runs, Begin(i) \/ Finish(i) \/ FinishUnrecorded(i)
      PROVE  OneDaemonInv'
  BY <1>1, <1>5, RunIsNew
<1> QED BY <1>2, <1>3, <1>4, <1>5 DEF Next

LEMMA InitIsNew == Init => OneDaemonInv
<1> SUFFICES ASSUME Init PROVE OneDaemonInv
  OBVIOUS
<1>1. DOMAIN runs = {} /\ \A d \in Daemons : reconciler[d].step = "asleep"
  BY EmptySeq DEF Init, Asleep
<1> QED BY <1>1, InitInv DEF OneDaemonInv, NotDoneBefore, OneRunPerOccasion, OneAtATime

\* One daemon starts one run for an occasion (scheduled.go:94-96, reconcileOne).
THEOREM OneDaemonOneRun ==
  ASSUME OneDaemon
  PROVE  Spec => []OneRunPerOccasion
<1>1. OneDaemonInv => OneRunPerOccasion
  BY DEF OneDaemonInv
<1>2. Init => OneDaemonInv
  BY InitIsNew
<1>3. OneDaemonInv /\ [Next]_vars => OneDaemonInv'
  BY NextIsNew
<1> QED BY <1>1, <1>2, <1>3, PTL DEF Spec

\* One daemon has one run of a schedule at a time (scheduled.go:72-75, scheduleIsBusy).
THEOREM OneDaemonOneAtATime ==
  ASSUME OneDaemon
  PROVE  Spec => []OneAtATime
<1>1. OneDaemonInv => OneAtATime
  BY DEF OneDaemonInv
<1>2. Init => OneDaemonInv
  BY InitIsNew
<1>3. OneDaemonInv /\ [Next]_vars => OneDaemonInv'
  BY NextIsNew
<1> QED BY <1>1, <1>2, <1>3, PTL DEF Spec
=============================================================================
