----------------------------- MODULE Schedules -----------------------------
(***************************************************************************)
(* Standing instructions. Each names the occasions it is due; a daemon     *)
(* asks again and again what it owes, working from the occasions           *)
(* accounted for, claims the one it answers and starts a run for it        *)
(* (runtime/scheduled.go, schedule/due.go, storage/sqlite/schedules.go),   *)
(* while the machine sleeps, the daemon dies and people make, pause and    *)
(* forget schedules (runtime/schedules.go).                                *)
(***************************************************************************)
EXTENDS Integers, Sequences, FiniteSets, FiniteSetsExt

CONSTANTS
  Standing,      \* the schedules people make
  Daemons,       \* the processes that reconcile on one database
  Never,         \* a time before every other: no time
  MaxTime,       \* bound: the last tick of the clock
  Occasions,     \* when the expression of each schedule says it is due
  MostCounted,   \* how many missed occasions are walked at once
  MaxFaults      \* bound: failed steps and daemons that die

Time == 0 .. MaxTime

ASSUME SchedulesAssumption ==
  /\ MaxTime \in Nat /\ Never = -1
  /\ Occasions \in [Standing -> SUBSET Time]
  /\ MostCounted \in Nat /\ MaxFaults \in Nat

VARIABLES
  now,          \* the clock
  made,         \* created_at of each schedule, or Never
  stored,       \* the schedules that have a row
  paused,       \* those of them that are paused
  skipping,     \* those made to run nothing that was missed
  resolved,     \* schedule_firings: the occasions accounted for
  runs,         \* the runs with a row: what for, and their status
  reconciler,   \* where the Reconcile of each daemon is
  lost,         \* claimed occasions that got no run; the program keeps no such thing
  faults

scheduleVars == <<made, stored, paused, skipping>>
vars == <<now, scheduleVars, resolved, runs, reconciler, lost, faults>>

Asleep == [step |-> "asleep", todo |-> {}]
Asking(todo) == [step |-> "next", todo |-> todo]
Settling(step, todo, s, due) == [step |-> step, todo |-> todo, schedule |-> s, due |-> due]
Steps == {"account", "busy", "claim", "start"}

Init ==
  /\ now = 0 /\ made = [s \in Standing |-> Never] /\ stored = {}
  /\ paused = {} /\ skipping = {}
  /\ resolved = [s \in Standing |-> {}] /\ runs = <<>>
  /\ reconciler = [d \in Daemons |-> Asleep]
  /\ lost = {} /\ faults = 0
------------------------------------------------------------------------------
\* Time passes; a machine that sleeps lets much of it pass between two questions.
Tick ==
  /\ now < MaxTime /\ now' = now + 1
  /\ UNCHANGED <<scheduleVars, resolved, runs, reconciler, lost, faults>>

NewSchedule(s) ==
  /\ made[s] = Never
  /\ made' = [made EXCEPT ![s] = now] /\ stored' = stored \cup {s}
  /\ skipping' \in {skipping, skipping \cup {s}}
  /\ UNCHANGED <<now, paused, resolved, runs, reconciler, lost, faults>>

PauseSchedule(s) ==
  /\ s \in stored
  /\ paused' = IF s \in paused THEN paused \ {s} ELSE paused \cup {s}
  /\ UNCHANGED <<now, made, stored, skipping, resolved, runs, reconciler, lost, faults>>

\* The account of what it has done goes with it.
ForgetSchedule(s) ==
  /\ s \in stored
  /\ stored' = stored \ {s} /\ paused' = paused \ {s}
  /\ resolved' = [resolved EXCEPT ![s] = {}]
  /\ UNCHANGED <<now, made, skipping, runs, reconciler, lost, faults>>
------------------------------------------------------------------------------
LastFiring(s) == Max({Never} \cup resolved[s])

\* What a schedule goes on from: what it last did, or when it was made.
Since(s) == IF resolved[s] = {} THEN made[s] ELSE LastFiring(s)

Outstanding(s) == {t \in Occasions[s] : Since(s) < t /\ t <= now}

\* Owed walks them from the earliest, and not without end.
Walked(s) ==
  {t \in Outstanding(s) :
     Cardinality({u \in Outstanding(s) : u < t}) <= MostCounted + 1}

ReconcilerOnly ==
  UNCHANGED <<now, scheduleVars, resolved, runs, lost, faults>>

Become(d, state) == reconciler' = [reconciler EXCEPT ![d] = state]

\* Reconcile lists the schedules; a paused one owes nothing ...
List(d) ==
  /\ reconciler[d].step = "asleep"
  /\ Become(d, Asking(stored \ paused))
  /\ ReconcilerOnly

Rest(d) ==
  /\ reconciler[d] = Asking({})
  /\ Become(d, Asleep)
  /\ ReconcilerOnly


Look_NeverResolved(d) ==  \* mutant: nothing owed is not told from something owed
  /\ reconciler[d].step = "next"
  /\ \E s \in reconciler[d].todo :
       Become(d, Settling("busy", reconciler[d].todo \ {s}, s, Max({Never} \cup Walked(s))))
  /\ ReconcilerOnly

\* ... and what each of the others owes is the last occasion outstanding, worth a run
\* unless others were missed before it and the schedule skips those.
Look(d) ==
  /\ reconciler[d].step = "next"
  /\ \E s \in reconciler[d].todo :
       LET todo == reconciler[d].todo \ {s}
           late == Cardinality(Walked(s)) > 1
       IN Become(d, IF Walked(s) = {} THEN Asking(todo)
                    ELSE Settling(IF s \in skipping /\ late THEN "account" ELSE "busy",
                                  todo, s, Max(Walked(s))))
  /\ ReconcilerOnly

Schedule(d) == reconciler[d].schedule
GoOn(d) == Become(d, Asking(reconciler[d].todo))
Goto(d, step) == reconciler' = [reconciler EXCEPT ![d].step = step]

\* A row nobody drives: of a run that is not in line, or whose end was not recorded.
Adrift == {"stranded", "unended"}
Active == {"queued", "running"} \cup Adrift

Busy_Running(s) ==  \* mutant: a run in line is not seen
  \E i \in DOMAIN runs : runs[i].schedule = s /\ runs[i].status = "running"

\* scheduleIsBusy: the row of one of its runs says it is still going.
Busy(s) == \E i \in DOMAIN runs : runs[i].schedule = s /\ runs[i].status \in Active

CheckBusy_Consumes(d) ==  \* mutant: an occasion that finds the schedule busy is accounted for
  /\ reconciler[d].step = "busy"
  /\ IF Busy(Schedule(d)) THEN Goto(d, "account") ELSE Goto(d, "claim")
  /\ ReconcilerOnly

CheckBusy(d) ==
  /\ reconciler[d].step = "busy"
  /\ IF Busy(Schedule(d)) THEN GoOn(d) ELSE Goto(d, "claim")
  /\ ReconcilerOnly

\* ResolveFiring: an occasion accounted for before stays so, and one of a schedule that
\* is gone cannot be.
Resolve(d) ==
  resolved' = [resolved EXCEPT ![Schedule(d)] =
                 IF Schedule(d) \in stored THEN @ \cup {reconciler[d].due} ELSE @]

Account(d) ==
  /\ reconciler[d].step = "account"
  /\ Resolve(d) /\ GoOn(d)
  /\ UNCHANGED <<now, scheduleVars, runs, lost, faults>>

Claim_AfterStart(d) ==  \* mutant: nothing is claimed before the run is started
  /\ reconciler[d].step = "claim" /\ Goto(d, "start")
  /\ UNCHANGED <<now, scheduleVars, resolved, runs, lost, faults>>

\* markResolved takes the answer that somebody else accounted for it as done, and goes on.
Claim(d) ==
  /\ reconciler[d].step = "claim" /\ Resolve(d)
  /\ IF Schedule(d) \in stored THEN Goto(d, "start") ELSE GoOn(d)
  /\ UNCHANGED <<now, scheduleVars, runs, lost, faults>>

CreateRun(d, status) ==
  /\ reconciler[d].step = "start" /\ GoOn(d)
  /\ runs' = Append(runs, [schedule |-> Schedule(d), due |-> reconciler[d].due,
                           status |-> status])
  /\ UNCHANGED <<now, scheduleVars, resolved, lost>>

\* startScheduled. RecordFiringRun then notes the run on the firing, where nothing reads it.
Start(d) == CreateRun(d, "queued") /\ UNCHANGED faults

Fault == faults < MaxFaults /\ faults' = faults + 1

\* The run has its row, and its message or its wait is not recorded: it is not in line, or
\* its turn had come already.
FailStart(d) == (CreateRun(d, "stranded") \/ CreateRun(d, "queued")) /\ Fault

LoseClaim(d) ==
  lost' = IF reconciler[d].step = "start"
          THEN lost \cup {<<Schedule(d), reconciler[d].due>>} ELSE lost

\* A step fails, before there is a run: the daemon goes on with the next schedule, and
\* what was claimed stays so.
Fail(d) ==
  /\ reconciler[d].step \in Steps /\ Fault
  /\ LoseClaim(d) /\ GoOn(d)
  /\ UNCHANGED <<now, scheduleVars, resolved, runs>>

Reconcile(d) ==
  \/ List(d) \/ Rest(d) \/ Look(d) \/ CheckBusy(d) \/ Account(d) \/ Claim(d) \/ Start(d)
------------------------------------------------------------------------------
SetStatus(i, status) == runs' = [runs EXCEPT ![i].status = status]

Begin(i) ==
  /\ runs[i].status = "queued" /\ SetStatus(i, "running")
  /\ UNCHANGED <<now, scheduleVars, resolved, reconciler, lost, faults>>

Finish(i) ==
  /\ runs[i].status = "running" /\ SetStatus(i, "ended")
  /\ UNCHANGED <<now, scheduleVars, resolved, reconciler, lost, faults>>

\* A run ends, and its row goes on saying that it runs.
FinishUnrecorded(i) ==
  /\ runs[i].status = "running" /\ Fault /\ SetStatus(i, "unended")
  /\ UNCHANGED <<now, scheduleVars, resolved, reconciler, lost>>

Recovered == [queued |-> "queued", stranded |-> "queued",
              running |-> "ended", unended |-> "ended", ended |-> "ended"]

\* A daemon dies. The next one fails what its row says was being answered, and lines up
\* what its row says waited.
Die(d) ==
  /\ Fault /\ LoseClaim(d) /\ Become(d, Asleep)
  /\ runs' = [i \in DOMAIN runs |-> [runs[i] EXCEPT !.status = Recovered[@]]]
  /\ UNCHANGED <<now, scheduleVars, resolved>>

Next ==
  \/ Tick
  \/ \E s \in Standing : NewSchedule(s) \/ PauseSchedule(s) \/ ForgetSchedule(s)
  \/ \E d \in Daemons : Reconcile(d) \/ Fail(d) \/ FailStart(d) \/ Die(d)
  \/ \E i \in DOMAIN runs : Begin(i) \/ Finish(i) \/ FinishUnrecorded(i)

Spec == Init /\ [][Next]_vars

\* The daemon asks every minute, and the runs in line and those it drives are answered.
Fairness ==
  /\ \A d \in Daemons : WF_vars(Reconcile(d))
  /\ WF_vars(\E i \in DOMAIN runs : Begin(i) \/ Finish(i))

FairSpec == Spec /\ Fairness
------------------------------------------------------------------------------
Settlings ==
  [step : Steps, todo : SUBSET Standing, schedule : Standing, due : Time]

TypeOK ==
  /\ now \in Time /\ made \in [Standing -> Time \cup {Never}]
  /\ stored \subseteq Standing /\ paused \subseteq stored
  /\ skipping \subseteq Standing
  /\ resolved \in [Standing -> SUBSET Time]
  /\ runs \in Seq([schedule : Standing, due : Time, status : Active \cup {"ended"}])
  /\ reconciler \in
       [Daemons -> {Asleep} \cup [step : {"next"}, todo : SUBSET Standing] \cup Settlings]
  /\ lost \subseteq Standing \X Time
  /\ faults \in 0 .. MaxFaults

\* One occasion becomes one run, however often the daemon asks and wherever it died
\* before (scheduled.go:94-96, reconcileOne).
OneRunPerOccasion ==
  \A i, j \in DOMAIN runs :
    runs[i].schedule = runs[j].schedule /\ runs[i].due = runs[j].due => i = j

\* A schedule whose answer takes longer than its interval does not pile up runs
\* (scheduled.go:72-75, scheduleIsBusy).
OneAtATime ==
  \A i, j \in DOMAIN runs :
    runs[i].schedule = runs[j].schedule /\ {runs[i].status, runs[j].status} \subseteq Active
      => i = j

Ran(s, t) == \E i \in DOMAIN runs : runs[i].schedule = s /\ runs[i].due = t

\* An occasion is used up by its run, by a failure to start it or, where the schedule
\* skips, by others after it; never by a reconcile that found the schedule busy
\* (scheduled.go:76-86, reconcileOne).
FiringsBecomeRuns ==
  \A s \in Standing \ skipping : \A t \in resolved[s] :
    \/ Ran(s, t) \/ <<s, t>> \in lost
    \/ \E d \in Daemons :
         /\ reconciler[d].step = "start"
         /\ Schedule(d) = s /\ reconciler[d].due = t

\* A run of it that nobody drives keeps it busy.
HeldUp(s) == \E i \in DOMAIN runs : runs[i].schedule = s /\ runs[i].status \in Adrift

=============================================================================
