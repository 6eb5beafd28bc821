---------------------------- MODULE SweepScheduler ----------------------------
(***************************************************************************)
(* Who checks which site when: the cron job (monitoringJob.ts), the        *)
(* external trigger POST /api/monitor/run (monitor.controller.ts) and the  *)
(* sweep they start (runMonitoringSweep and findDueSites in                *)
(* monitoring.service.ts), around the boolean sweepInProgress.             *)
(*                                                                         *)
(* Time is counted in cron ticks, and dates as the ticks that have passed  *)
(* since: age[s] is how long ago lastCheckedAt is.  A check is its probe   *)
(* and its write; what happens in between is SiteMonitoring.  The pool     *)
(* takes its sites in any order, which covers the order of WorkerPool.     *)
(***************************************************************************)
EXTENDS Naturals, FiniteSets

CONSTANTS Sites, Sweeps,
          Interval,        \* intervalMinutes of each site, in ticks
          AgeCap,          \* bound: ages saturate here; a site never checked has this age
          FindTicks,       \* bound: ticks that can pass while findDueSites is answered
          Concurrency,     \* MONITOR_CONCURRENCY
          MaxExternals,    \* bound: sweeps started by POST /api/monitor/run
          MaxFaults        \* bound: failed database calls and restarts

ASSUME SchedulerAssumption ==
    /\ Interval \in [Sites -> Nat \ {0}]
    /\ FindTicks \in Nat /\ AgeCap \in Nat /\ MaxFaults \in Nat
    /\ \A s \in Sites : Interval[s] + FindTicks <= AgeCap
    /\ Concurrency \in Nat \ {0}
    /\ MaxExternals \in Nat

VARIABLES enabled,         \* monitoringEnabled of each site
          age,             \* ticks since its lastCheckedAt
          tickPending,     \* the cron callback is due
          sweepInProgress, \* the module-level boolean
          sweep,           \* per runMonitoringSweep call: where it is
          job,             \* per call and site: where its checkSite is
          externals, faults

vars == <<enabled, age, tickPending, sweepInProgress, sweep, job, externals, faults>>

Ages  == 0 .. AgeCap
Sweep == [pc : {"idle", "find", "create", "check"}, trigger : {"CRON", "EXTERNAL"}, late : 0 .. FindTicks]
Job   == [pc : {"none", "waiting", "probing", "writing"}, taken : Ages]

TypeOK ==
    /\ enabled \in [Sites -> BOOLEAN]
    /\ age \in [Sites -> Ages]
    /\ tickPending \in BOOLEAN
    /\ sweepInProgress \in BOOLEAN
    /\ sweep \in [Sweeps -> Sweep]
    /\ job \in [Sweeps -> [Sites -> Job]]
    /\ externals \in 0 .. MaxExternals
    /\ faults \in 0 .. MaxFaults

NoSweep == [pc |-> "idle", trigger |-> "CRON", late |-> 0]
NoJob   == [pc |-> "none", taken |-> 0]

Init ==
    /\ enabled = [s \in Sites |-> TRUE]
    /\ age = [s \in Sites |-> AgeCap]
    /\ tickPending = FALSE
    /\ sweepInProgress = FALSE
    /\ sweep = [k \in Sweeps |-> NoSweep]
    /\ job = [k \in Sweeps |-> [s \in Sites |-> NoJob]]
    /\ externals = 0 /\ faults = 0

Active(k)   == sweep[k].pc # "idle"
InFlight(k) == {s \in Sites : job[k][s].pc \in {"probing", "writing"}}
Older(n)    == IF n < AgeCap THEN n + 1 ELSE AgeCap

-----------------------------------------------------------------------------
(* Triggers *)

\* A minute passes and node-cron's callback is queued; the previous minute's
\* callback, if it never ran, is not made up for.
Tick ==
    /\ \A k \in Sweeps : sweep[k].pc = "find" => sweep[k].late < FindTicks
    /\ tickPending' = TRUE
    /\ age' = [s \in Sites |-> Older(age[s])]
    /\ sweep' = [k \in Sweeps |-> IF sweep[k].pc = "find" THEN [sweep[k] EXCEPT !.late = @ + 1]
                                  ELSE sweep[k]]
    /\ job' = [k \in Sweeps |-> [s \in Sites |->
                 IF job[k][s].pc = "writing" THEN [job[k][s] EXCEPT !.taken = Older(@)]
                 ELSE job[k][s]]]
    /\ UNCHANGED <<enabled, sweepInProgress, externals, faults>>

\* The synchronous head of runMonitoringSweep, up to the await of findDueSites
Begin(k, trigger) ==
    /\ sweep[k].pc = "idle"
    /\ sweepInProgress' = TRUE
    /\ sweep' = [sweep EXCEPT ![k] = [pc |-> "find", trigger |-> trigger, late |-> 0]]

CronIgnoresFlag(k) ==       \* bug: the job does not ask isSweepInProgress
    /\ tickPending
    /\ tickPending' = FALSE
    /\ Begin(k, "CRON")
    /\ UNCHANGED <<enabled, age, job, externals, faults>>

\* The cron callback: skip the tick while a sweep is said to be running
CronTick(k) ==
    /\ tickPending
    /\ tickPending' = FALSE
    /\ IF sweepInProgress THEN UNCHANGED <<sweepInProgress, sweep>> ELSE Begin(k, "CRON")
    /\ UNCHANGED <<enabled, age, job, externals, faults>>

\* triggerSweep: nothing asks whether a sweep is running
ExternalTrigger(k) ==
    /\ externals < MaxExternals
    /\ externals' = externals + 1
    /\ Begin(k, "EXTERNAL")
    /\ UNCHANGED <<enabled, age, tickPending, job, faults>>

-----------------------------------------------------------------------------
(* runMonitoringSweep *)

Finally(k) ==
    /\ sweepInProgress' = FALSE
    /\ sweep' = [sweep EXCEPT ![k] = NoSweep]

\* monitoringEnabled, and lastCheckedAt null or at least the interval before startedAt;
\* counted in ticks, a site checked a little after one is due up to a tick early
Due(k) == {s \in Sites : enabled[s] /\ age[s] >= Interval[s] + sweep[k].late}

FindDueAll(k) ==            \* bug: the query forgets lastCheckedAt
    /\ sweep[k].pc = "find"
    /\ sweep' = [sweep EXCEPT ![k].pc = "create"]
    /\ job' = [job EXCEPT ![k] = [s \in Sites |->
                 IF enabled[s] THEN [pc |-> "waiting", taken |-> 0] ELSE NoJob]]
    /\ UNCHANGED <<enabled, age, tickPending, sweepInProgress, externals, faults>>

FindDueOldest(k) ==         \* bug: a sweep takes the site that has waited longest, alone
    LET oldest == CHOOSE q \in Due(k) : \A s \in Due(k) : age[s] <= age[q]
    IN  /\ sweep[k].pc = "find"
        /\ sweep' = [sweep EXCEPT ![k].pc = "create"]
        /\ job' = [job EXCEPT ![k] = [s \in Sites |->
                     IF s \in Due(k) /\ s = oldest
                     THEN [pc |-> "waiting", taken |-> 0] ELSE NoJob]]
        /\ UNCHANGED <<enabled, age, tickPending, sweepInProgress, externals, faults>>

\* findDueSites answers; an idle cron sweep is over at once
FindDueSites(k) ==
    /\ sweep[k].pc = "find"
    /\ IF Due(k) = {} /\ sweep[k].trigger = "CRON"
       THEN Finally(k) /\ UNCHANGED job
       ELSE /\ sweep' = [sweep EXCEPT ![k].pc = "create"]
            /\ job' = [job EXCEPT ![k] = [s \in Sites |->
                         IF s \in Due(k) THEN [pc |-> "waiting", taken |-> 0] ELSE NoJob]]
            /\ UNCHANGED sweepInProgress
    /\ UNCHANGED <<enabled, age, tickPending, externals, faults>>

\* MonitorRun.create
CreateRun(k) ==
    /\ sweep[k].pc = "create"
    /\ sweep' = [sweep EXCEPT ![k].pc = "check"]
    /\ UNCHANGED <<enabled, age, tickPending, sweepInProgress, job, externals, faults>>

\* A worker of runWithConcurrency takes a site and checkSite sends its request.
StartCheck(k, s) ==
    /\ sweep[k].pc = "check"
    /\ job[k][s].pc = "waiting"
    /\ Cardinality(InFlight(k)) < Concurrency
    /\ job' = [job EXCEPT ![k][s].pc = "probing"]
    /\ UNCHANGED <<enabled, age, tickPending, sweepInProgress, sweep, externals, faults>>

\* runHealthCheck answers: checkedAt is now
ProbeDone(k, s) ==
    /\ job[k][s].pc = "probing"
    /\ job' = [job EXCEPT ![k][s] = [pc |-> "writing", taken |-> 0]]
    /\ UNCHANGED <<enabled, age, tickPending, sweepInProgress, sweep, externals, faults>>

\* Site.updateOne with lastCheckedAt: checkedAt, and the check is over
CheckDone(k, s) ==
    /\ job[k][s].pc = "writing"
    /\ age' = [age EXCEPT ![s] = job[k][s].taken]
    /\ job' = [job EXCEPT ![k][s] = NoJob]
    /\ UNCHANGED <<enabled, tickPending, sweepInProgress, sweep, externals, faults>>

SweepDoneKeepsFlag(k) ==    \* bug: the flag is cleared on the idle path only
    /\ sweep[k].pc = "check"
    /\ \A s \in Sites : job[k][s].pc = "none"
    /\ sweep' = [sweep EXCEPT ![k] = NoSweep]
    /\ UNCHANGED <<enabled, age, tickPending, sweepInProgress, job, externals, faults>>

\* The pool has resolved, MonitorRun.updateOne is done: the finally block
SweepDone(k) ==
    /\ sweep[k].pc = "check"
    /\ \A s \in Sites : job[k][s].pc = "none"
    /\ Finally(k)
    /\ UNCHANGED <<enabled, age, tickPending, job, externals, faults>>

-----------------------------------------------------------------------------
(* Users, failures, restarts *)

\* A user pauses or resumes the site.
Toggle(s) ==
    /\ enabled' = [enabled EXCEPT ![s] = ~@]
    /\ UNCHANGED <<age, tickPending, sweepInProgress, sweep, job, externals, faults>>

Fault == faults < MaxFaults /\ faults' = faults + 1

\* findDueSites or a MonitorRun write throws: only the finally block runs
SweepThrows(k) ==
    /\ Fault
    /\ Active(k)
    /\ InFlight(k) = {}
    /\ sweep[k].pc = "check" => \A s \in Sites : job[k][s].pc = "none"
    /\ Finally(k)
    /\ job' = [job EXCEPT ![k] = [s \in Sites |-> NoJob]]
    /\ UNCHANGED <<enabled, age, tickPending, externals>>

\* checkSite's catch: lastCheckedAt is now, unless that write fails as well
CheckThrows(k, s) ==
    /\ Fault
    /\ job[k][s].pc = "writing"
    /\ \/ age' = [age EXCEPT ![s] = 0]
       \/ UNCHANGED age
    /\ job' = [job EXCEPT ![k][s] = NoJob]
    /\ UNCHANGED <<enabled, tickPending, sweepInProgress, sweep, externals>>

\* The process restarts; the flag lives in its memory.
Restart ==
    /\ Fault
    /\ tickPending' = FALSE
    /\ sweepInProgress' = FALSE
    /\ sweep' = [k \in Sweeps |-> NoSweep]
    /\ job' = [k \in Sweeps |-> [s \in Sites |-> NoJob]]
    /\ UNCHANGED <<enabled, age, externals>>

SweepStep(k) ==
    \/ FindDueSites(k) \/ CreateRun(k) \/ SweepDone(k)
    \/ \E s \in Sites : StartCheck(k, s) \/ ProbeDone(k, s) \/ CheckDone(k, s)

Next ==
    \/ Tick
    \/ \E k \in Sweeps : CronTick(k) \/ ExternalTrigger(k) \/ SweepStep(k) \/ SweepThrows(k)
    \/ \E k \in Sweeps, s \in Sites : CheckThrows(k, s)
    \/ \E s \in Sites : Toggle(s)
    \/ Restart

Spec == Init /\ [][Next]_vars

\* Minutes pass, the event loop runs callbacks that are due, database calls
\* and probes end (each carries a timeout).
FairSpec ==
    /\ Spec
    /\ WF_vars(Tick)
    /\ WF_vars(\E k \in Sweeps : CronTick(k))
    /\ \A k \in Sweeps :
          /\ WF_vars(FindDueSites(k)) /\ WF_vars(CreateRun(k)) /\ WF_vars(SweepDone(k))
          /\ \A s \in Sites : WF_vars(StartCheck(k, s)) /\ WF_vars(ProbeDone(k, s)) /\ WF_vars(CheckDone(k, s))

-----------------------------------------------------------------------------
(* Properties *)

\* As long as the cron job alone starts sweeps, the flag tells the truth: it is set
\* exactly while a sweep runs, through idle sweeps, sweeps that throw and restarts.
\* A flag left set would stop monitoring for good; one cleared early lets sweeps stack.
FlagIsTrue == externals = 0 => (sweepInProgress <=> \E k \in Sweeps : Active(k))

\* "Overlapping sweeps would check the same sites twice" (monitoringJob.ts:34-35):
\* as long as the cron job alone starts sweeps, no site is in the hands of two.
NoSiteTwice ==
    externals = 0 =>
        \A s \in Sites : \A k, l \in Sweeps :
            s \in InFlight(k) /\ s \in InFlight(l) => k = l

\* As long as the cron job alone starts sweeps, a site is not probed before its
\* interval has passed since the last recorded check (monitoring.service.ts:45-54),
\* however long the sweep had it queued; two sweeps would each go by their own list.
OnlyDueSitesProbed ==
    [][externals = 0 =>
          \A k \in Sweeps, s \in Sites :
              job[k][s].pc = "waiting" /\ job'[k][s].pc = "probing" => age[s] >= Interval[s]]_vars

\* A monitored site that is due is checked, or paused first: no backlog, idle
\* sweep, failed sweep or restart leaves it behind for good.
DueIsChecked ==
    \A s \in Sites :
        enabled[s] /\ age[s] >= Interval[s]
            ~> ~enabled[s] \/ \E k \in Sweeps : job[k][s].pc = "writing"

StacksSweep ==
    /\ \E k \in Sweeps : Active(k)
    /\ \E k \in Sweeps : ~Active(k) /\ Active(k)' /\ sweep'[k].trigger = "CRON"

\* "If a sweep is still running when the next tick fires, that tick is skipped"
\* (MONITORING.md:34-35), whoever started that sweep.
TickSkippedWhileRunning == [][~StacksSweep]_vars

\* The same as long as the cron job alone starts sweeps.
CronAloneNeverStacks == [][externals = 0 => ~StacksSweep]_vars

\* The inductive invariant: a job belongs to a sweep that has created its MonitorRun
\* or is about to, and until the external trigger is used at most one sweep runs.
SchedulerInv ==
    /\ TypeOK
    /\ \A k \in Sweeps, s \in Sites : job[k][s].pc # "none" => sweep[k].pc \in {"create", "check"}
    /\ FlagIsTrue
    /\ externals = 0 => \A k, l \in Sweeps : Active(k) /\ Active(l) => k = l

\* What OnlyDueSitesProbed rests on: as long as the cron job alone starts sweeps, a
\* site that waits in a sweep stays due, for nobody else can have it checked.
WaitingIsDue ==
    externals = 0 =>
        \A k \in Sweeps, s \in Sites : job[k][s].pc = "waiting" => age[s] >= Interval[s]

=============================================================================
