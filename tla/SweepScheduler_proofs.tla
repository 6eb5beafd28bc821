------------------------- MODULE SweepScheduler_proofs -------------------------
(***************************************************************************)
(* SchedulerInv is inductive for any number of sites and sweeps, any       *)
(* intervals and any limit; with the cron job alone it makes               *)
(* sweepInProgress exact, and so keeps sweeps from overlapping and a site  *)
(* that waits in a sweep due until it is probed.  The second half is about *)
(* the pool a sweep's checks run in, a specification of its own: the two   *)
(* modules share no name, and no theorem is about both.                    *)
(***************************************************************************)
EXTENDS SweepScheduler, WorkerPool, FiniteSetTheorems, TLAPS

\* A job belongs to a sweep that has created its MonitorRun, or is about to.
JobsInSweep ==
    \A k \in Sweeps, s \in Sites : job[k][s].pc # "none" => sweep[k].pc \in {"create", "check"}

FlagExactly == sweepInProgress <=> \E k \in Sweeps : Active(k)

OneSweep == FlagExactly /\ \A k, l \in Sweeps : Active(k) /\ Active(l) => k = l

LEMMA InvParts == SchedulerInv <=> TypeOK /\ JobsInSweep /\ (externals = 0 => OneSweep)
BY DEF SchedulerInv, JobsInSweep, OneSweep, FlagExactly, FlagIsTrue

LEMMA OlderType == \A n \in Ages : Older(n) \in Ages
BY SchedulerAssumption DEF Older, Ages

LEMMA IdleTypes == NoSweep \in Sweep /\ NoJob \in Job
BY SchedulerAssumption DEF NoSweep, NoJob, Sweep, Job, Ages

LEMMA InitInv == Init => SchedulerInv
<1> SUFFICES ASSUME Init PROVE SchedulerInv
    OBVIOUS
<1>1. TypeOK
    <2>1. age \in [Sites -> Ages] /\ faults \in 0 .. MaxFaults /\ externals \in 0 .. MaxExternals
        BY SchedulerAssumption DEF Init, Ages
    <2>2. sweep \in [Sweeps -> Sweep] /\ job \in [Sweeps -> [Sites -> Job]]
        BY IdleTypes DEF Init
    <2> QED
        BY <2>1, <2>2 DEF Init, TypeOK
<1>2. JobsInSweep
    BY DEF Init, JobsInSweep, NoJob
<1>3. OneSweep
    BY DEF Init, OneSweep, FlagExactly, Active, NoSweep
<1> QED
    BY <1>1, <1>2, <1>3, InvParts

-----------------------------------------------------------------------------
(* Type correctness *)

LEMMA TypeTick == ASSUME TypeOK, Tick PROVE TypeOK'
<1>1. age' \in [Sites -> Ages]
    BY OlderType DEF Tick, TypeOK
<1>2. sweep' \in [Sweeps -> Sweep]
    <2> SUFFICES ASSUME NEW k \in Sweeps PROVE sweep'[k] \in Sweep
        BY DEF Tick
    <2>1. sweep[k] \in Sweep /\ (sweep[k].pc = "find" => sweep[k].late + 1 \in 0 .. FindTicks)
        BY SchedulerAssumption DEF Tick, TypeOK, Sweep
    <2> QED
        BY <2>1 DEF Tick, Sweep
<1>3. job' \in [Sweeps -> [Sites -> Job]]
    <2> SUFFICES ASSUME NEW k \in Sweeps, NEW s \in Sites PROVE job'[k][s] \in Job
        BY DEF Tick
    <2>1. job[k][s] \in Job /\ Older(job[k][s].taken) \in Ages
        BY OlderType DEF TypeOK, Job
    <2> QED
        BY <2>1 DEF Tick, Job
<1> QED
    BY <1>1, <1>2, <1>3 DEF Tick, TypeOK

LEMMA TypeBegin ==
    ASSUME TypeOK, NEW k \in Sweeps, NEW trigger \in {"CRON", "EXTERNAL"}, Begin(k, trigger)
    PROVE  sweep' \in [Sweeps -> Sweep] /\ sweepInProgress' \in BOOLEAN
BY SchedulerAssumption DEF TypeOK, Begin, Sweep

LEMMA TypeFinally ==
    ASSUME TypeOK, NEW k \in Sweeps, Finally(k)
    PROVE  sweep' \in [Sweeps -> Sweep] /\ sweepInProgress' \in BOOLEAN
BY IdleTypes DEF TypeOK, Finally

\* The queue a sweep is given: one waiting job per due site.
LEMMA QueueType ==
    ASSUME TypeOK, NEW k \in Sweeps, NEW Q,
           job' = [job EXCEPT ![k] = [s \in Sites |->
                     IF s \in Q THEN [pc |-> "waiting", taken |-> 0] ELSE NoJob]]
    PROVE  job' \in [Sweeps -> [Sites -> Job]]
<1>1. [pc |-> "waiting", taken |-> 0] \in Job
    BY SchedulerAssumption DEF Job, Ages
<1> QED
    BY <1>1, IdleTypes DEF TypeOK

LEMMA TypeFind == ASSUME TypeOK, NEW k \in Sweeps, FindDueSites(k) PROVE TypeOK'
<1>1. CASE Finally(k) /\ UNCHANGED job
    BY <1>1, TypeFinally DEF FindDueSites, TypeOK
<1>2. CASE /\ sweep' = [sweep EXCEPT ![k].pc = "create"]
           /\ job' = [job EXCEPT ![k] = [s \in Sites |->
                        IF s \in Due(k) THEN [pc |-> "waiting", taken |-> 0] ELSE NoJob]]
           /\ UNCHANGED sweepInProgress
    <2>1. sweep' \in [Sweeps -> Sweep]
        BY <1>2 DEF TypeOK, Sweep
    <2> QED
        BY <1>2, <2>1, QueueType DEF FindDueSites, TypeOK
<1> QED
    BY <1>1, <1>2 DEF FindDueSites

LEMMA TypeJob ==
    ASSUME TypeOK, NEW k \in Sweeps, NEW s \in Sites,
           StartCheck(k, s) \/ ProbeDone(k, s) \/ CheckDone(k, s) \/ CheckThrows(k, s)
    PROVE  TypeOK'
<1>1. job[k][s] \in Job
    BY DEF TypeOK
<1>2. CASE StartCheck(k, s)
    BY <1>1, <1>2 DEF TypeOK, StartCheck, Job
<1>3. CASE ProbeDone(k, s)
    BY <1>1, <1>3, SchedulerAssumption DEF TypeOK, ProbeDone, Job, Ages
<1>4. CASE CheckDone(k, s)
    BY <1>1, <1>4, IdleTypes DEF TypeOK, CheckDone, Job
<1>5. CASE CheckThrows(k, s)
    BY <1>1, <1>5, IdleTypes, SchedulerAssumption DEF TypeOK, CheckThrows, Fault, Ages
<1> QED
    BY <1>2, <1>3, <1>4, <1>5

LEMMA TypeNext == ASSUME TypeOK, Next PROVE TypeOK'
<1>1. ASSUME NEW k \in Sweeps, CronTick(k) \/ ExternalTrigger(k) PROVE TypeOK'
    <2>1. sweep' \in [Sweeps -> Sweep] /\ sweepInProgress' \in BOOLEAN
        BY <1>1, TypeBegin DEF CronTick, ExternalTrigger, TypeOK
    <2>2. externals' \in 0 .. MaxExternals
        BY <1>1, SchedulerAssumption DEF CronTick, ExternalTrigger, TypeOK
    <2> QED
        BY <1>1, <2>1, <2>2 DEF CronTick, ExternalTrigger, TypeOK
<1>2. ASSUME NEW k \in Sweeps, CreateRun(k) PROVE TypeOK'
    BY <1>2 DEF CreateRun, TypeOK, Sweep
<1>3. ASSUME NEW k \in Sweeps, SweepDone(k) PROVE TypeOK'
    BY <1>3, TypeFinally DEF SweepDone, TypeOK
<1>4. ASSUME NEW k \in Sweeps, SweepThrows(k) PROVE TypeOK'
    BY <1>4, TypeFinally, IdleTypes, SchedulerAssumption DEF SweepThrows, Fault, TypeOK
<1>5. ASSUME NEW s \in Sites, Toggle(s) PROVE TypeOK'
    BY <1>5 DEF Toggle, TypeOK
<1>6. CASE Restart
    <2>1. sweep' \in [Sweeps -> Sweep] /\ job' \in [Sweeps -> [Sites -> Job]]
        BY <1>6, IdleTypes DEF Restart
    <2>2. faults' \in 0 .. MaxFaults
        BY <1>6, SchedulerAssumption DEF Restart, Fault, TypeOK
    <2> QED
        BY <1>6, <2>1, <2>2 DEF Restart, TypeOK
<1> QED
    BY <1>1, <1>2, <1>3, <1>4, <1>5, <1>6, TypeTick, TypeFind, TypeJob DEF Next, SweepStep

-----------------------------------------------------------------------------
(* Jobs stay inside their sweep.                                           *)

LEMMA JobsNext == ASSUME TypeOK, JobsInSweep, Next PROVE JobsInSweep'
<1> USE DEF JobsInSweep
<1>1. CASE Tick
    BY <1>1 DEF Tick, TypeOK, Sweep, Job
<1>2. ASSUME NEW k \in Sweeps, NEW trigger, Begin(k, trigger), UNCHANGED job PROVE JobsInSweep'
    BY <1>2 DEF Begin, TypeOK
<1>3. ASSUME NEW k \in Sweeps, CronTick(k) \/ ExternalTrigger(k) PROVE JobsInSweep'
    BY <1>2, <1>3 DEF CronTick, ExternalTrigger
<1>4. ASSUME NEW k \in Sweeps, FindDueSites(k) PROVE JobsInSweep'
    <2>1. \A s \in Sites : job[k][s].pc = "none"
        BY <1>4 DEF FindDueSites
    <2>2. CASE Finally(k) /\ UNCHANGED job
        BY <2>1, <2>2 DEF Finally, TypeOK
    <2>3. CASE /\ sweep' = [sweep EXCEPT ![k].pc = "create"]
               /\ job' = [job EXCEPT ![k] = [s \in Sites |->
                            IF s \in Due(k) THEN [pc |-> "waiting", taken |-> 0] ELSE NoJob]]
        BY <2>3 DEF TypeOK, Sweep
    <2> QED
        BY <1>4, <2>2, <2>3 DEF FindDueSites
<1>5. ASSUME NEW k \in Sweeps, CreateRun(k) PROVE JobsInSweep'
    BY <1>5 DEF CreateRun, TypeOK, Sweep
<1>6. ASSUME NEW k \in Sweeps, SweepDone(k) PROVE JobsInSweep'
    BY <1>6 DEF SweepDone, Finally, TypeOK
<1>7. ASSUME NEW k \in Sweeps, SweepThrows(k) PROVE JobsInSweep'
    BY <1>7 DEF SweepThrows, Finally, TypeOK, NoJob
<1>8. ASSUME NEW k \in Sweeps, NEW s \in Sites,
             StartCheck(k, s) \/ ProbeDone(k, s) \/ CheckDone(k, s) \/ CheckThrows(k, s)
      PROVE  JobsInSweep'
    <2>1. UNCHANGED sweep /\ job[k][s].pc # "none"
        BY <1>8 DEF StartCheck, ProbeDone, CheckDone, CheckThrows
    <2>2. \A l \in Sweeps, r \in Sites : l # k \/ r # s => job'[l][r] = job[l][r]
        BY <1>8 DEF StartCheck, ProbeDone, CheckDone, CheckThrows, TypeOK
    <2> QED
        BY <2>1, <2>2
<1>9. ASSUME NEW s \in Sites, Toggle(s) PROVE JobsInSweep'
    BY <1>9 DEF Toggle
<1>10. CASE Restart
    BY <1>10 DEF Restart, NoJob
<1> QED
    BY <1>1, <1>3, <1>4, <1>5, <1>6, <1>7, <1>8, <1>9, <1>10 DEF Next, SweepStep

-----------------------------------------------------------------------------
(* One sweep at a time, and the flag says so.                              *)

\* A step that neither starts nor ends a sweep
LEMMA OneSweepKept ==
    ASSUME OneSweep, UNCHANGED sweepInProgress, \A k \in Sweeps : Active(k)' <=> Active(k)
    PROVE  OneSweep'
BY DEF OneSweep, FlagExactly

\* The finally block of the one sweep there is
LEMMA OneSweepEnds ==
    ASSUME TypeOK, OneSweep, NEW k \in Sweeps, Active(k), Finally(k) PROVE OneSweep'
<1>1. \A l \in Sweeps : ~Active(l)'
    BY DEF OneSweep, Active, Finally, TypeOK, NoSweep
<1> QED
    BY <1>1 DEF OneSweep, FlagExactly, Finally

LEMMA OneSweepNext == ASSUME TypeOK, OneSweep, Next, externals' = 0 PROVE OneSweep'
<1>1. CASE Tick
    <2>1. \A k \in Sweeps : Active(k)' <=> Active(k)
        BY <1>1 DEF Tick, Active, TypeOK, Sweep
    <2> QED
        BY <1>1, <2>1, OneSweepKept DEF Tick
<1>2. ASSUME NEW k \in Sweeps, CronTick(k) PROVE OneSweep'
    <2>1. CASE sweepInProgress
        BY <1>2, <2>1, OneSweepKept DEF CronTick, Active
    <2>2. CASE ~sweepInProgress
        <3>1. \A l \in Sweeps : ~Active(l)
            BY <2>2 DEF OneSweep, FlagExactly
        <3>2. \A l \in Sweeps : Active(l)' <=> l = k
            BY <1>2, <2>2, <3>1 DEF CronTick, Begin, Active, TypeOK
        <3> QED
            BY <1>2, <2>2, <3>2 DEF CronTick, Begin, OneSweep, FlagExactly
    <2> QED
        BY <2>1, <2>2
<1>3. ASSUME NEW k \in Sweeps, FindDueSites(k) PROVE OneSweep'
    <2>1. CASE Finally(k)
        BY <1>3, <2>1, OneSweepEnds DEF FindDueSites, Active
    <2>2. CASE sweep' = [sweep EXCEPT ![k].pc = "create"] /\ UNCHANGED sweepInProgress
        <3>1. \A l \in Sweeps : Active(l)' <=> Active(l)
            BY <1>3, <2>2 DEF FindDueSites, Active, TypeOK, Sweep
        <3> QED
            BY <2>2, <3>1, OneSweepKept
    <2> QED
        BY <1>3, <2>1, <2>2 DEF FindDueSites
<1>4. ASSUME NEW k \in Sweeps, CreateRun(k) PROVE OneSweep'
    <2>1. \A l \in Sweeps : Active(l)' <=> Active(l)
        BY <1>4 DEF CreateRun, Active, TypeOK, Sweep
    <2> QED
        BY <1>4, <2>1, OneSweepKept DEF CreateRun
<1>5. ASSUME NEW k \in Sweeps, SweepDone(k) \/ SweepThrows(k) PROVE OneSweep'
    BY <1>5, OneSweepEnds DEF SweepDone, SweepThrows, Active
<1>6. ASSUME UNCHANGED <<sweep, sweepInProgress>> PROVE OneSweep'
    BY <1>6, OneSweepKept DEF Active
<1>7. CASE Restart
    BY <1>7 DEF Restart, OneSweep, FlagExactly, Active, NoSweep
<1>8. ASSUME NEW k \in Sweeps, ExternalTrigger(k) PROVE FALSE
    BY <1>8 DEF ExternalTrigger, TypeOK
<1> QED
    BY <1>1, <1>2, <1>3, <1>4, <1>5, <1>6, <1>7, <1>8
    DEF Next, SweepStep, StartCheck, ProbeDone, CheckDone, CheckThrows, Toggle

-----------------------------------------------------------------------------
(* The theorems.                                                           *)

\* Nothing takes back that the external trigger was used.
LEMMA ExternalsGrow == ASSUME TypeOK, Next, externals' = 0 PROVE externals = 0
BY DEF TypeOK, Next, Tick, CronTick, ExternalTrigger, SweepStep, SweepThrows, FindDueSites,
       CreateRun, SweepDone, StartCheck, ProbeDone, CheckDone, CheckThrows, Toggle, Restart

\* The inductive invariant holds of every behaviour of the scheduler.
THEOREM Scheduling == Spec => []SchedulerInv
<1>1. SchedulerInv /\ [Next]_vars => SchedulerInv'
    <2> SUFFICES ASSUME SchedulerInv, [Next]_vars PROVE SchedulerInv'
        OBVIOUS
    <2>1. CASE UNCHANGED vars
        BY <2>1 DEF vars, SchedulerInv, TypeOK, FlagIsTrue, Active
    <2>2. CASE Next
        <3>1. TypeOK /\ JobsInSweep /\ (externals = 0 => OneSweep)
            BY InvParts
        <3>2. TypeOK' /\ JobsInSweep' /\ (externals' = 0 => OneSweep')
            BY <2>2, <3>1, TypeNext, JobsNext, OneSweepNext, ExternalsGrow
        <3> QED
            BY <3>2 DEF SchedulerInv, JobsInSweep, OneSweep, FlagExactly, FlagIsTrue
    <2> QED
        BY <2>1, <2>2
<1> QED
    BY <1>1, InitInv, PTL DEF Spec

\* Until the external trigger is used, sweepInProgress is true exactly while a sweep
\* runs (monitoring.service.ts:192-197).
THEOREM FlagExact == Spec => []FlagIsTrue
<1>1. SchedulerInv => FlagIsTrue
    BY DEF SchedulerInv
<1> QED
    BY <1>1, Scheduling, PTL

\* Until the external trigger is used, no site is checked by two sweeps at once
\* (monitoringJob.ts:34-35): a job belongs to an active sweep, and there is one.
THEOREM NoOverlap == Spec => []NoSiteTwice
<1>1. SchedulerInv => NoSiteTwice
    BY DEF SchedulerInv, NoSiteTwice, InFlight, Active
<1> QED
    BY <1>1, Scheduling, PTL

\* Until the external trigger is used, a tick that fires during a sweep starts none
\* (MONITORING.md:34-35).
THEOREM TicksSkipped == Spec => CronAloneNeverStacks
<1>1. SchedulerInv /\ [Next]_vars => [externals = 0 => ~StacksSweep]_vars
    <2> SUFFICES ASSUME SchedulerInv, Next, externals = 0,
                        NEW k \in Sweeps, ~Active(k), Active(k)', sweep'[k].trigger = "CRON"
                 PROVE  \A l \in Sweeps : ~Active(l)
        BY DEF StacksSweep
    <2>1. TypeOK /\ OneSweep
        BY InvParts
    <2>2. ~\E l \in Sweeps : ExternalTrigger(l)
        BY <2>1 DEF ExternalTrigger, Begin, Active, TypeOK, Sweep
    <2>3. \E l \in Sweeps : CronTick(l) /\ ~sweepInProgress
        BY <2>1, <2>2 DEF Next, Tick, CronTick, SweepStep, SweepThrows, FindDueSites,
                CreateRun, SweepDone, StartCheck, ProbeDone, CheckDone, CheckThrows, Toggle,
                Restart, Finally, Active, NoSweep, TypeOK, Sweep
    <2> QED
        BY <2>1, <2>3 DEF OneSweep, FlagExactly
<1> QED
    BY <1>1, Scheduling, PTL DEF Spec, CronAloneNeverStacks

-----------------------------------------------------------------------------
(* A site that waits in the one sweep stays due.                           *)

StaysDue ==
    \A k \in Sweeps, s \in Sites : job[k][s].pc = "waiting" => age[s] >= Interval[s]

LEMMA AgesAndIntervals ==
    ASSUME TypeOK, NEW s \in Sites
    PROVE  age[s] \in 0 .. AgeCap /\ Interval[s] \in Nat /\ AgeCap \in Nat
BY SchedulerAssumption DEF TypeOK, Ages

\* Time alone makes no site less due.
LEMMA DueTick == ASSUME TypeOK, StaysDue, Tick PROVE StaysDue'
<1> SUFFICES ASSUME NEW k \in Sweeps, NEW s \in Sites, job'[k][s].pc = "waiting"
             PROVE  age'[s] >= Interval[s]
    BY DEF StaysDue
<1>1. job[k][s].pc = "waiting"
    BY DEF Tick, TypeOK, Job
<1>2. age'[s] = Older(age[s])
    BY DEF Tick, TypeOK
<1> QED
    BY <1>1, <1>2, AgesAndIntervals DEF StaysDue, Older

\* A sweep queues the sites that are due when it is answered, and were when it asked.
LEMMA DueFind == ASSUME TypeOK, StaysDue, NEW k \in Sweeps, FindDueSites(k) PROVE StaysDue'
<1>1. CASE UNCHANGED job
    BY <1>1 DEF FindDueSites, StaysDue
<1>2. CASE job' = [job EXCEPT ![k] = [s \in Sites |->
                     IF s \in Due(k) THEN [pc |-> "waiting", taken |-> 0] ELSE NoJob]]
    <2> SUFFICES ASSUME NEW l \in Sweeps, NEW s \in Sites, job'[l][s].pc = "waiting"
                 PROVE  age[s] >= Interval[s]
        BY DEF FindDueSites, StaysDue
    <2>1. CASE l = k
        <3>1. s \in Due(k)
            BY <1>2, <2>1 DEF TypeOK, NoJob
        <3>2. sweep[k].late \in Nat
            BY SchedulerAssumption DEF TypeOK, Sweep
        <3> QED
            BY <3>1, <3>2, AgesAndIntervals DEF Due
    <2>2. CASE l # k
        BY <1>2, <2>2 DEF TypeOK, StaysDue
    <2> QED
        BY <2>1, <2>2
<1> QED
    BY <1>1, <1>2 DEF FindDueSites

\* The write of lastCheckedAt is about a site that waits nowhere.
LEMMA DueWritten ==
    ASSUME TypeOK, JobsInSweep, OneSweep, StaysDue, NEW k \in Sweeps, NEW s \in Sites,
           CheckDone(k, s) \/ CheckThrows(k, s)
    PROVE  StaysDue'
<1>1. /\ job[k][s].pc = "writing"
      /\ job' = [job EXCEPT ![k][s] = NoJob]
      /\ \A r \in Sites : r # s => age'[r] = age[r]
    BY DEF CheckDone, CheckThrows, TypeOK
<1>2. \A l \in Sweeps, r \in Sites : job'[l][r] = IF l = k /\ r = s THEN NoJob ELSE job[l][r]
    BY <1>1 DEF TypeOK
<1>3. ASSUME NEW l \in Sweeps, l # k PROVE job[l][s].pc = "none"
    BY <1>1, <1>3 DEF JobsInSweep, OneSweep, Active
<1> QED
    BY <1>1, <1>2, <1>3 DEF StaysDue, NoJob

LEMMA DueNext == ASSUME TypeOK, JobsInSweep, OneSweep, StaysDue, Next PROVE StaysDue'
<1>1. ASSUME UNCHANGED <<age, job>> PROVE StaysDue'
    BY <1>1 DEF StaysDue
<1>2. ASSUME NEW k \in Sweeps,
             CronTick(k) \/ ExternalTrigger(k) \/ CreateRun(k) \/ SweepDone(k)
      PROVE  StaysDue'
    BY <1>1, <1>2 DEF CronTick, ExternalTrigger, CreateRun, SweepDone
<1>3. ASSUME NEW k \in Sweeps, NEW s \in Sites, StartCheck(k, s) \/ ProbeDone(k, s)
      PROVE  StaysDue'
    <2>1. \A l \in Sweeps, r \in Sites : job'[l][r].pc = "waiting" => job[l][r].pc = "waiting"
        <3>1. job'[k][s].pc \in {"probing", "writing"}
            BY <1>3 DEF StartCheck, ProbeDone, TypeOK, Job
        <3>2. \A l \in Sweeps, r \in Sites : l # k \/ r # s => job'[l][r] = job[l][r]
            BY <1>3 DEF StartCheck, ProbeDone, TypeOK
        <3> QED
            BY <3>1, <3>2
    <2> QED
        BY <1>3, <2>1 DEF StaysDue, StartCheck, ProbeDone
<1>4. ASSUME NEW k \in Sweeps, SweepThrows(k) PROVE StaysDue'
    BY <1>4 DEF SweepThrows, StaysDue, TypeOK, NoJob
<1>5. ASSUME NEW s \in Sites, Toggle(s) PROVE StaysDue'
    BY <1>1, <1>5 DEF Toggle
<1>6. CASE Restart
    BY <1>6 DEF Restart, StaysDue, NoJob
<1> QED
    BY <1>2, <1>3, <1>4, <1>5, <1>6, DueTick, DueFind, DueWritten DEF Next, SweepStep

LEMMA WaitingInvariant == Spec => []WaitingIsDue
<1>1. Init => WaitingIsDue
    BY DEF Init, WaitingIsDue, NoJob
<1>2. SchedulerInv /\ WaitingIsDue /\ [Next]_vars => WaitingIsDue'
    <2> SUFFICES ASSUME SchedulerInv, WaitingIsDue, [Next]_vars, externals' = 0 PROVE StaysDue'
        BY DEF WaitingIsDue, StaysDue
    <2>1. CASE UNCHANGED vars
        BY <2>1 DEF vars, WaitingIsDue, StaysDue
    <2>2. CASE Next
        <3>1. TypeOK /\ JobsInSweep /\ externals = 0
            BY <2>2, InvParts, ExternalsGrow
        <3>2. OneSweep /\ StaysDue
            BY <3>1, InvParts DEF WaitingIsDue, StaysDue
        <3> QED
            BY <2>2, <3>1, <3>2, DueNext
    <2> QED
        BY <2>1, <2>2
<1> QED
    BY <1>1, <1>2, Scheduling, PTL DEF Spec

\* Until the external trigger is used, no site is probed before its interval has passed
\* since the last recorded check, however long the sweep had it queued and whatever the
\* intervals (monitoring.service.ts:45-54).
THEOREM ProbesAreDue == Spec => OnlyDueSitesProbed
<1>1. WaitingIsDue =>
        [externals = 0 =>
            \A k \in Sweeps, s \in Sites :
                job[k][s].pc = "waiting" /\ job'[k][s].pc = "probing" => age[s] >= Interval[s]]_vars
    BY DEF WaitingIsDue
<1> QED
    BY <1>1, WaitingInvariant, PTL DEF OnlyDueSitesProbed

-----------------------------------------------------------------------------
(* The pool that a sweep's checks run in.  PoolInv is inductive for every  *)
(* number of tasks and of workers; the safety properties the sweep relies  *)
(* on follow from it, and every step maps to one of the bounded pool.      *)

\* The pool starts in the invariant: no task has been called.
LEMMA PoolInvInit == PoolInit => PoolInv
<1> USE PoolAssumption
<1> SUFFICES ASSUME PoolInit PROVE PoolInv
    OBVIOUS
<1>1. PoolTypeOK
    BY DEF PoolInit, PoolTypeOK, WorkerState, Tasks, Workers, NoTask, NoResult
<1>2. promise = "pending" /\ nextIndex = 0 /\ \A w \in Workers : worker[w].pc = "take"
    BY DEF PoolInit
<1>3. \A t \in Tasks : started[t] = 0 /\ results[t] = NoResult /\ results[t] # t
    BY DEF PoolInit, Tasks, NoResult
<1>4. \A t \in Tasks : ~(t < nextIndex)
    BY <1>2 DEF Tasks
<1>5. CalledBelowCursor /\ HoldersApart
    BY <1>2, <1>3, <1>4 DEF CalledBelowCursor, HoldersApart, Holding
<1>6. NoTaskDropped /\ ReturnsAtEnd
    BY <1>2, <1>3, <1>4 DEF NoTaskDropped, ReturnsAtEnd
<1> QED
    BY <1>1, <1>5, <1>6 DEF PoolInv

\* A worker's take: the cursor hands out an index nobody holds.
LEMMA TakeInv == ASSUME PoolInv, NEW w \in Workers, Take(w) PROVE PoolInv'
<1> USE PoolAssumption DEF Tasks, NoTask, NoResult, Holding
<1>1. /\ nextIndex \in Tasks /\ nextIndex' = nextIndex + 1
      /\ worker' = [worker EXCEPT ![w] = [pc |-> "await", task |-> nextIndex]]
      /\ started' = [started EXCEPT ![nextIndex] = @ + 1]
      /\ results' = results /\ promise' = promise /\ worker[w].pc = "take"
    BY DEF Take, PoolInv, PoolTypeOK
<1>2. PoolTypeOK'
    BY <1>1 DEF PoolInv, PoolTypeOK, WorkerState
<1>3. CalledBelowCursor'
    BY <1>1 DEF PoolInv, PoolTypeOK, CalledBelowCursor
<1>4. HoldersApart'
    BY <1>1 DEF PoolInv, PoolTypeOK, WorkerState, HoldersApart, NoTaskDropped
<1>5. NoTaskDropped'
    <2>1. worker'[w].task = nextIndex /\ Holding(w)'
        BY <1>1 DEF PoolInv, PoolTypeOK
    <2>2. \A v \in Workers : Holding(v) => Holding(v)' /\ worker'[v].task = worker[v].task
        BY <1>1 DEF PoolInv, PoolTypeOK
    <2> QED
        BY <1>1, <2>1, <2>2, SMTT(30) DEF PoolInv, PoolTypeOK, NoTaskDropped
<1>6. ReturnsAtEnd'
    BY <1>1 DEF PoolInv, PoolTypeOK, ReturnsAtEnd
<1> QED
    BY <1>2, <1>3, <1>4, <1>5, <1>6 DEF PoolInv

\* A worker that finds no task left leaves the loop.
LEMMA ReturnInv == ASSUME PoolInv, NEW w \in Workers, Return(w) PROVE PoolInv'
<1> USE PoolAssumption DEF Tasks, NoTask, NoResult, Holding
<1>1. /\ nextIndex \in Nat /\ nextIndex >= NumTasks /\ nextIndex' = nextIndex + 1
      /\ worker' = [worker EXCEPT ![w] = [pc |-> "returned", task |-> NumTasks]]
      /\ started' = started /\ results' = results /\ promise' = promise
      /\ worker[w].pc = "take"
    BY DEF Return, PoolInv, PoolTypeOK
<1>2. PoolTypeOK'
    BY <1>1 DEF PoolInv, PoolTypeOK, WorkerState
<1>3. CalledBelowCursor'
    BY <1>1 DEF PoolInv, PoolTypeOK, CalledBelowCursor
<1>4. HoldersApart'
    BY <1>1 DEF PoolInv, PoolTypeOK, WorkerState, HoldersApart
<1>5. NoTaskDropped'
    <2>1. \A v \in Workers : Holding(v) => Holding(v)' /\ worker'[v].task = worker[v].task
        BY <1>1 DEF PoolInv, PoolTypeOK
    <2> QED
        BY <1>1, <2>1 DEF PoolInv, PoolTypeOK, NoTaskDropped
<1>6. ReturnsAtEnd'
    BY <1>1 DEF PoolInv, PoolTypeOK, ReturnsAtEnd
<1> QED
    BY <1>2, <1>3, <1>4, <1>5, <1>6 DEF PoolInv

\* A delivery writes the one place that belongs to the worker's task.
LEMMA DeliverInv == ASSUME PoolInv, NEW w \in Workers, Deliver(w) PROVE PoolInv'
<1> USE PoolAssumption DEF Tasks, NoTask, NoResult, Holding
<1> DEFINE done == worker[w].task
<1>1. /\ done \in Tasks /\ done < nextIndex /\ nextIndex \in Nat
      /\ \A v \in Workers : Holding(v) /\ worker[v].task = done => v = w
    BY DEF Deliver, PoolInv, PoolTypeOK, HoldersApart
<1>2. /\ results' = [results EXCEPT ![done] = done]
      /\ worker' = [worker EXCEPT ![w] = [pc |-> "take", task |-> NumTasks]]
      /\ nextIndex' = nextIndex /\ started' = started /\ promise' = promise
      /\ worker[w].pc = "await"
    BY DEF Deliver
<1> HIDE DEF done
<1>3. PoolTypeOK'
    BY <1>1, <1>2 DEF PoolInv, PoolTypeOK, WorkerState
<1>4. CalledBelowCursor'
    BY <1>2 DEF PoolInv, CalledBelowCursor
<1>5. HoldersApart'
    BY <1>1, <1>2 DEF PoolInv, PoolTypeOK, WorkerState, HoldersApart
<1>6. NoTaskDropped'
    <2>1. \A v \in Workers : v # w /\ Holding(v) => Holding(v)' /\ worker'[v].task = worker[v].task
        BY <1>2 DEF PoolInv, PoolTypeOK
    <2>2. \A t \in Tasks : t # done => results'[t] = results[t]
        BY <1>1, <1>2 DEF PoolInv, PoolTypeOK
    <2>3. results'[done] = done
        BY <1>1, <1>2 DEF PoolInv, PoolTypeOK
    <2>4. ASSUME NEW t \in Tasks, t # done, t < nextIndex, results[t] # t
          PROVE  \E v \in Workers : Holding(v)' /\ worker'[v].task = t
        BY <2>1, <2>4 DEF PoolInv, NoTaskDropped, done
    <2> QED
        BY <1>1, <1>2, <2>2, <2>3, <2>4 DEF PoolInv, NoTaskDropped
<1>7. ReturnsAtEnd'
    BY <1>2 DEF PoolInv, PoolTypeOK, ReturnsAtEnd
<1> QED
    BY <1>3, <1>4, <1>5, <1>6, <1>7 DEF PoolInv

\* A rejected task stays in the hands of the worker that ran it.
LEMMA RejectInv == ASSUME PoolInv, NEW w \in Workers, Reject(w) PROVE PoolInv'
<1> USE DEF Holding
<1>1. /\ worker' = [worker EXCEPT ![w].pc = "rejected"]
      /\ nextIndex' = nextIndex /\ results' = results /\ started' = started
      /\ promise' = promise /\ worker[w].pc = "await"
    BY DEF Reject
<1>2. \A v \in Workers : (Holding(v)' <=> Holding(v)) /\ worker'[v].task = worker[v].task
    BY <1>1 DEF PoolInv, PoolTypeOK, WorkerState
<1>3. PoolTypeOK'
    BY <1>1 DEF PoolInv, PoolTypeOK, WorkerState
<1>4. CalledBelowCursor'
    BY <1>1 DEF PoolInv, CalledBelowCursor
<1>5. HoldersApart'
    BY <1>1, <1>2 DEF PoolInv, HoldersApart
<1>6. NoTaskDropped'
    BY <1>1, <1>2 DEF PoolInv, NoTaskDropped
<1>7. ReturnsAtEnd'
    BY <1>1 DEF PoolInv, PoolTypeOK, ReturnsAtEnd
<1> QED
    BY <1>3, <1>4, <1>5, <1>6, <1>7 DEF PoolInv

\* Settling changes the promise alone.
LEMMA SettleInv == ASSUME PoolInv, Settle PROVE PoolInv'
<1>1. /\ UNCHANGED <<nextIndex, worker, results, started>>
      /\ promise' \in {"resolved", "rejected"}
      /\ promise' = "resolved" => \A w \in Workers : worker[w].pc = "returned"
    BY DEF Settle
<1> QED
    BY <1>1 DEF PoolInv, PoolTypeOK, WorkerState, CalledBelowCursor, HoldersApart,
                NoTaskDropped, ReturnsAtEnd, Holding

\* The inductive invariant holds in every behaviour of the pool, for every
\* number of tasks and every concurrency limit.
THEOREM PoolInvariant == PoolSpec => []PoolInv
<1>1. PoolInv /\ [PoolNext]_poolVars => PoolInv'
    <2> SUFFICES ASSUME PoolInv, [PoolNext]_poolVars PROVE PoolInv'
        OBVIOUS
    <2>1. CASE UNCHANGED poolVars
        BY <2>1 DEF poolVars, PoolInv, PoolTypeOK, WorkerState, CalledBelowCursor, HoldersApart,
                    NoTaskDropped, ReturnsAtEnd, Holding
    <2>2. ASSUME NEW w \in Workers, WorkerStep(w) PROVE PoolInv'
        BY <2>2, TakeInv, ReturnInv, DeliverInv, RejectInv DEF WorkerStep
    <2>3. CASE Settle
        BY <2>3, SettleInv
    <2> QED
        BY <2>1, <2>2, <2>3 DEF PoolNext
<1> QED
    BY <1>1, PoolInvInit, PTL DEF PoolSpec

\* No site of a sweep is checked twice by the pool (concurrency.ts:21-31).
THEOREM TasksRunOnce == PoolSpec => []EachTaskOnce
<1>1. PoolInv => EachTaskOnce
    BY DEF PoolInv, CalledBelowCursor, EachTaskOnce
<1> QED
    BY <1>1, PoolInvariant, PTL

\* Every value is in the place of the task that produced it (concurrency.ts:8-9).
THEOREM OrderKept == PoolSpec => []ResultsInTaskOrder
<1>1. PoolInv => ResultsInTaskOrder
    BY DEF PoolInv, NoTaskDropped, ResultsInTaskOrder
<1> QED
    BY <1>1, PoolInvariant, PTL

\* A resolved pool has a result for every task: all workers have left, so the
\* cursor is past the end, so every task was taken, and nobody holds one.
THEOREM NoHoleInResults == PoolSpec => []ResolvedIsComplete
<1>1. ASSUME PoolInv, promise = "resolved", NEW t \in Tasks PROVE results[t] = t
    <2>1. \A w \in Workers : worker[w].pc = "returned" /\ nextIndex >= NumTasks
        BY <1>1 DEF PoolInv, ReturnsAtEnd
    <2>2. PICK w \in Workers : TRUE
        BY PoolAssumption DEF Workers, Tasks
    <2>3. t < nextIndex
        BY <2>1, <2>2, <1>1, PoolAssumption DEF Tasks, PoolInv, PoolTypeOK
    <2> QED
        BY <1>1, <2>1, <2>3 DEF PoolInv, NoTaskDropped, Holding
<1>2. PoolInv => ResolvedIsComplete
    BY <1>1 DEF ResolvedIsComplete
<1> QED
    BY <1>2, PoolInvariant, PTL

-----------------------------------------------------------------------------
(* The refinement.                                                         *)

\* The variables of the bounded pool.
Todo     == {t \in Tasks : started[t] = 0}
Running  == {worker[w].task : w \in Awaiting}
Finished == {t \in Tasks : results[t] # NoResult}
Lost     == {worker[w].task : w \in {v \in Workers : worker[v].pc = "rejected"}}

\* A worker that is looking for a task leaves room for another check.
LEMMA RoomForOne ==
    ASSUME NEW w \in Workers, worker[w].pc = "take" PROVE Cardinality(Running) < Limit
<1>1. IsFiniteSet(Workers) /\ Cardinality(Workers) \in Nat /\ Cardinality(Workers) <= Limit
    <2>1. CASE Limit < NumTasks
        BY <2>1, FS_Interval, PoolAssumption DEF Workers
    <2>2. CASE ~(Limit < NumTasks)
        BY <2>2, FS_Interval, PoolAssumption DEF Workers
    <2> QED
        BY <2>1, <2>2
<1>2. IsFiniteSet(Workers \ {w}) /\ Cardinality(Workers \ {w}) = Cardinality(Workers) - 1
    BY <1>1, FS_RemoveElement
<1>3. Awaiting \subseteq Workers \ {w}
    BY DEF Awaiting
<1>4. IsFiniteSet(Awaiting) /\ Cardinality(Awaiting) <= Cardinality(Workers \ {w})
    BY <1>2, <1>3, FS_Subset
<1> DEFINE task == [v \in Awaiting |-> worker[v].task]
<1>5. task \in Surjection(Awaiting, Running)
    BY DEF Surjection, Running
<1> HIDE DEF task
<1>6. IsFiniteSet(Running) /\ Cardinality(Running) <= Cardinality(Awaiting)
    BY <1>4, <1>5, FS_Surjection
<1>7. Cardinality(Awaiting) \in Nat /\ Cardinality(Running) \in Nat
    BY <1>4, <1>6, FS_CardinalityType
<1> QED
    BY <1>1, <1>2, <1>4, <1>6, <1>7, PoolAssumption

LEMMA TakeStarts ==
    ASSUME PoolInv, NEW w \in Workers, Take(w)
    PROVE  \E t \in Tasks : Pool!Start(t)
<1> USE PoolAssumption DEF Tasks
<1>1. /\ nextIndex \in Tasks /\ worker[w].pc = "take" /\ UNCHANGED <<results, promise>>
      /\ worker' = [worker EXCEPT ![w] = [pc |-> "await", task |-> nextIndex]]
      /\ started' = [started EXCEPT ![nextIndex] = @ + 1]
    BY DEF Take, PoolInv, PoolTypeOK
<1>2. /\ worker'[w].pc = "await" /\ worker'[w].task = nextIndex
      /\ \A v \in Workers : v # w => worker'[v] = worker[v]
    BY <1>1 DEF PoolInv, PoolTypeOK
<1>3. nextIndex \in Todo /\ Todo' = Todo \ {nextIndex}
    BY <1>1 DEF Todo, PoolInv, PoolTypeOK, CalledBelowCursor
<1>4. Awaiting' = Awaiting \union {w} /\ w \notin Awaiting
    BY <1>1, <1>2 DEF Awaiting
<1>5. Running' = Running \union {nextIndex}
    <2>1. \A v \in Awaiting : worker'[v].task = worker[v].task
        BY <1>2, <1>4 DEF Awaiting
    <2> QED
        BY <1>2, <1>4, <2>1 DEF Running
<1>6. Lost' = Lost
    BY <1>1, <1>2 DEF Lost
<1>7. Finished' = Finished /\ promise' = promise
    BY <1>1 DEF Finished
<1>8. Pool!Cardinality(Running) < Limit
    <2>1. Pool!Cardinality(Running) = Cardinality(Running)
        BY DEF Pool!Cardinality, Cardinality
    <2> QED
        BY <1>1, <2>1, RoomForOne
<1> QED
    BY <1>1, <1>3, <1>5, <1>6, <1>7, <1>8 DEF Pool!Start, Todo, Running, Finished, Lost

LEMMA DeliverFinishes ==
    ASSUME PoolInv, NEW w \in Workers, Deliver(w)
    PROVE  \E t \in Tasks : Pool!Finish(t)
<1> USE PoolAssumption DEF NoTask, NoResult
<1>1. PICK t \in Tasks : t = worker[w].task
    BY DEF Deliver, PoolInv, HoldersApart, Holding
<1>2. /\ worker[w].pc = "await" /\ UNCHANGED <<started, promise>>
      /\ results' = [results EXCEPT ![t] = t] /\ worker'[w].pc = "take"
      /\ \A v \in Workers : v # w => worker'[v] = worker[v]
    BY <1>1 DEF Deliver, PoolInv, PoolTypeOK
<1>3. \A v \in Awaiting : worker[v].task = t => v = w
    BY <1>1, <1>2 DEF PoolInv, HoldersApart, Holding, Awaiting
<1>4. Awaiting' = Awaiting \ {w} /\ w \in Awaiting
    BY <1>2 DEF Awaiting
<1>5. t \in Running /\ Running' = Running \ {t}
    <2>1. \A v \in Awaiting' : worker'[v].task = worker[v].task
        BY <1>2, <1>4 DEF Awaiting
    <2> QED
        BY <1>1, <1>3, <1>4, <2>1 DEF Running
<1>6. Finished' = Finished \union {t}
    BY <1>2 DEF Finished, PoolInv, PoolTypeOK, Tasks
<1>7. Lost' = Lost
    BY <1>2 DEF Lost
<1>8. Todo' = Todo
    BY <1>2 DEF Todo
<1> QED
    BY <1>2, <1>5, <1>6, <1>7, <1>8 DEF Pool!Finish, Todo, Running, Finished, Lost

LEMMA RejectLoses ==
    ASSUME PoolInv, NEW w \in Workers, Reject(w)
    PROVE  \E t \in Tasks : Pool!Lose(t)
<1>1. PICK t \in Tasks : t = worker[w].task
    BY DEF Reject, PoolInv, HoldersApart, Holding
<1>2. /\ worker[w].pc = "await" /\ UNCHANGED <<started, results, promise>>
      /\ worker'[w].pc = "rejected" /\ worker'[w].task = t
      /\ \A v \in Workers : v # w => worker'[v] = worker[v]
    BY <1>1 DEF Reject, PoolInv, PoolTypeOK, WorkerState
<1>3. \A v \in Awaiting : worker[v].task = t => v = w
    BY <1>1, <1>2 DEF PoolInv, HoldersApart, Holding, Awaiting
<1>4. Awaiting' = Awaiting \ {w} /\ w \in Awaiting
    BY <1>2 DEF Awaiting
<1>5. t \in Running /\ Running' = Running \ {t}
    <2>1. \A v \in Awaiting' : worker'[v].task = worker[v].task
        BY <1>2, <1>4 DEF Awaiting
    <2> QED
        BY <1>1, <1>3, <1>4, <2>1 DEF Running
<1>6. Lost' = Lost \union {t}
    <2>1. {v \in Workers : worker'[v].pc = "rejected"} = {v \in Workers : worker[v].pc = "rejected"} \union {w}
        BY <1>2
    <2> QED
        BY <1>2, <2>1 DEF Lost
<1>7. Todo' = Todo /\ Finished' = Finished
    BY <1>2 DEF Todo, Finished
<1> QED
    BY <1>2, <1>5, <1>6, <1>7 DEF Pool!Lose, Todo, Running, Finished, Lost

LEMMA SettleSettles ==
    ASSUME PoolInv, Settle PROVE Pool!Resolve \/ Pool!Reject
<1>1. promise = "pending" /\ UNCHANGED <<nextIndex, worker, results, started>>
    BY DEF Settle
<1>2. Todo' = Todo /\ Running' = Running /\ Finished' = Finished /\ Lost' = Lost
    BY <1>1 DEF Todo, Running, Finished, Lost, Awaiting
<1>3. ASSUME \A w \in Workers : worker[w].pc = "returned" PROVE Finished = Tasks
    <2>1. ASSUME NEW t \in Tasks PROVE results[t] = t
        <3>1. PICK w \in Workers : TRUE
            BY PoolAssumption DEF Workers, Tasks
        <3>2. t < nextIndex
            BY <1>3, <3>1, PoolAssumption DEF Tasks, PoolInv, PoolTypeOK, ReturnsAtEnd
        <3> QED
            BY <1>3, <3>2 DEF PoolInv, NoTaskDropped, Holding
    <2>2. \A t \in Tasks : t # NoResult
        BY PoolAssumption DEF Tasks, NoResult
    <2> QED
        BY <2>1, <2>2 DEF Finished
<1>4. ASSUME NEW w \in Workers, worker[w].pc = "rejected" PROVE Lost # {}
    BY <1>4 DEF Lost
<1> QED
    BY <1>1, <1>2, <1>3, <1>4
    DEF Settle, Pool!Resolve, Pool!Reject, Todo, Running, Finished, Lost

\* runWithConcurrency is a bounded pool, for every number of tasks and every limit:
\* never more than Limit checks in flight, no check run twice, resolved only with every
\* result, rejected only because a check did (concurrency.ts:11-36).
THEOREM PoolIsBounded == PoolSpec => ImplementsPool
<1>1. PoolInit => Pool!Init
    <2> SUFFICES ASSUME PoolInit PROVE Pool!Init
        OBVIOUS
    <2>1. \A w \in Workers : worker[w].pc = "take"
        BY DEF PoolInit
    <2>2. \A t \in Tasks : started[t] = 0 /\ results[t] = NoResult
        BY DEF PoolInit
    <2> QED
        BY <2>1, <2>2 DEF PoolInit, Pool!Init, Awaiting
<1>2. PoolInv /\ [PoolNext]_poolVars => [Pool!Next]_Pool!vars
    <2> SUFFICES ASSUME PoolInv, [PoolNext]_poolVars PROVE [Pool!Next]_Pool!vars
        OBVIOUS
    <2>1. ASSUME UNCHANGED <<worker, results, started, promise>> PROVE UNCHANGED Pool!vars
        BY <2>1 DEF Pool!vars, Awaiting
    <2>2. CASE UNCHANGED poolVars
        BY <2>1, <2>2 DEF poolVars
    <2>3. ASSUME NEW w \in Workers, Return(w) PROVE UNCHANGED Pool!vars
        <3>1. UNCHANGED <<results, started, promise>> /\ worker[w].pc = "take"
            BY <2>3 DEF Return
        <3>2. /\ worker'[w].pc = "returned"
              /\ \A v \in Workers : v # w => worker'[v] = worker[v]
            BY <2>3 DEF Return, PoolInv, PoolTypeOK
        <3>3. Running' = Running /\ Lost' = Lost
            BY <3>1, <3>2 DEF Running, Lost, Awaiting
        <3> QED
            BY <3>1, <3>3 DEF Pool!vars, Running, Lost
    <2>4. ASSUME NEW w \in Workers, Take(w) \/ Deliver(w) \/ Reject(w) PROVE Pool!Next
        BY <2>4, TakeStarts, DeliverFinishes, RejectLoses DEF Pool!Next
    <2>5. CASE Settle
        BY <2>5, SettleSettles DEF Pool!Next
    <2> QED
        BY <2>2, <2>3, <2>4, <2>5 DEF PoolNext, WorkerStep
<1> QED
    BY <1>1, <1>2, PoolInvariant, PTL DEF PoolSpec, Pool!Spec, ImplementsPool

=============================================================================
