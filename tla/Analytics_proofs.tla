---------------------------- MODULE Analytics_proofs ----------------------------
(***************************************************************************)
(* Incidents follow the checks, in the histories the engine writes and in  *)
(* those the seed script leaves; the downtime reported of a range is the   *)
(* time its incidents were open in it; the queries of one answer agree     *)
(* with each other; and the pages of a list make up the list.              *)
(***************************************************************************)
EXTENDS Analytics, FiniteSetTheorems, SequenceTheorems, WellFoundedInduction, TLAPS

LEMMA Bounds ==
    /\ Threshold \in Nat /\ Threshold >= 1 /\ SeedLength \in Nat /\ Threshold <= SeedLength
    /\ Begin \in Nat
BY AnalyticsAssumption

-----------------------------------------------------------------------------
(* Induction, on sets.                                                     *)

LEMMA Least ==
    ASSUME NEW T \in SUBSET Nat, T # {}
    PROVE  \E m \in T : \A n \in T : m <= n
<1> DEFINE R == OpToRel(<, Nat)
<1>1. IsWellFoundedOn(R, Nat)
    BY NatLessThanWellFounded
<1>2. \A x, y \in Nat : <<x, y>> \in R <=> x < y
    BY DEF OpToRel
<1> HIDE DEF R
<1>3. PICK m \in T : \A n \in T : ~(<<n, m>> \in R)
    BY <1>1, WFMin
<1>4. \A n \in T : ~(n < m)
    BY <1>2, <1>3
<1>5. \A n \in T : m <= n
    BY <1>4
<1> QED
    BY <1>5

\* A set that has 0 and, with a number below a bound, the next one, has all up to it.
LEMMA Upward ==
    ASSUME NEW b \in Nat, NEW T, 0 \in T, \A n \in 0 .. b : n + 1 \in 0 .. b /\ n \in T => n + 1 \in T
    PROVE  0 .. b \subseteq T
<1> SUFFICES ASSUME (0 .. b) \ T # {} PROVE FALSE
    OBVIOUS
<1>1. (0 .. b) \ T \in SUBSET Nat
    OBVIOUS
<1>2. PICK m \in (0 .. b) \ T : \A n \in (0 .. b) \ T : m <= n
    BY <1>1, Least
<1>3. m # 0 /\ m - 1 \in 0 .. b /\ m - 1 + 1 = m
    BY <1>2
<1>4. m - 1 \in T
    BY <1>2, <1>3
<1> QED
    BY <1>2, <1>3, <1>4

-----------------------------------------------------------------------------
(* The failures in a row of a seeded history.                              *)

\* The counter of the script after t is the length of the failing run that ends at t.
RunAt(failed, n, t) ==
    /\ n \in 0 .. t
    /\ (t - n) \notin failed
    /\ \A u \in t - n + 1 .. t : u \in failed

LEMMA RunExists ==
    ASSUME NEW failed \in SeedDraws
    PROVE  \E run : run = [t \in 0 .. SeedLength |-> IF t \in failed THEN run[t - 1] + 1 ELSE 0]
<1> DEFINE RunTo(t) == CHOOSE n \in 0 .. t : RunAt(failed, n, t)
           T == {t \in 0 .. SeedLength : \E n \in 0 .. t : RunAt(failed, n, t)}
<1>1. 0 \notin failed /\ failed \subseteq 1 .. SeedLength
    BY Bounds DEF SeedDraws
<1>2. 0 .. SeedLength \subseteq T
    <2>1. 0 \in T
        <3>1. RunAt(failed, 0, 0)
            BY <1>1 DEF RunAt
        <3> QED
            BY <3>1, Bounds
    <2>2. ASSUME NEW t \in 0 .. SeedLength, t + 1 \in 0 .. SeedLength, t \in T PROVE t + 1 \in T
        <3>1. PICK n \in 0 .. t : RunAt(failed, n, t)
            BY <2>2
        <3>2. CASE t + 1 \in failed
            <4>1. RunAt(failed, n + 1, t + 1)
                BY <3>1, <3>2 DEF RunAt
            <4> QED
                BY <2>2, <4>1
        <3>3. CASE t + 1 \notin failed
            <4>1. RunAt(failed, 0, t + 1)
                BY <3>3 DEF RunAt
            <4> QED
                BY <2>2, <4>1
        <3> QED
            BY <3>2, <3>3
    <2> HIDE DEF T
    <2> QED
        BY <2>1, <2>2, Upward, Bounds
<1>3. \A t \in 0 .. SeedLength : RunTo(t) \in 0 .. t /\ RunAt(failed, RunTo(t), t)
    BY <1>2
<1>4. ASSUME NEW t \in 0 .. SeedLength, NEW m \in 0 .. t, NEW n \in 0 .. t,
             RunAt(failed, m, t), RunAt(failed, n, t)
      PROVE  m = n
    BY <1>4 DEF RunAt
<1> DEFINE run == [t \in 0 .. SeedLength |-> RunTo(t)]
<1>5. ASSUME NEW t \in 0 .. SeedLength PROVE run[t] = IF t \in failed THEN run[t - 1] + 1 ELSE 0
    <2>1. CASE t \in failed
        <3>1. t - 1 \in 0 .. SeedLength
            BY <1>1, <2>1, Bounds
        <3>2. RunAt(failed, RunTo(t - 1), t - 1) /\ RunTo(t - 1) \in 0 .. t - 1
            BY <1>3, <3>1
        <3> HIDE DEF RunTo
        <3>3. RunAt(failed, RunTo(t - 1) + 1, t) /\ RunTo(t - 1) + 1 \in 0 .. t
            BY <2>1, <3>1, <3>2 DEF RunAt
        <3>4. RunTo(t) = RunTo(t - 1) + 1
            BY <1>3, <1>4, <3>3
        <3> QED
            BY <2>1, <3>1, <3>4
    <2>2. CASE t \notin failed
        <3>1. RunAt(failed, 0, t)
            BY <2>2 DEF RunAt
        <3> HIDE DEF RunTo
        <3>2. RunTo(t) = 0
            BY <1>3, <1>4, <3>1
        <3> QED
            BY <2>2, <3>2
    <2> QED
        BY <2>1, <2>2
<1> HIDE DEF RunTo
<1>6. run = [t \in 0 .. SeedLength |-> IF t \in failed THEN run[t - 1] + 1 ELSE 0]
    BY <1>5
<1> QED
    BY <1>6

LEMMA RunIs ==
    ASSUME NEW failed \in SeedDraws
    PROVE  \A t \in 0 .. SeedLength : RunAt(failed, SeedRun(failed)[t], t)
<1> DEFINE run == SeedRun(failed)
           T == {t \in 0 .. SeedLength : RunAt(failed, run[t], t)}
<1>1. run = [t \in 0 .. SeedLength |-> IF t \in failed THEN run[t - 1] + 1 ELSE 0]
    BY RunExists, Zenon DEF SeedRun
<1> HIDE DEF run
<1>2. 0 \notin failed
    BY Bounds DEF SeedDraws
<1>3. \A t \in 0 .. SeedLength : run[t] = IF t \in failed THEN run[t - 1] + 1 ELSE 0
    BY <1>1
<1>4. 0 \in T
    <2>1. run[0] = 0
        BY <1>2, <1>3, Bounds
    <2> QED
        BY <1>2, <2>1, Bounds DEF RunAt
<1>5. ASSUME NEW t \in 0 .. SeedLength, t + 1 \in 0 .. SeedLength, t \in T PROVE t + 1 \in T
    <2>1. run[t + 1] = IF t + 1 \in failed THEN run[t] + 1 ELSE 0
        BY <1>3, <1>5
    <2>2. RunAt(failed, run[t], t)
        BY <1>5
    <2> QED
        BY <1>5, <2>1, <2>2 DEF RunAt
<1> HIDE DEF T
<1>6. 0 .. SeedLength \subseteq T
    BY <1>4, <1>5, Upward, Bounds
<1> QED
    BY <1>6 DEF run, T

-----------------------------------------------------------------------------
(* What an incident has to do with the checks of its site.                 *)

CoversNoSuccess(i) ==
    \A c \in checks : c.site = i.site /\ Succeeded(c.outcome) => c.at < i.start \/ OverBy(i, c.at)

Follows(i) == StartsAtFailure(i) /\ CoversNoSuccess(i) /\ EndsAtSuccess(i)

-----------------------------------------------------------------------------
(* The seed script's history.                                              *)

LEMMA Drawn ==
    ASSUME NEW failed \in SeedDraws, NEW t \in SeedTicks, NEW n,
           SeedRun(failed)[t] = 0, n = SeedRun(failed)[t - 1], n >= Threshold
    PROVE  /\ n \in Nat /\ t - n >= 1 /\ t \notin failed /\ t - 1 - n \notin failed
           /\ \A u \in t - n .. t - 1 : u \in failed
           /\ t <= SeedLength - Threshold
<1>1. t \in 1 .. SeedLength /\ t - 1 \in 0 .. SeedLength
    BY Bounds DEF SeedTicks
<1>2. RunAt(failed, n, t - 1) /\ RunAt(failed, SeedRun(failed)[t], t)
    BY <1>1, RunIs
<1>3. n \in 0 .. t - 1 /\ t - 1 - n \notin failed /\ \A u \in t - 1 - n + 1 .. t - 1 : u \in failed
    BY <1>2 DEF RunAt
<1>4. t \notin failed
    BY <1>1, <1>2 DEF RunAt
<1>6. t - 1 \in failed
    BY <1>1, <1>3, Bounds
<1>7. failed \subseteq 1 .. SeedLength - Threshold - 1
    BY DEF SeedDraws
<1>8. t - 1 \in 1 .. SeedLength - Threshold - 1
    BY <1>6, <1>7
<1>9. t - n >= 1 /\ t <= SeedLength - Threshold
    BY <1>1, <1>3, <1>7, <1>8, Bounds
<1>10. n \in Nat
    BY <1>1, <1>3
<1>11. \A u \in t - n .. t - 1 : u \in failed
    BY <1>1, <1>10, <1>3
<1> QED
    BY <1>3, <1>4, <1>9, <1>10, <1>11

\* an incident of a run of draws, and the one that is intended
Past(s, failed, i, t, n) ==
    /\ t \in 1 .. SeedLength - Threshold /\ n \in Nat /\ n >= Threshold /\ t - n >= 1
    /\ t \notin failed /\ t - 1 - n \notin failed /\ \A u \in t - n .. t - 1 : u \in failed
    /\ i = [site |-> s, status |-> "RESOLVED", start |-> t - n + Threshold - 1, end |-> t]

Intended(s, final, i) ==
    /\ final = "OFFLINE"
    /\ i = [site |-> s, status |-> "ACTIVE", start |-> SeedLength - Threshold + 1, end |-> NoValue]

LEMMA SeedIncident ==
    ASSUME NEW s, NEW failed \in SeedDraws, NEW final, NEW i \in SeedIncidents(s, failed, final)
    PROVE  (\E t, n \in Nat : Past(s, failed, i, t, n)) \/ Intended(s, final, i)
<1> DEFINE run == SeedRun(failed)
           ends == {t \in SeedTicks : run[t] = 0 /\ run[t - 1] >= Threshold}
<1>1. CASE i \in {[site |-> s, status |-> "RESOLVED",
                   start |-> t - run[t - 1] + Threshold - 1, end |-> t] : t \in ends}
    <2>1. PICK t \in ends : i = [site |-> s, status |-> "RESOLVED",
                                 start |-> t - run[t - 1] + Threshold - 1, end |-> t]
        BY <1>1
    <2>2. t \in SeedTicks /\ run[t] = 0 /\ run[t - 1] >= Threshold
        OBVIOUS
    <2> HIDE DEF run, ends
    <2>3. Past(s, failed, i, t, run[t - 1])
        BY <2>1, <2>2, Drawn, Bounds DEF Past, run, SeedTicks
    <2>4. t \in Nat /\ run[t - 1] \in Nat
        BY <2>2, <2>3, Bounds DEF Past, SeedTicks
    <2> QED
        BY <2>3, <2>4
<1>2. CASE Intended(s, final, i)
    BY <1>2
<1> QED
    BY <1>1, <1>2 DEF SeedIncidents, Intended

LEMMA SeedFollows ==
    ASSUME NEW s \in Sites, NEW failed \in SeedDraws, NEW final \in Finals,
           checks = SeedChecks(s, failed, final), incidents = SeedIncidents(s, failed, final),
           NEW i \in incidents
    PROVE  Follows(i) /\ i.site = s
<1>1. \A t \in SeedTicks : [site |-> s, at |-> t, outcome |-> SeedOutcome(failed, final, t)] \in checks
    BY DEF SeedChecks
<1>2. ASSUME NEW c \in checks
      PROVE  c.site = s /\ c.at \in SeedTicks /\ c.outcome = SeedOutcome(failed, final, c.at)
    BY DEF SeedChecks
<1>3. failed \subseteq 1 .. SeedLength - Threshold - 1 /\ SeedTicks = 1 .. SeedLength
    BY DEF SeedDraws, SeedTicks
<1>4. ASSUME NEW t \in SeedTicks, t \in failed
      PROVE  ~Succeeded(SeedOutcome(failed, final, t))
    BY <1>3, <1>4, Bounds DEF SeedOutcome, SeedTail, Succeeded
<1>5. ASSUME NEW t \in SeedTicks, t \notin failed, final # "OFFLINE" \/ t <= SeedLength - Threshold
      PROVE  Succeeded(SeedOutcome(failed, final, t))
    BY <1>3, <1>5, Bounds DEF SeedOutcome, SeedTail, Succeeded
<1>6. ASSUME NEW t \in SeedTicks, t >= SeedLength - Threshold + 1, final = "OFFLINE"
      PROVE  ~Succeeded(SeedOutcome(failed, final, t))
    BY <1>3, <1>6, Bounds DEF SeedOutcome, SeedTail, Succeeded
<1>7. ASSUME NEW t \in Nat, NEW n \in Nat, Past(s, failed, i, t, n) PROVE Follows(i) /\ i.site = s
    <2>1. /\ i.site = s /\ i.status = "RESOLVED" /\ i.start = t - n + Threshold - 1 /\ i.end = t
          /\ t \in SeedTicks /\ i.start \in SeedTicks /\ i.start \in t - n .. t - 1
          /\ t \notin failed /\ t <= SeedLength - Threshold /\ \A u \in t - n .. t - 1 : u \in failed
        BY <1>3, <1>7, Bounds DEF Past
    <2>2. StartsAtFailure(i)
        BY <1>1, <1>4, <2>1 DEF StartsAtFailure
    <2>3. EndsAtSuccess(i)
        BY <1>1, <1>5, <2>1 DEF EndsAtSuccess
    <2>4. ASSUME NEW c \in checks, Succeeded(c.outcome) PROVE c.at < i.start \/ OverBy(i, c.at)
        <3>1. c.at \in SeedTicks /\ c.at \notin failed
            BY <1>2, <1>4, <2>4
        <3>2. c.at \notin i.start .. t - 1
            BY <2>1, <3>1
        <3> QED
            BY <1>3, <2>1, <3>1, <3>2, Bounds DEF OverBy
    <2> QED
        BY <2>1, <2>2, <2>3, <2>4 DEF Follows, CoversNoSuccess
<1>8. ASSUME Intended(s, final, i) PROVE Follows(i) /\ i.site = s
    <2>1. /\ final = "OFFLINE" /\ i.site = s /\ i.status = "ACTIVE"
          /\ i.start = SeedLength - Threshold + 1 /\ i.start \in SeedTicks
        BY <1>3, <1>8, Bounds DEF Intended
    <2>2. StartsAtFailure(i)
        <3>1. ~Succeeded(SeedOutcome(failed, final, i.start))
            BY <1>6, <2>1, Bounds
        <3> QED
            BY <1>1, <2>1, <3>1 DEF StartsAtFailure
    <2>3. CoversNoSuccess(i)
        BY <1>2, <1>3, <1>6, <2>1, Bounds DEF CoversNoSuccess
    <2> QED
        BY <2>1, <2>2, <2>3 DEF Follows, EndsAtSuccess
<1> QED
    BY <1>7, <1>8, SeedIncident

\* An outage is over before the next one starts.
LEMMA SeedApart ==
    ASSUME NEW s \in Sites, NEW failed \in SeedDraws, NEW final,
           incidents = SeedIncidents(s, failed, final)
    PROVE  \A i, j \in incidents : i = j \/ OverBy(i, j.start) \/ OverBy(j, i.start)
<1> SUFFICES ASSUME NEW i \in incidents, NEW j \in incidents
             PROVE  i = j \/ OverBy(i, j.start) \/ OverBy(j, i.start)
    OBVIOUS
<1>1. ASSUME NEW t \in Nat, NEW n \in Nat, Past(s, failed, i, t, n), Intended(s, final, j)
      PROVE  OverBy(i, j.start)
    BY <1>1, Bounds DEF Past, Intended, OverBy
<1>2. ASSUME NEW t \in Nat, NEW n \in Nat, Past(s, failed, j, t, n), Intended(s, final, i)
      PROVE  OverBy(j, i.start)
    BY <1>2, Bounds DEF Past, Intended, OverBy
<1>3. ASSUME NEW t \in Nat, NEW n \in Nat, Past(s, failed, i, t, n),
             NEW u \in Nat, NEW m \in Nat, Past(s, failed, j, u, m)
      PROVE  i = j \/ OverBy(i, j.start) \/ OverBy(j, i.start)
    <2>1. /\ i.start = t - n + Threshold - 1 /\ i.end = t /\ i.status = "RESOLVED" /\ t - n >= 1
          /\ j.start = u - m + Threshold - 1 /\ j.end = u /\ j.status = "RESOLVED" /\ u - m >= 1
          /\ n >= Threshold /\ m >= Threshold
        BY <1>3 DEF Past
    <2>2. t \notin failed /\ u \notin failed
          /\ (\A v \in t - n .. t - 1 : v \in failed) /\ (\A v \in u - m .. u - 1 : v \in failed)
        BY <1>3 DEF Past
    <2>3. t < u => t < u - m
        BY <2>2
    <2>4. u < t => u < t - n
        BY <2>2
    <2>5. ASSUME t = u PROVE i = j
        <3>1. t - 1 - n \notin failed /\ t - 1 - m \notin failed
            BY <1>3, <2>5 DEF Past
        <3>2. n = m
            BY <2>2, <2>5, <3>1
        <3> QED
            BY <1>3, <2>5, <3>2 DEF Past
    <2> QED
        BY <2>1, <2>3, <2>4, <2>5, Bounds DEF OverBy
<1>4. Intended(s, final, i) /\ Intended(s, final, j) => i = j
    BY DEF Intended
<1> QED
    BY <1>1, <1>2, <1>3, <1>4, SeedIncident

\* The incidents of a seeded site begin at different times.
LEMMA SeedStartsApart ==
    ASSUME NEW s \in Sites, NEW failed \in SeedDraws, NEW final,
           incidents = SeedIncidents(s, failed, final),
           NEW i \in incidents, NEW j \in incidents, i.start = j.start
    PROVE  i = j
<1>1. ASSUME NEW x \in incidents PROVE x.status = "ACTIVE" \/ x.end > x.start
    <2>1. ASSUME NEW t \in Nat, NEW n \in Nat, Past(s, failed, x, t, n) PROVE x.end > x.start
        BY <2>1, Bounds DEF Past
    <2>2. ASSUME Intended(s, final, x) PROVE x.status = "ACTIVE"
        BY <2>2 DEF Intended
    <2> QED
        BY <2>1, <2>2, SeedIncident
<1>2. i = j \/ OverBy(i, j.start) \/ OverBy(j, i.start)
    BY SeedApart
<1>3. \A x \in incidents : x.status = "RESOLVED" => x.start \in Nat /\ x.end \in Nat
    <2>1. ASSUME NEW x \in incidents, NEW t \in Nat, NEW n \in Nat, Past(s, failed, x, t, n)
          PROVE  x.start \in Nat /\ x.end \in Nat
        BY <2>1, Bounds DEF Past
    <2>2. ASSUME NEW x \in incidents, Intended(s, final, x) PROVE x.status # "RESOLVED"
        BY <2>2 DEF Intended
    <2> QED
        BY <2>1, <2>2, SeedIncident
<1> QED
    BY <1>1, <1>2, <1>3 DEF OverBy

\* Whatever site the script seeds or none, the history begins in order.
LEMMA SeedTyped ==
    ASSUME NEW s \in Sites, NEW failed \in SeedDraws, NEW final \in Finals,
           now = SeedLength,
           checks = SeedChecks(s, failed, final), incidents = SeedIncidents(s, failed, final)
    PROVE  /\ checks \subseteq [site : Sites, at : 0 .. now, outcome : Outcomes]
           /\ incidents \subseteq [site : Sites, status : {"ACTIVE", "RESOLVED"}, start : Nat, end : Int]
           /\ IsFiniteSet(incidents)
           /\ KnownBy(now)
<1>1. checks \subseteq [site : Sites, at : 0 .. now, outcome : Outcomes]
    <2>1. \A t \in SeedTicks : SeedOutcome(failed, final, t) \in Outcomes
        BY DEF SeedOutcome, Outcomes
    <2> QED
        BY <2>1, Bounds DEF SeedChecks, SeedTicks
<1>2. ASSUME NEW i \in incidents
      PROVE  /\ i \in [site : Sites, status : {"ACTIVE", "RESOLVED"}, start : 0 .. SeedLength,
                       end : -1 .. SeedLength]
             /\ i.start <= now /\ (i.status = "RESOLVED" => i.start <= i.end /\ i.end <= now)
    <2>1. ASSUME NEW t \in Nat, NEW n \in Nat, Past(s, failed, i, t, n)
          PROVE  /\ i \in [site : Sites, status : {"ACTIVE", "RESOLVED"}, start : 0 .. SeedLength,
                           end : -1 .. SeedLength]
                 /\ i.start <= now /\ i.start <= i.end /\ i.end <= now
        BY <2>1, Bounds DEF Past
    <2>2. ASSUME Intended(s, final, i)
          PROVE  /\ i \in [site : Sites, status : {"ACTIVE", "RESOLVED"}, start : 0 .. SeedLength,
                           end : -1 .. SeedLength]
                 /\ i.start <= now /\ i.status = "ACTIVE"
        BY <2>2, Bounds DEF Intended, NoValue
    <2> QED
        BY <2>1, <2>2, SeedIncident
<1>3. IsFiniteSet(incidents)
    <2> DEFINE F == {s} \X ({"ACTIVE", "RESOLVED"} \X ((0 .. SeedLength) \X (-1 .. SeedLength)))
               key == [i \in incidents |-> <<i.site, <<i.status, <<i.start, i.end>>>>>>]
    <2>1. IsFiniteSet(F)
        <3>1. IsFiniteSet(0 .. SeedLength) /\ IsFiniteSet(-1 .. SeedLength)
            BY Bounds, FS_Interval
        <3>2. IsFiniteSet({s}) /\ IsFiniteSet({"ACTIVE"}) /\ IsFiniteSet({"RESOLVED"})
            BY FS_Singleton
        <3>3. IsFiniteSet({"ACTIVE"} \union {"RESOLVED"})
            BY <3>2, FS_Union
        <3>4. IsFiniteSet({"ACTIVE", "RESOLVED"})
            BY <3>3
        <3> QED
            BY <3>1, <3>2, <3>4, FS_Product
    <2>2. \A i \in incidents : i.site = s
        BY SeedFollows
    <2>3. key \in Injection(incidents, F)
        BY <1>2, <2>2, Bounds DEF Injection, IsInjective
    <2> QED
        BY <2>1, <2>3, FS_Injection
<1>4. incidents \subseteq [site : Sites, status : {"ACTIVE", "RESOLVED"}, start : Nat, end : Int]
    <2>1. 0 .. SeedLength \subseteq Nat /\ -1 .. SeedLength \subseteq Int
        BY Bounds
    <2> QED
        BY <1>2, <2>1
<1>5. KnownBy(now)
    BY <1>2 DEF KnownBy
<1> QED
    BY <1>1, <1>3, <1>4, <1>5

-----------------------------------------------------------------------------
(* The check in hand: what is said of a site, of any history.              *)

ActiveIn(I, s) == {i \in I : i.site = s /\ i.status = "ACTIVE"}

InHand(pc) == pc \in {"find", "resolve", "open", "update"}
Finding(x) == x.pc \in {"find", "resolve"} /\ Succeeded(x.outcome)
Closing(x) == x.pc = "update" /\ Succeeded(x.outcome)

\* CheckInHand of a check x, and FollowsSoFar of a site, at moment t
Fits(x, C, I, t) ==
    /\ {d \in C : d.site = x.site /\ d.at = t} = {[site |-> x.site, at |-> t, outcome |-> x.outcome]}
    /\ Succeeded(x.outcome) => x.failed = 0 /\ x.pc # "open"
    /\ ~Succeeded(x.outcome) => (x.failed < Threshold => x.pc = "update")
    /\ x.pc = "resolve" => Succeeded(x.outcome) /\ \E i \in ActiveIn(I, x.site) : i.start = x.found
    /\ x.pc = "update" => IF Succeeded(x.outcome) THEN ActiveIn(I, x.site) = {}
                          ELSE x.failed < Threshold \/ ActiveIn(I, x.site) # {}

StartsIn(i, C) == \E c \in C : c.site = i.site /\ ~Succeeded(c.outcome) /\ c.at = i.start
EndsIn(i, C)   == i.status = "RESOLVED" => \E c \in C : c.site = i.site /\ Succeeded(c.outcome) /\ c.at = i.end

FollowAt(s, C, I, t, n, x) ==
    /\ \A i \in I : i.site = s =>
          /\ StartsIn(i, C) /\ EndsIn(i, C)
          /\ \A c \in C : Covers(i, c) => c.at = t /\ Finding(x)
    /\ n >= Threshold => ActiveIn(I, s) # {} \/ Closing(x)

\* What the history knows, of which the parts below speak.
InOrder == OneInHand /\ CheckInHand /\ FollowsSoFar
Ordered ==
    /\ HistoryTyped /\ EngineTyped /\ KnownBy(now) /\ IncidentsApart /\ FoundIsLast
    /\ InOrder

\* The check in hand is the one the site is said to be about.
LEMMA HandIs ==
    ASSUME Ordered, NEW c \in Checkers, NEW s \in Undisturbed, check[c].site = s,
           \A d \in Checkers : d # c => ~(Stored(d) /\ check[d].site = s)
    PROVE  /\ FollowAt(s, checks, incidents, now, failures[s], check[c])
           /\ Stored(c) => Fits(check[c], checks, incidents, now)
<1>1. \A pcs : (pcs \subseteq {"find", "resolve", "open", "update"} /\ Answering(s, pcs))
                  => check[c].pc \in pcs /\ Succeeded(check[c].outcome)
    BY DEF Answering, Stored
<1>2. Answering(s, {"find", "resolve"}) => Finding(check[c])
    BY <1>1 DEF Finding
<1>3. Answering(s, {"update"}) => Closing(check[c])
    BY <1>1 DEF Closing
<1>4. FollowsSoFar
    BY DEF Ordered, InOrder
<1>5. ASSUME NEW i \in incidents, i.site = s
      PROVE  /\ StartsIn(i, checks) /\ EndsIn(i, checks)
             /\ \A k \in checks : Covers(i, k) => k.at = now /\ Finding(check[c])
    <2>1. i \in IncidentsOf(s)
        BY <1>5 DEF IncidentsOf
    <2>2. /\ StartsAtFailure(i) /\ EndsAtSuccess(i)
          /\ \A k \in checks : Covers(i, k) => k.at = now /\ Answering(s, {"find", "resolve"})
        BY <1>4, <2>1, Zenon DEF FollowsSoFar
    <2> QED
        BY <1>2, <2>2, Zenon DEF StartsIn, EndsIn, StartsAtFailure, EndsAtSuccess
<1>6. failures[s] >= Threshold => ActiveOf(s) # {} \/ Answering(s, {"update"})
    BY <1>4, Zenon DEF FollowsSoFar
<1>7. FollowAt(s, checks, incidents, now, failures[s], check[c])
    BY <1>3, <1>5, <1>6, Zenon DEF FollowAt, ActiveIn, ActiveOf
<1>8. Stored(c) => Fits(check[c], checks, incidents, now)
    BY Zenon DEF Ordered, InOrder, CheckInHand, Fits, ActiveIn, ActiveOf, BelowThreshold
<1> QED
    BY <1>7, <1>8

\* A site with a stored check has no other.
LEMMA OnlyHand ==
    ASSUME Ordered, NEW c \in Checkers, Stored(c), check[c].site \in Undisturbed
    PROVE  \A d \in Checkers : d # c => ~(Stored(d) /\ check[d].site = check[c].site)
BY Zenon DEF Ordered, InOrder, OneInHand

\* A step of one check, on its site; of the other sites nothing changes.
LEMMA HandMoves ==
    ASSUME Ordered, NEW c \in Checkers, NEW s \in Sites,
           \A d \in Checkers : d # c => check'[d] = check[d],
           InHand(check[c].pc) => check[c].site = s,
           InHand(check'[c].pc) => check'[c].site = s,
           now' = now, Undisturbed' \subseteq Undisturbed,
           \A k : k.site # s => (k \in checks <=> k \in checks'),
           \A k : k.site # s => (k \in incidents <=> k \in incidents'),
           \A r \in Sites : r # s => failures'[r] = failures[r],
           s \in Undisturbed' =>
               /\ \A d \in Checkers : d # c => ~(Stored(d) /\ check[d].site = s)
               /\ InHand(check'[c].pc) => Fits(check'[c], checks', incidents', now)
               /\ FollowAt(s, checks', incidents', now, failures'[s], check'[c])
    PROVE  InOrder'
<1>1. OneInHand /\ CheckInHand /\ FollowsSoFar
    BY DEF Ordered, InOrder
<1>2. Undisturbed' \subseteq Sites
    BY DEF Undisturbed, Ordered, HistoryTyped
<1>3. \A d \in Checkers : Stored(d) <=> InHand(check[d].pc)
    BY DEF Stored, InHand
<1>4. \A d \in Checkers : Stored(d)' <=> InHand(check'[d].pc)
    BY DEF Stored, InHand
<1>5. OneInHand'
    <2> SUFFICES ASSUME NEW a \in Checkers, NEW b \in Checkers, InHand(check'[a].pc), InHand(check'[b].pc),
                        check'[a].site = check'[b].site, check'[a].site \in Undisturbed'
                 PROVE  a = b
        BY <1>4, Zenon DEF OneInHand
    <2>1. CASE a # c /\ b # c
        BY <1>1, <1>3, <2>1, Zenon DEF OneInHand
    <2>2. CASE a = c /\ b # c
        BY <1>3, <2>2, Zenon
    <2>3. CASE b = c /\ a # c
        BY <1>3, <2>3, Zenon
    <2> QED
        BY <2>1, <2>2, <2>3
<1>6. ASSUME NEW r, r # s PROVE ActiveIn(incidents', r) = ActiveIn(incidents, r)
    BY <1>6, Zenon DEF ActiveIn
<1>7. CheckInHand'
    <2> SUFFICES ASSUME NEW d \in Checkers, InHand(check'[d].pc), check'[d].site \in Undisturbed'
                 PROVE  Fits(check'[d], checks', incidents', now)
        BY <1>4, Zenon DEF CheckInHand, Fits, ActiveIn, ActiveOf, BelowThreshold
    <2>1. CASE d = c
        BY <2>1, Zenon
    <2>2. CASE d # c
        <3>1. Stored(d) /\ check'[d] = check[d] /\ check[d].site \in Undisturbed
            BY <1>3, <2>2, Zenon
        <3>2. Fits(check[d], checks, incidents, now)
            BY <1>1, <3>1, Zenon DEF CheckInHand, Fits, ActiveIn, ActiveOf, BelowThreshold
        <3>3. check[d].site # s
            BY <2>2, <3>1, Zenon
        <3> DEFINE x == check[d]
        <3>4. ActiveIn(incidents', x.site) = ActiveIn(incidents, x.site)
            BY <1>6, <3>3
        <3>5. {k \in checks' : k.site = x.site /\ k.at = now} = {k \in checks : k.site = x.site /\ k.at = now}
            BY <3>3, Zenon
        <3>6. Fits(x, checks, incidents, now)
            BY <3>2
        <3> HIDE DEF x
        <3>7. Fits(x, checks', incidents', now)
            BY <3>4, <3>5, <3>6, Zenon DEF Fits
        <3> QED
            BY <3>1, <3>7, Zenon DEF x
    <2> QED
        BY <2>1, <2>2
<1>8. FollowsSoFar'
    <2>1. ASSUME NEW r \in Undisturbed', r # s, NEW pcs, Answering(r, pcs), pcs \subseteq {"find", "resolve", "open", "update"}
          PROVE  Answering(r, pcs)'
        <3>1. PICK d \in Checkers : check[d].site = r /\ check[d].pc \in pcs /\ Succeeded(check[d].outcome)
            BY <2>1, Zenon DEF Answering
        <3>2. d # c
            BY <2>1, <3>1 DEF InHand
        <3> QED
            BY <3>1, <3>2, Zenon DEF Answering
    <2>2. ASSUME NEW r \in Undisturbed', r # s
          PROVE  /\ \A i \in incidents' : i.site = r =>
                        /\ StartsIn(i, checks') /\ EndsIn(i, checks')
                        /\ \A k \in checks' : Covers(i, k) => k.at = now /\ Answering(r, {"find", "resolve"})'
                 /\ failures'[r] >= Threshold => ActiveIn(incidents', r) # {} \/ Answering(r, {"update"})'
        <3>1. r \in Undisturbed /\ r \in Sites
            BY <1>2, <2>2
        <3>2. ASSUME NEW i \in incidents', i.site = r
              PROVE  /\ StartsIn(i, checks') /\ EndsIn(i, checks')
                     /\ \A k \in checks' : Covers(i, k) => k.at = now /\ Answering(r, {"find", "resolve"})'
            <4>1. i \in IncidentsOf(r)
                BY <2>2, <3>2, Zenon DEF IncidentsOf
            <4>2. /\ StartsAtFailure(i) /\ EndsAtSuccess(i)
                  /\ \A k \in checks : Covers(i, k) => k.at = now /\ Answering(r, {"find", "resolve"})
                BY <1>1, <3>1, <4>1, Zenon DEF FollowsSoFar
            <4>3. StartsIn(i, checks') /\ EndsIn(i, checks')
                BY <2>2, <3>2, <4>2, Zenon DEF StartsIn, EndsIn, StartsAtFailure, EndsAtSuccess
            <4>4. ASSUME NEW k \in checks', Covers(i, k) PROVE k \in checks
                BY <2>2, <3>2, <4>4, Zenon DEF Covers
            <4>5. {"find", "resolve"} \subseteq {"find", "resolve", "open", "update"}
                OBVIOUS
            <4> QED
                BY <2>1, <2>2, <4>2, <4>3, <4>4, <4>5, Zenon
        <3>3. failures'[r] >= Threshold => ActiveIn(incidents', r) # {} \/ Answering(r, {"update"})'
            <4>1. failures[r] >= Threshold => ActiveOf(r) # {} \/ Answering(r, {"update"})
                BY <1>1, <3>1, Zenon DEF FollowsSoFar
            <4>2. ActiveIn(incidents', r) = ActiveOf(r)
                BY <1>6, <2>2, Zenon DEF ActiveIn, ActiveOf
            <4>3. {"update"} \subseteq {"find", "resolve", "open", "update"} /\ failures'[r] = failures[r]
                BY <2>2, <3>1
            <4> QED
                BY <2>1, <2>2, <4>1, <4>2, <4>3, Zenon
        <3> QED
            BY <3>2, <3>3
    <2>3. ASSUME s \in Undisturbed'
          PROVE  /\ Finding(check'[c]) => Answering(s, {"find", "resolve"})'
                 /\ Closing(check'[c]) => Answering(s, {"update"})'
        BY DEF Finding, Closing, Answering, InHand
    <2>4. ASSUME s \in Undisturbed'
          PROVE  /\ \A i \in incidents' : i.site = s =>
                        /\ StartsIn(i, checks') /\ EndsIn(i, checks')
                        /\ \A k \in checks' : Covers(i, k) => k.at = now /\ Answering(s, {"find", "resolve"})'
                 /\ failures'[s] >= Threshold => ActiveIn(incidents', s) # {} \/ Answering(s, {"update"})'
        BY <2>3, <2>4, Zenon DEF FollowAt
    <2>5. ASSUME NEW r \in Undisturbed'
          PROVE  /\ \A i \in incidents' : i.site = r =>
                        /\ StartsIn(i, checks') /\ EndsIn(i, checks')
                        /\ \A k \in checks' : Covers(i, k) => k.at = now /\ Answering(r, {"find", "resolve"})'
                 /\ failures'[r] >= Threshold => ActiveIn(incidents', r) # {} \/ Answering(r, {"update"})'
        BY <2>2, <2>4, Zenon
    <2> SUFFICES ASSUME NEW r \in Undisturbed'
                 PROVE  /\ \A i \in IncidentsOf(r)' :
                              /\ StartsIn(i, checks') /\ EndsIn(i, checks')
                              /\ \A k \in checks' : Covers(i, k) =>
                                    k.at = now' /\ Answering(r, {"find", "resolve"})'
                        /\ failures'[r] >= Threshold => ActiveOf(r)' # {} \/ Answering(r, {"update"})'
        BY Zenon DEF FollowsSoFar, StartsIn, EndsIn, StartsAtFailure, EndsAtSuccess
    <2>6. \A i \in IncidentsOf(r)' : i \in incidents' /\ i.site = r
        BY DEF IncidentsOf
    <2>7. ActiveOf(r)' = ActiveIn(incidents', r)
        BY Zenon DEF ActiveOf, ActiveIn
    <2> QED
        BY <2>5, <2>6, <2>7
<1> QED
    BY <1>5, <1>7, <1>8, Zenon DEF InOrder

\* A step of no stored check, and of no undisturbed site.
LEMMA StoredStay ==
    ASSUME Ordered,
           \A d \in Checkers : InHand(check[d].pc) \/ InHand(check'[d].pc) => check'[d] = check[d],
           now' = now, failures' = failures, Undisturbed' \subseteq Undisturbed,
           \A k : k.site \in Undisturbed' => (k \in checks <=> k \in checks'),
           \A k : k.site \in Undisturbed' => (k \in incidents <=> k \in incidents')
    PROVE  InOrder'
<1>1. OneInHand /\ CheckInHand /\ FollowsSoFar
    BY DEF Ordered, InOrder
<1>3. \A d \in Checkers : (Stored(d) <=> InHand(check[d].pc)) /\ (Stored(d)' <=> InHand(check'[d].pc))
    BY DEF Stored, InHand
<1>4. \A d \in Checkers : Stored(d)' => Stored(d) /\ check'[d] = check[d]
    BY <1>3, Zenon
<1>5. OneInHand'
    BY <1>1, <1>4, Zenon DEF OneInHand
<1>6. ASSUME NEW r \in Undisturbed'
      PROVE  ActiveOf(r)' = ActiveOf(r) /\ IncidentsOf(r)' = IncidentsOf(r)
    BY <1>6, Zenon DEF ActiveOf, IncidentsOf
<1>7. CheckInHand'
    <2> SUFFICES ASSUME NEW d \in Checkers, Stored(d)', check'[d].site \in Undisturbed'
                 PROVE  Fits(check'[d], checks', incidents', now)
        BY Zenon DEF CheckInHand, Fits, ActiveIn, ActiveOf, BelowThreshold
    <2>1. Stored(d) /\ check'[d] = check[d] /\ check[d].site \in Undisturbed /\ check[d].site \in Undisturbed'
        BY <1>4, Zenon
    <2>2. Fits(check[d], checks, incidents, now)
        BY <1>1, <2>1, Zenon DEF CheckInHand, Fits, ActiveIn, ActiveOf, BelowThreshold
    <2> DEFINE x == check[d]
    <2>3. ActiveIn(incidents', x.site) = ActiveIn(incidents, x.site)
        BY <2>1, Zenon DEF ActiveIn
    <2>4. {k \in checks' : k.site = x.site /\ k.at = now} = {k \in checks : k.site = x.site /\ k.at = now}
        BY <2>1, Zenon
    <2>5. Fits(x, checks, incidents, now)
        BY <2>2
    <2> HIDE DEF x
    <2>6. Fits(x, checks', incidents', now)
        BY <2>3, <2>4, <2>5, Zenon DEF Fits
    <2> QED
        BY <2>1, <2>6, Zenon DEF x
<1>8. FollowsSoFar'
    <2>1. ASSUME NEW r, NEW pcs, pcs \subseteq {"find", "resolve", "open", "update"}, Answering(r, pcs)
          PROVE  Answering(r, pcs)'
        <3>1. PICK d \in Checkers : check[d].site = r /\ check[d].pc \in pcs /\ Succeeded(check[d].outcome)
            BY <2>1, Zenon DEF Answering
        <3>2. check'[d] = check[d]
            BY <2>1, <3>1 DEF InHand
        <3> QED
            BY <3>1, <3>2, Zenon DEF Answering
    <2>2. {"find", "resolve"} \subseteq {"find", "resolve", "open", "update"}
          /\ {"update"} \subseteq {"find", "resolve", "open", "update"}
        OBVIOUS
    <2> SUFFICES ASSUME NEW r \in Undisturbed'
                 PROVE  /\ \A i \in IncidentsOf(r)' :
                              /\ StartsAtFailure(i)' /\ EndsAtSuccess(i)'
                              /\ \A k \in checks' : Covers(i, k) =>
                                    k.at = now' /\ Answering(r, {"find", "resolve"})'
                        /\ failures'[r] >= Threshold => ActiveOf(r)' # {} \/ Answering(r, {"update"})'
        BY Zenon DEF FollowsSoFar
    <2>3. failures'[r] >= Threshold => ActiveOf(r)' # {} \/ Answering(r, {"update"})'
        BY <1>1, <1>6, <2>1, <2>2, Zenon DEF FollowsSoFar
    <2>4. ASSUME NEW i \in IncidentsOf(r)'
          PROVE  /\ StartsAtFailure(i)' /\ EndsAtSuccess(i)'
                 /\ \A k \in checks' : Covers(i, k) => k.at = now' /\ Answering(r, {"find", "resolve"})'
        <3>1. i \in IncidentsOf(r) /\ i.site = r
            BY <1>6, <2>4, Zenon DEF IncidentsOf
        <3>2. /\ StartsAtFailure(i) /\ EndsAtSuccess(i)
              /\ \A k \in checks : Covers(i, k) => k.at = now /\ Answering(r, {"find", "resolve"})
            BY <1>1, <3>1, Zenon DEF FollowsSoFar
        <3>3. StartsAtFailure(i)' /\ EndsAtSuccess(i)'
            BY <3>1, <3>2, Zenon DEF StartsAtFailure, EndsAtSuccess
        <3>4. ASSUME NEW k \in checks', Covers(i, k) PROVE k \in checks
            BY <3>1, <3>4, Zenon DEF Covers
        <3> QED
            BY <2>1, <2>2, <3>2, <3>3, <3>4
    <2> QED
        BY <2>3, <2>4
<1> QED
    BY <1>5, <1>7, <1>8, Zenon DEF InOrder

-----------------------------------------------------------------------------
(* What a step of a check is.                                              *)

Incs == [site : Sites, status : {"ACTIVE", "RESOLVED"}, start : Nat, end : Int]

LEMMA Known ==
    Ordered => \A i \in incidents : /\ i \in Incs /\ i.start <= now
                                    /\ i.status = "RESOLVED" => i.start <= i.end /\ i.end <= now
BY DEF Ordered, HistoryTyped, KnownBy, Incs

At(pc, s, n, o, f) == [pc |-> pc, site |-> s, failed |-> n, outcome |-> o, found |-> f]

LEMMA BusyIs ==
    ASSUME EngineTyped, NEW c \in Checkers
    PROVE  /\ check[c] # NoCheck => check[c] \in UnderWay
           /\ check[c].pc # "idle" => check[c] # NoCheck
           /\ check[c] \in UnderWay => check[c].pc # "idle"
           /\ Stored(c) => check[c] \in UnderWay /\ check[c].outcome \in Outcomes /\ check[c].site \in Sites
           /\ Stored(c) <=> InHand(check[c].pc)
           /\ ~InHand(NoCheck.pc)
<1>1. check[c] \in {NoCheck} \union UnderWay
    BY DEF EngineTyped
<1>2. NoCheck.pc = "idle"
    BY DEF NoCheck
<1>3. \A x \in UnderWay : x.pc # "idle" /\ x.site \in Sites
    BY DEF UnderWay
<1>4. Stored(c) <=> InHand(check[c].pc)
    BY DEF Stored, InHand
<1>5. ~InHand("idle")
    BY DEF InHand
<1> HIDE DEF NoCheck
<1> QED
    BY <1>1, <1>2, <1>3, <1>4, <1>5, Zenon DEF EngineTyped

LEMMA EngineMoves ==
    ASSUME EngineTyped, NEW c \in Checkers, NEW new \in {NoCheck} \union UnderWay,
           InHand(new.pc) => new.outcome \in Outcomes, check' = [check EXCEPT ![c] = new]
    PROVE  /\ EngineTyped' /\ check'[c] = new
           /\ \A d \in Checkers : d # c => check'[d] = check[d]
<1>1. check \in [Checkers -> {NoCheck} \union UnderWay]
    BY DEF EngineTyped
<1>2. check' \in [Checkers -> {NoCheck} \union UnderWay] /\ check'[c] = new
      /\ \A d \in Checkers : d # c => check'[d] = check[d]
    BY <1>1, Zenon
<1>3. \A d \in Checkers : (Stored(d) <=> InHand(check[d].pc)) /\ (Stored(d)' <=> InHand(check'[d].pc))
    BY DEF Stored, InHand
<1>4. \A d \in Checkers : Stored(d)' => check'[d].outcome \in Outcomes
    BY <1>2, <1>3, Zenon DEF EngineTyped
<1> QED
    BY <1>2, <1>4, Zenon DEF EngineTyped

LEMMA GoesIs ==
    ASSUME EngineTyped, NEW c \in Checkers, Stored(c), NEW pc, InHand(pc), NEW f \in Int, Goes(c, pc, f)
    PROVE  /\ check' = [check EXCEPT ![c] = At(pc, check[c].site, check[c].failed, check[c].outcome, f)]
           /\ At(pc, check[c].site, check[c].failed, check[c].outcome, f) \in UnderWay
           /\ check[c].outcome \in Outcomes
<1> DEFINE x == check[c]
<1>1. x \in UnderWay /\ x.outcome \in Outcomes
    BY BusyIs
<1>2. check' = [check EXCEPT ![c] = [x EXCEPT !.pc = pc, !.found = f]]
    BY DEF Goes
<1> HIDE DEF x
<1>3. [x EXCEPT !.pc = pc, !.found = f] = At(pc, x.site, x.failed, x.outcome, f)
    <2> DEFINE y == [x EXCEPT !.pc = pc]
    <2>1. x = [pc |-> x.pc, site |-> x.site, failed |-> x.failed, outcome |-> x.outcome, found |-> x.found]
        BY <1>1 DEF UnderWay
    <2>2. y = [pc |-> pc, site |-> x.site, failed |-> x.failed, outcome |-> x.outcome, found |-> x.found]
        BY <2>1
    <2>3. [x EXCEPT !.pc = pc, !.found = f] = [y EXCEPT !.found = f]
        OBVIOUS
    <2> HIDE DEF y
    <2>4. [y EXCEPT !.found = f] = [pc |-> pc, site |-> x.site, failed |-> x.failed, outcome |-> x.outcome, found |-> f]
        BY <2>2
    <2> QED
        BY <2>3, <2>4 DEF At
<1>4. At(pc, x.site, x.failed, x.outcome, f) \in UnderWay
    BY <1>1 DEF UnderWay, At, InHand
<1>5. check' = [check EXCEPT ![c] = At(pc, x.site, x.failed, x.outcome, f)]
    BY <1>2, <1>3, Zenon
<1> QED
    BY <1>1, <1>4, <1>5, Zenon DEF x

-----------------------------------------------------------------------------
(* Whatever site the script seeds or none, the history begins in order.    *)

LEMMA InitEngine ==
    ASSUME Init
    PROVE  EngineTyped /\ FoundIsLast /\ OneInHand /\ CheckInHand
<1>1. \A c \in Checkers : check[c] = NoCheck
    BY DEF Init
<1>2. \A c \in Checkers : check[c].pc = "idle"
    BY <1>1 DEF NoCheck
<1>3. check \in [Checkers -> {NoCheck} \union UnderWay]
    BY DEF Init
<1>4. \A c \in Checkers : ~Stored(c) /\ check[c].pc # "resolve"
    BY <1>2 DEF Stored
<1> QED
    BY <1>3, <1>4, Zenon DEF EngineTyped, FoundIsLast, OneInHand, CheckInHand

LEMMA InitInv == Init => AnalyticsInv
<1> SUFFICES ASSUME Init PROVE AnalyticsInv
    OBVIOUS
<1>1. AnsweredOf
    BY DEF AnsweredOf, Init, Idle
<1>2. /\ writes \in Nat /\ request.match \subseteq Sites /\ request.range \in Nat /\ request.at \in Nat
      /\ request.kind = "platform" => request.match = Sites
    BY DEF Init, Idle, None
<1>3. EngineTyped /\ FoundIsLast /\ OneInHand /\ CheckInHand
    BY InitEngine
<1>4. CASE Unseeded
    <2>1. HistoryTyped
        <3>1. IsFiniteSet(incidents)
            BY <1>4, FS_EmptySet DEF Unseeded
        <3> QED
            BY <1>2, <1>4, <3>1, Bounds DEF HistoryTyped, Unseeded
    <2>2. KnownBy(now) /\ IncidentsApart
        BY <1>4 DEF Unseeded, KnownBy, IncidentsApart
    <2>3. \A s \in Undisturbed : s \in Sites /\ ~(failures[s] >= Threshold) /\ IncidentsOf(s) = {}
        BY <1>4, Bounds DEF Unseeded, Undisturbed, IncidentsOf
    <2>4. FollowsSoFar
        BY <2>3, Zenon DEF FollowsSoFar
    <2> QED
        BY <1>1, <1>3, <2>1, <2>2, <2>4, Zenon DEF AnalyticsInv
<1>5. CASE Seeded
    <2>1. PICK s \in DemoSites, failed \in SeedDraws, final \in Finals :
              /\ now = SeedLength
              /\ existing = {s}
              /\ checks = SeedChecks(s, failed, final)
              /\ incidents = SeedIncidents(s, failed, final)
              /\ failures = [x \in Sites |-> IF x = s /\ final = "OFFLINE" THEN Threshold ELSE 0]
        BY <1>5, Zenon DEF Seeded
    <2>2. s \in Sites
        BY AnalyticsAssumption
    <2>3. HistoryTyped /\ KnownBy(now)
        BY <1>2, <2>1, <2>2, SeedTyped, Bounds DEF HistoryTyped
    <2>4. IncidentsApart
        BY <2>1, <2>2, SeedApart, SeedStartsApart, Zenon DEF IncidentsApart
    <2>5. \A i \in incidents : Follows(i)
        BY <2>1, <2>2, SeedFollows, Zenon
    <2>6. failures[s] >= Threshold => ActiveOf(s) # {}
        <3> SUFFICES ASSUME failures[s] >= Threshold
                     PROVE  \E i \in incidents : i.site = s /\ i.status = "ACTIVE"
            BY DEF ActiveOf
        <3>1. final = "OFFLINE"
            BY <2>1, <2>2, Bounds
        <3> DEFINE new == [site |-> s, status |-> "ACTIVE", start |-> SeedLength - Threshold + 1,
                           end |-> NoValue]
        <3>2. new \in incidents
            BY <2>1, <3>1 DEF SeedIncidents
        <3> QED
            BY <3>2
    <2>7. \A i \in incidents, c \in checks : ~Covers(i, c)
        BY <2>5, Zenon DEF Follows, CoversNoSuccess, Covers
    <2>8. Undisturbed \subseteq {s}
        BY <2>1 DEF Undisturbed
    <2>9. FollowsSoFar
        BY <2>5, <2>6, <2>7, <2>8, Zenon DEF FollowsSoFar, Follows, IncidentsOf
    <2> QED
        BY <1>1, <1>3, <2>3, <2>4, <2>9, Zenon DEF AnalyticsInv
<1> QED
    BY <1>4, <1>5, Zenon DEF Init

-----------------------------------------------------------------------------
(* The steps of a check.                                                   *)

\* FoundIsLast of a check x
LastFound(x, I, t) ==
    \/ \A i \in I : i.site = x.site => i.start = t
    \/ /\ \E i \in I : i.site = x.site /\ i.start = x.found
       /\ \A i \in I : i.site = x.site => i.start = x.found \/ OverBy(i, x.found) \/ i.start = t

LEMMA FoundIs ==
    FoundIsLast <=> \A c \in Checkers : check[c].pc = "resolve" /\ check[c].site \notin overtaken
                        => LastFound(check[c], incidents, now)
BY Zenon DEF FoundIsLast, LastFound, IncidentsOf

LEMMA FoundMoves ==
    ASSUME Ordered, NEW c \in Checkers, \A d \in Checkers : d # c => check'[d] = check[d],
           now' = now, overtaken' = overtaken,
           \A d \in Checkers : d # c /\ check[d].pc = "resolve" /\ check[d].site \notin overtaken
              /\ LastFound(check[d], incidents, now) => LastFound(check[d], incidents', now),
           check'[c].pc = "resolve" /\ check'[c].site \notin overtaken
              => LastFound(check'[c], incidents', now)
    PROVE  FoundIsLast'
<1>1. \A d \in Checkers : check[d].pc = "resolve" /\ check[d].site \notin overtaken
                             => LastFound(check[d], incidents, now)
    BY FoundIs DEF Ordered
<1>2. ASSUME NEW d \in Checkers, check'[d].pc = "resolve", check'[d].site \notin overtaken
      PROVE  LastFound(check'[d], incidents', now)
    <2>1. CASE d = c
        BY <1>2, <2>1
    <2>2. CASE d # c
        <3>1. check'[d] = check[d]
            BY <2>2, Zenon
        <3>2. LastFound(check[d], incidents, now)
            BY <1>1, <1>2, <3>1, Zenon
        <3>3. LastFound(check[d], incidents', now)
            BY <1>2, <2>2, <3>1, <3>2, Zenon
        <3> QED
            BY <3>1, <3>3, Zenon
    <2> QED
        BY <2>1, <2>2
<1> QED
    BY <1>2, Zenon DEF FoundIsLast, LastFound, IncidentsOf, OverBy

LEMMA HistoryStays ==
    ASSUME Ordered, UNCHANGED <<now, history, overtaken, request, writes>>
    PROVE  HistoryTyped' /\ KnownBy(now)' /\ IncidentsApart'
<1>1. HistoryTyped /\ KnownBy(now) /\ IncidentsApart
    BY DEF Ordered
<1>2. /\ now' = now /\ existing' = existing /\ failures' = failures /\ checks' = checks
      /\ incidents' = incidents /\ overtaken' = overtaken /\ request' = request /\ writes' = writes
    BY DEF history
<1> QED
    BY <1>1, <1>2, Zenon DEF HistoryTyped, KnownBy, IncidentsApart, OverBy

\* A step that only moves the check on: what is known of its site once it has.
LEMMA MovesOn ==
    ASSUME Ordered, NEW c \in Checkers, NEW new \in {NoCheck} \union UnderWay,
           UNCHANGED <<now, history, overtaken, request, writes>>, cut \subseteq cut',
           check' = [check EXCEPT ![c] = new], InHand(new.pc) => new.outcome \in Outcomes,
           new.pc = "resolve" /\ new.site \notin overtaken => LastFound(new, incidents, now),
           \/ ~InHand(check[c].pc) /\ ~InHand(new.pc)
           \/ /\ InHand(check[c].pc) /\ (InHand(new.pc) => new.site = check[c].site)
              /\ check[c].site \in existing \ (overtaken \union cut') =>
                    /\ InHand(new.pc) => Fits(new, checks, incidents, now)
                    /\ FollowAt(check[c].site, checks, incidents, now, failures[check[c].site], new)
    PROVE  Ordered'
<1>1. HistoryTyped' /\ KnownBy(now)' /\ IncidentsApart'
    BY HistoryStays
<1>2. EngineTyped
    BY DEF Ordered
<1>3. EngineTyped' /\ check'[c] = new /\ \A d \in Checkers : d # c => check'[d] = check[d]
    BY <1>2, EngineMoves, Zenon
<1>4. /\ now' = now /\ existing' = existing /\ failures' = failures /\ checks' = checks
      /\ incidents' = incidents /\ overtaken' = overtaken
    BY DEF history
<1>5. FoundIsLast'
    BY <1>3, <1>4, FoundMoves, Zenon
<1>6. Undisturbed' = existing \ (overtaken \union cut') /\ Undisturbed' \subseteq Undisturbed
    BY <1>4 DEF Undisturbed
<1>7. CASE ~InHand(check[c].pc) /\ ~InHand(new.pc)
    <2>1. \A d \in Checkers : InHand(check[d].pc) \/ InHand(check'[d].pc) => check'[d] = check[d]
        BY <1>3, <1>7, Zenon
    <2>2. InOrder'
        BY <1>4, <1>6, <2>1, StoredStay, Zenon
    <2> QED
        BY <1>1, <1>3, <1>5, <2>2, Zenon DEF Ordered
<1>8. CASE /\ InHand(check[c].pc) /\ (InHand(new.pc) => new.site = check[c].site)
           /\ check[c].site \in existing \ (overtaken \union cut') =>
                    /\ InHand(new.pc) => Fits(new, checks, incidents, now)
                    /\ FollowAt(check[c].site, checks, incidents, now, failures[check[c].site], new)
    <2> DEFINE s == check[c].site
    <2>1. Stored(c) /\ s \in Sites
        BY <1>2, <1>8, BusyIs, Zenon
    <2>2. s \in Undisturbed' => \A d \in Checkers : d # c => ~(Stored(d) /\ check[d].site = s)
        BY <1>6, <2>1, OnlyHand, Zenon
    <2> HIDE DEF s
    <2>3. check[c].site = s
        BY DEF s
    <2>4. InOrder'
        BY <1>3, <1>4, <1>6, <1>8, <2>1, <2>2, <2>3, HandMoves, Zenon
    <2> QED
        BY <1>1, <1>3, <1>5, <2>4, Zenon DEF Ordered
<1> QED
    BY <1>7, <1>8

LEMMA SnapshotKeeps ==
    ASSUME Ordered, NEW c \in Checkers, NEW s \in Sites, Snapshot(c, s)
    PROVE  Ordered'
<1> DEFINE new == At("probe", s, failures[s], None, NoValue)
<1>1. check[c] = NoCheck /\ cut' = cut
      /\ UNCHANGED <<now, history, overtaken, request, writes>>
    BY Zenon DEF Snapshot
<1>2. [NoCheck EXCEPT !.pc = "probe", !.site = s, !.failed = failures[s]] = new
    <2> DEFINE y == [NoCheck EXCEPT !.pc = "probe"]
               z == [y EXCEPT !.site = s]
    <2>1. y = [pc |-> "probe", site |-> None, failed |-> 0, outcome |-> None, found |-> NoValue]
        BY DEF NoCheck
    <2>2. [NoCheck EXCEPT !.pc = "probe", !.site = s, !.failed = failures[s]] = [z EXCEPT !.failed = failures[s]]
        OBVIOUS
    <2> HIDE DEF y
    <2>3. z = [pc |-> "probe", site |-> s, failed |-> 0, outcome |-> None, found |-> NoValue]
        BY <2>1
    <2> HIDE DEF z
    <2>4. [z EXCEPT !.failed = failures[s]]
             = [pc |-> "probe", site |-> s, failed |-> failures[s], outcome |-> None, found |-> NoValue]
        BY <2>3
    <2> QED
        BY <2>2, <2>4 DEF At
<1>3. check' = [check EXCEPT ![c] = [NoCheck EXCEPT !.pc = "probe", !.site = s, !.failed = failures[s]]]
    BY Zenon DEF Snapshot
<1>4. check' = [check EXCEPT ![c] = new]
    BY <1>2, <1>3, Zenon
<1>5. new \in UnderWay /\ new.pc = "probe"
    <2>1. failures[s] \in Nat
        BY DEF Ordered, HistoryTyped
    <2>2. NoValue \in Int
        BY DEF NoValue
    <2> QED
        BY <2>1, <2>2 DEF UnderWay, At
<1>6. ~InHand("probe") /\ ~InHand(NoCheck.pc)
    BY DEF InHand, NoCheck
<1>7. "probe" # "resolve"
    OBVIOUS
<1> HIDE DEF new
<1> QED
    BY <1>1, <1>4, <1>5, <1>6, <1>7, MovesOn, Zenon

LEMMA InterruptedKeeps ==
    ASSUME Ordered, NEW c \in Checkers, Interrupted(c)
    PROVE  Ordered'
<1>1. /\ check' = [check EXCEPT ![c] = NoCheck]
      /\ cut' = cut \union IF Stored(c) THEN {check[c].site} ELSE {}
      /\ UNCHANGED <<now, history, overtaken, request, writes>>
    BY Zenon DEF Interrupted
<1>2. ~InHand(NoCheck.pc) /\ NoCheck.pc # "resolve"
    BY DEF InHand, NoCheck
<1>3. Stored(c) <=> InHand(check[c].pc)
    BY DEF Stored, InHand
<1>4. cut \subseteq cut' /\ (Stored(c) => check[c].site \notin existing \ (overtaken \union cut'))
    BY <1>1
<1>5. NoCheck \in {NoCheck} \union UnderWay
    OBVIOUS
<1> QED
    BY <1>1, <1>2, <1>3, <1>4, <1>5, MovesOn, Zenon

LEMMA AtHas ==
    ASSUME NEW pc, NEW s, NEW n, NEW o, NEW f
    PROVE  /\ At(pc, s, n, o, f).pc = pc /\ At(pc, s, n, o, f).site = s /\ At(pc, s, n, o, f).failed = n
           /\ At(pc, s, n, o, f).outcome = o /\ At(pc, s, n, o, f).found = f
BY DEF At

\* A stored check that goes on without writing.
LEMMA GoesOn ==
    ASSUME Ordered, NEW c \in Checkers, Stored(c), NEW pc, InHand(pc), NEW f \in Int, Goes(c, pc, f),
           UNCHANGED <<now, history, request, writes>>,
           pc = "resolve" /\ check[c].site \notin overtaken
              => LastFound(At(pc, check[c].site, check[c].failed, check[c].outcome, f), incidents, now),
           FollowAt(check[c].site, checks, incidents, now, failures[check[c].site], check[c])
           /\ Fits(check[c], checks, incidents, now)
              => /\ FollowAt(check[c].site, checks, incidents, now, failures[check[c].site],
                             At(pc, check[c].site, check[c].failed, check[c].outcome, f))
                 /\ Fits(At(pc, check[c].site, check[c].failed, check[c].outcome, f), checks, incidents, now)
    PROVE  Ordered'
<1> DEFINE x == check[c]
           new == At(pc, x.site, x.failed, x.outcome, f)
<1>1. EngineTyped
    BY DEF Ordered
<1>2. check' = [check EXCEPT ![c] = new] /\ new \in UnderWay /\ x.outcome \in Outcomes
    BY <1>1, GoesIs, Zenon
<1>3. overtaken' = overtaken /\ cut' = cut
    BY Zenon DEF Goes
<1>4. new.pc = pc /\ new.site = x.site /\ new.outcome = x.outcome
    BY DEF At
<1>11. x = check[c]
    OBVIOUS
<1>12. /\ pc = "resolve" /\ x.site \notin overtaken => LastFound(new, incidents, now)
       /\ FollowAt(x.site, checks, incidents, now, failures[x.site], x) /\ Fits(x, checks, incidents, now)
             => /\ FollowAt(x.site, checks, incidents, now, failures[x.site], new)
                /\ Fits(new, checks, incidents, now)
    OBVIOUS
<1> HIDE DEF x, new
<1>5. InHand(check[c].pc)
    BY <1>1, BusyIs, Zenon
<1>6. ASSUME x.site \in Undisturbed
      PROVE  /\ FollowAt(x.site, checks, incidents, now, failures[x.site], new)
             /\ Fits(new, checks, incidents, now)
    <2>1. \A d \in Checkers : d # c => ~(Stored(d) /\ check[d].site = x.site)
        BY <1>6, <1>11, OnlyHand, Zenon
    <2>2. /\ FollowAt(x.site, checks, incidents, now, failures[x.site], x)
          /\ Fits(x, checks, incidents, now)
        BY <1>6, <1>11, <2>1, HandIs, Zenon
    <2> QED
        BY <1>12, <2>2, Zenon
<1>7. existing \ (overtaken \union cut') = Undisturbed
    BY <1>3 DEF Undisturbed
<1>8. cut \subseteq cut' /\ UNCHANGED <<now, history, overtaken, request, writes>>
    BY <1>3, Zenon
<1>9. x.site \in existing \ (overtaken \union cut') =>
          /\ InHand(new.pc) => Fits(new, checks, incidents, now)
          /\ FollowAt(x.site, checks, incidents, now, failures[x.site], new)
    BY <1>6, <1>7, Zenon
<1>10. new \in {NoCheck} \union UnderWay
    BY <1>2, Zenon
<1> QED
    BY <1>2, <1>4, <1>5, <1>8, <1>9, <1>10, <1>11, <1>12, MovesOn, Zenon

LEMMA FindsIncidentKeeps ==
    ASSUME Ordered, NEW c \in Checkers, FindsIncident(c)
    PROVE  Ordered'
<1> DEFINE x == check[c]
<1>1. /\ x.pc = "find" /\ Stored(c) /\ UNCHANGED <<now, history, request, writes>>
      /\ \E i \in ActiveOf(x.site) :
            IF Succeeded(x.outcome) THEN Goes(c, "resolve", i.start) ELSE Goes(c, "update", NoValue)
    BY DEF FindsIncident, Stored
<1>2. x.site \in Sites
    BY <1>1, BusyIs, Zenon DEF Ordered
<1>3. PICK i \in incidents : /\ i.site = x.site /\ i.status = "ACTIVE"
                             /\ IF Succeeded(x.outcome) THEN Goes(c, "resolve", i.start)
                                                        ELSE Goes(c, "update", NoValue)
    BY <1>1 DEF ActiveOf
<1>4. i.start \in Int /\ NoValue \in Int
    BY DEF Ordered, HistoryTyped, NoValue
<1>5. InHand("resolve") /\ InHand("update") /\ "update" # "resolve"
    BY DEF InHand
<1>6. i \in ActiveIn(incidents, x.site) /\ "find" # "update"
    BY <1>3 DEF ActiveIn
<1>7. CASE Succeeded(x.outcome)
    <2> DEFINE new == At("resolve", x.site, x.failed, x.outcome, i.start)
    <2>1. /\ new.pc = "resolve" /\ new.site = x.site /\ new.failed = x.failed
          /\ new.outcome = x.outcome /\ new.found = i.start
        BY DEF At
    <2>2. ASSUME x.site \notin overtaken PROVE LastFound(new, incidents, now)
        <3>1. \A j \in incidents : j.site = x.site => j.start = i.start \/ OverBy(j, i.start)
            BY <1>3, <2>2 DEF Ordered, IncidentsApart, OverBy
        <3> HIDE DEF new
        <3> QED
            BY <1>3, <2>1, <3>1, Zenon DEF LastFound
    <2>5. Goes(c, "resolve", i.start)
        BY <1>3, <1>7
    <2>6. Stored(c)
        BY <1>1
    <2>7. UNCHANGED <<now, history, request, writes>>
        BY <1>1
    <2> HIDE DEF x, new
    <2>3. ASSUME FollowAt(x.site, checks, incidents, now, failures[x.site], x)
          PROVE  FollowAt(x.site, checks, incidents, now, failures[x.site], new)
        BY <1>1, <1>7, <2>1, <2>3 DEF FollowAt, Finding, Closing
    <2>4. ASSUME Fits(x, checks, incidents, now) PROVE Fits(new, checks, incidents, now)
        BY <1>6, <1>7, <2>1, <2>4 DEF Fits
    <2> QED
        BY <1>4, <1>5, <2>2, <2>3, <2>4, <2>5, <2>6, <2>7, GoesOn, Zenon DEF x, new
<1>8. CASE ~Succeeded(x.outcome)
    <2> DEFINE new == At("update", x.site, x.failed, x.outcome, NoValue)
    <2>1. /\ new.pc = "update" /\ new.site = x.site /\ new.failed = x.failed
          /\ new.outcome = x.outcome
        BY DEF At
    <2>5. Goes(c, "update", NoValue)
        BY <1>3, <1>8
    <2>6. Stored(c)
        BY <1>1
    <2>7. UNCHANGED <<now, history, request, writes>>
        BY <1>1
    <2> HIDE DEF x, new
    <2>3. ASSUME FollowAt(x.site, checks, incidents, now, failures[x.site], x)
          PROVE  FollowAt(x.site, checks, incidents, now, failures[x.site], new)
        BY <1>1, <1>6, <1>8, <2>1, <2>3 DEF FollowAt, Finding, Closing
    <2>4. ASSUME Fits(x, checks, incidents, now) PROVE Fits(new, checks, incidents, now)
        BY <1>6, <1>8, <2>1, <2>4 DEF Fits
    <2> QED
        BY <1>4, <1>5, <2>3, <2>4, <2>5, <2>6, <2>7, GoesOn, Zenon DEF x, new
<1> QED
    BY <1>7, <1>8

LEMMA FindsNoneKeeps ==
    ASSUME Ordered, NEW c \in Checkers, FindsNone(c)
    PROVE  Ordered'
<1> DEFINE x == check[c]
           pc == IF Succeeded(x.outcome) THEN "update" ELSE "open"
           new == At(pc, x.site, x.failed, x.outcome, NoValue)
<1>1. /\ x.pc = "find" /\ Stored(c) /\ UNCHANGED <<now, history, request, writes>>
      /\ Goes(c, pc, NoValue) /\ ActiveOf(x.site) = {}
    BY DEF FindsNone, Stored
<1>2. InHand(pc) /\ pc # "resolve" /\ NoValue \in Int
    BY DEF InHand, NoValue
<1>3. ActiveIn(incidents, x.site) = {}
    BY <1>1, Zenon DEF ActiveOf, ActiveIn
<1>4. \A i \in incidents : i.site = x.site => OverBy(i, now)
    <2>1. \A i \in incidents : /\ i \in Incs /\ i.start <= now
                               /\ i.status = "RESOLVED" => i.start <= i.end /\ i.end <= now
        BY Known, Zenon
    <2> QED
        BY <1>3, <2>1 DEF Incs, ActiveIn, OverBy
<1>5. /\ new.pc = pc /\ new.site = x.site /\ new.failed = x.failed /\ new.outcome = x.outcome
    BY DEF At
<1>6. (Succeeded(x.outcome) => pc = "update") /\ (~Succeeded(x.outcome) => pc = "open")
    OBVIOUS
<1>7. Stored(c)
    BY <1>1
<1>8. UNCHANGED <<now, history, request, writes>> /\ Goes(c, pc, NoValue) /\ x.pc = "find"
    BY <1>1
<1> HIDE DEF x, new, pc
<1>9. ASSUME FollowAt(x.site, checks, incidents, now, failures[x.site], x), Fits(x, checks, incidents, now)
      PROVE  FollowAt(x.site, checks, incidents, now, failures[x.site], new)
    <2>1. ASSUME NEW i \in incidents, i.site = x.site, NEW k \in checks, Covers(i, k) PROVE FALSE
        <3>1. k.at = now
            BY <1>9, <2>1 DEF FollowAt
        <3> QED
            BY <1>4, <2>1, <3>1, Zenon DEF Covers
    <2>2. failures[x.site] >= Threshold => Closing(x)
        BY <1>3, <1>9 DEF FollowAt
    <2>3. ~Closing(x)
        BY <1>8 DEF Closing
    <2> QED
        BY <1>9, <2>1, <2>2, <2>3 DEF FollowAt
<1>10. ASSUME Fits(x, checks, incidents, now) PROVE Fits(new, checks, incidents, now)
    BY <1>3, <1>5, <1>6, <1>8, <1>10 DEF Fits
<1> QED
    BY <1>2, <1>7, <1>8, <1>9, <1>10, GoesOn, Zenon DEF x, new

\* The rest of HistoryTyped, when a check writes.
LEMMA WrittenTyped ==
    ASSUME HistoryTyped, Writing, now' = now, existing' = existing,
           failures' \in [Sites -> Nat],
           checks' \subseteq [site : Sites, at : 0 .. now, outcome : Outcomes],
           IsFiniteSet(incidents'),
           incidents' \subseteq [site : Sites, status : {"ACTIVE", "RESOLVED"}, start : Nat, end : Int]
    PROVE  HistoryTyped'
<1>1. writes \in Nat /\ request' = request /\ writes' = IF request = Idle THEN 0 ELSE writes + 1
    BY Zenon DEF HistoryTyped, Writing
<1>2. writes' \in Nat
    BY <1>1
<1> QED
    BY <1>1, <1>2, Zenon DEF HistoryTyped

LEMMA RecordKeeps ==
    ASSUME Ordered, NEW c \in Checkers, NEW o \in Outcomes, Record(c, o)
    PROVE  Ordered'
<1> DEFINE x   == check[c]
           s   == x.site
           n   == IF Succeeded(o) THEN 0 ELSE x.failed + 1
           pc  == IF ~Succeeded(o) /\ BelowThreshold(n) THEN "update" ELSE "find"
           new == At(pc, s, n, o, x.found)
           nc  == [site |-> s, at |-> now, outcome |-> o]
<1>0. HistoryTyped /\ EngineTyped /\ KnownBy(now) /\ IncidentsApart /\ FoundIsLast /\ InOrder
    BY DEF Ordered
<1>1. /\ x.pc = "probe" /\ \A d \in checks : d.site # s \/ d.at # now
      /\ Writing /\ checks' = checks \union {nc}
      /\ UNCHANGED <<now, existing, status, failures, incidents, begun, overtaken, cut>>
    BY DEF Record
<1>2. x \in UnderWay
    BY <1>0, <1>1, BusyIs, Zenon
<1>3. s \in Sites /\ x.failed \in Nat /\ x.found \in Int
    BY <1>2 DEF UnderWay
<1>4. n \in Nat /\ (Succeeded(o) => n = 0 /\ pc = "find") /\ pc \in {"find", "update"}
      /\ (pc = "update" => ~Succeeded(o) /\ n < Threshold) /\ (~Succeeded(o) /\ n < Threshold => pc = "update")
    BY <1>3 DEF BelowThreshold
<1>5. check' = [check EXCEPT ![c] = [x EXCEPT !.outcome = o, !.failed = n, !.pc = pc]]
    BY DEF Record
<1> HIDE DEF n, pc
<1>6. [x EXCEPT !.outcome = o, !.failed = n, !.pc = pc] = new
    <2> DEFINE y == [x EXCEPT !.outcome = o]
               z == [y EXCEPT !.failed = n]
    <2>1. x = [pc |-> x.pc, site |-> x.site, failed |-> x.failed, outcome |-> x.outcome, found |-> x.found]
        BY <1>2 DEF UnderWay
    <2>2. [x EXCEPT !.outcome = o, !.failed = n, !.pc = pc] = [z EXCEPT !.pc = pc]
        OBVIOUS
    <2> HIDE DEF x
    <2>3. y = [pc |-> x.pc, site |-> x.site, failed |-> x.failed, outcome |-> o, found |-> x.found]
        BY <2>1
    <2> HIDE DEF y
    <2>4. z = [pc |-> x.pc, site |-> x.site, failed |-> n, outcome |-> o, found |-> x.found]
        BY <2>3
    <2> HIDE DEF z
    <2>5. [z EXCEPT !.pc = pc] = [pc |-> pc, site |-> x.site, failed |-> n, outcome |-> o, found |-> x.found]
        BY <2>4
    <2> QED
        BY <2>2, <2>5 DEF At
<1>7. new \in UnderWay /\ new.pc = pc /\ new.site = s /\ new.failed = n /\ new.outcome = o
    BY <1>3, <1>4 DEF UnderWay, At
<1>8. nc.site = s /\ nc.at = now /\ nc.outcome = o
    OBVIOUS
<1>9. check[c].pc = "probe" /\ check[c].site = s
    BY <1>1
<1> HIDE DEF x, s, new, nc
<1>10. EngineTyped' /\ check'[c] = new /\ \A d \in Checkers : d # c => check'[d] = check[d]
    <2>1. check' = [check EXCEPT ![c] = new]
        BY <1>5, <1>6
    <2> QED
        BY <1>0, <1>7, <2>1, EngineMoves, Zenon
<1>11. HistoryTyped'
    <2>1. nc \in [site : Sites, at : 0 .. now, outcome : Outcomes]
        BY <1>0, <1>3 DEF nc, HistoryTyped
    <2>2. checks' \subseteq [site : Sites, at : 0 .. now, outcome : Outcomes]
        BY <1>0, <1>1, <2>1 DEF HistoryTyped
    <2> QED
        BY <1>0, <1>1, <2>2, WrittenTyped, Zenon DEF HistoryTyped
<1>12. KnownBy(now)' /\ IncidentsApart'
    BY <1>0, <1>1, Zenon DEF KnownBy, IncidentsApart, OverBy
<1>13. "resolve" \notin {"find", "update"}
    OBVIOUS
<1>14. FoundIsLast'
    BY <1>1, <1>4, <1>7, <1>10, <1>13, FoundMoves, Zenon
<1>15. Undisturbed' = Undisturbed
    BY <1>1, Zenon DEF Undisturbed
<1>16. ASSUME s \in Undisturbed
       PROVE  /\ \A d \in Checkers : d # c => ~(Stored(d) /\ check[d].site = s)
              /\ Fits(new, checks', incidents, now)
              /\ FollowAt(s, checks', incidents, now, failures[s], new)
    <2>1. \A d \in Checkers : ~(Stored(d) /\ check[d].site = s)
        <3> SUFFICES ASSUME NEW d \in Checkers, Stored(d), check[d].site = s PROVE FALSE
            BY Zenon
        <3> DEFINE e == [site |-> s, at |-> now, outcome |-> check[d].outcome]
        <3>1. {k \in checks : k.site = s /\ k.at = now} = {e}
            BY <1>0, <1>16, Zenon DEF InOrder, CheckInHand
        <3> HIDE DEF e
        <3>2. e \in checks /\ e.site = s /\ e.at = now
            BY <3>1
        <3> QED
            BY <1>1, <3>2, Zenon
    <2>2. FollowAt(s, checks, incidents, now, failures[s], check[c])
        BY <1>9, <1>16, <2>1, HandIs, Zenon
    <2>3. ~Finding(check[c]) /\ ~Closing(check[c])
        BY <1>9 DEF Finding, Closing
    <2>4. \A i \in incidents : i.site = s =>
             /\ StartsIn(i, checks) /\ EndsIn(i, checks) /\ \A k \in checks : ~Covers(i, k)
        BY <2>2, <2>3, Zenon DEF FollowAt
    <2>5. failures[s] >= Threshold => ActiveIn(incidents, s) # {}
        BY <2>2, <2>3, Zenon DEF FollowAt
    <2>6. Fits(new, checks', incidents, now)
        <3>1. {k \in checks' : k.site = s /\ k.at = now} = {nc}
            BY <1>1, <1>8
        <3> QED
            BY <1>4, <1>7, <3>1 DEF Fits, nc
    <2>7. Succeeded(o) => Finding(new)
        BY <1>4, <1>7 DEF Finding
    <2>8. ASSUME NEW i \in incidents, i.site = s
          PROVE  /\ StartsIn(i, checks') /\ EndsIn(i, checks')
                 /\ \A k \in checks' : Covers(i, k) => k.at = now /\ Finding(new)
        <3>1. StartsIn(i, checks') /\ EndsIn(i, checks')
            BY <1>1, <2>4, <2>8, Zenon DEF StartsIn, EndsIn
        <3>2. ASSUME NEW k \in checks', Covers(i, k) PROVE k.at = now /\ Finding(new)
            <4>1. k = nc
                BY <1>1, <2>4, <2>8, <3>2, Zenon
            <4> QED
                BY <1>8, <2>7, <3>2, <4>1 DEF Covers
        <3> QED
            BY <3>1, <3>2
    <2>9. FollowAt(s, checks', incidents, now, failures[s], new)
        BY <2>5, <2>8, Zenon DEF FollowAt
    <2> QED
        BY <2>1, <2>6, <2>9
<1>17. /\ \A k : k.site # s => (k \in checks <=> k \in checks')
       /\ now' = now /\ incidents' = incidents /\ failures' = failures
    BY <1>1, <1>8, Zenon
<1>18. ~InHand(check[c].pc)
    BY <1>9 DEF InHand
<1>19. InOrder'
    BY <1>3, <1>7, <1>10, <1>15, <1>16, <1>17, <1>18, HandMoves, Zenon
<1> QED
    BY <1>10, <1>11, <1>12, <1>14, <1>19, Zenon DEF Ordered

LEMMA UpdateKeeps ==
    ASSUME Ordered, NEW c \in Checkers, Update(c)
    PROVE  Ordered'
<1> DEFINE x == check[c]
           s == x.site
<1>0. HistoryTyped /\ EngineTyped /\ KnownBy(now) /\ IncidentsApart /\ FoundIsLast /\ InOrder
    BY DEF Ordered
<1>1. /\ x.pc = "update" /\ Stored(c) /\ Writing /\ check' = [check EXCEPT ![c] = NoCheck]
      /\ UNCHANGED <<now, existing, checks, incidents, overtaken, cut>>
    BY DEF Update, Stored
<1>2. IF s \in existing THEN failures' = [failures EXCEPT ![s] = x.failed] ELSE failures' = failures
    BY DEF Update
<1>3. x \in UnderWay
    BY <1>0, <1>1, BusyIs, Zenon
<1>4. s \in Sites /\ x.failed \in Nat
    BY <1>3 DEF UnderWay
<1>5. check[c] = x /\ check[c].site = s /\ Stored(c)
    BY <1>1
<1>6. x.pc = "update" /\ s = x.site
    BY <1>1
<1> HIDE DEF x, s
<1>7. NoCheck.pc = "idle" /\ ~InHand(NoCheck.pc)
    BY DEF NoCheck, InHand
<1>8. EngineTyped' /\ check'[c] = NoCheck /\ \A d \in Checkers : d # c => check'[d] = check[d]
    <2>1. NoCheck \in {NoCheck} \union UnderWay
        OBVIOUS
    <2> QED
        BY <1>0, <1>1, <1>7, <2>1, EngineMoves, Zenon
<1>9. failures \in [Sites -> Nat]
    BY <1>0 DEF HistoryTyped
<1>10. /\ failures' \in [Sites -> Nat] /\ \A r \in Sites : r # s => failures'[r] = failures[r]
       /\ s \in existing => failures'[s] = x.failed
    BY <1>2, <1>4, <1>9
<1>11. HistoryTyped'
    BY <1>0, <1>1, <1>10, WrittenTyped, Zenon DEF HistoryTyped
<1>12. KnownBy(now)' /\ IncidentsApart'
    BY <1>0, <1>1, Zenon DEF KnownBy, IncidentsApart, OverBy
<1>13. "idle" # "resolve"
    OBVIOUS
<1>14. FoundIsLast'
    BY <1>1, <1>7, <1>8, <1>13, FoundMoves, Zenon
<1>15. Undisturbed' = Undisturbed
    BY <1>1, Zenon DEF Undisturbed
<1>16. ASSUME s \in Undisturbed
       PROVE  /\ \A d \in Checkers : d # c => ~(Stored(d) /\ check[d].site = s)
              /\ FollowAt(s, checks, incidents, now, failures'[s], NoCheck)
    <2>1. \A d \in Checkers : d # c => ~(Stored(d) /\ check[d].site = s)
        BY <1>5, <1>16, OnlyHand, Zenon
    <2>2. FollowAt(s, checks, incidents, now, failures[s], x) /\ Fits(x, checks, incidents, now)
        BY <1>5, <1>16, <2>1, HandIs, Zenon
    <2>3. ~Finding(x)
        BY <1>6 DEF Finding
    <2>4. \A i \in incidents : i.site = s =>
             /\ StartsIn(i, checks) /\ EndsIn(i, checks) /\ \A k \in checks : ~Covers(i, k)
        BY <2>2, <2>3, Zenon DEF FollowAt
    <2>5. IF Succeeded(x.outcome) THEN x.failed = 0
                                  ELSE x.failed < Threshold \/ ActiveIn(incidents, s) # {}
        BY <1>6, <2>2, Zenon DEF Fits
    <2>6. failures'[s] = x.failed
        BY <1>10, <1>16 DEF Undisturbed
    <2>7. failures'[s] >= Threshold => ActiveIn(incidents, s) # {}
        BY <1>4, <2>5, <2>6, Bounds
    <2> QED
        BY <2>1, <2>4, <2>7, Zenon DEF FollowAt
<1>17. now' = now /\ incidents' = incidents /\ checks' = checks
    BY <1>1
<1>19. InOrder'
    BY <1>4, <1>5, <1>7, <1>8, <1>10, <1>15, <1>16, <1>17, HandMoves, Zenon
<1> QED
    BY <1>8, <1>11, <1>12, <1>14, <1>19, Zenon DEF Ordered

Closed(s, i, t) == [site |-> s, status |-> "RESOLVED", start |-> i.start, end |-> t]
Opened(s, t)    == [site |-> s, status |-> "ACTIVE", start |-> t, end |-> NoValue]

\* One incident is saved resolved.
LEMMA ResolveMakes ==
    ASSUME Ordered, NEW c \in Checkers, Resolve(c)
    PROVE  \E m \in incidents :
              /\ m.site = check[c].site /\ m.start = check[c].found
              /\ incidents' = (incidents \ {m}) \union {Closed(check[c].site, m, now)}
<1> DEFINE s == check[c].site
           mine == {i \in incidents : i.site = s /\ i.start = check[c].found}
<1>1. /\ mine # {}
      /\ incidents' = (incidents \ mine)
                            \union {[i EXCEPT !.status = "RESOLVED", !.end = now] : i \in mine}
    BY DEF Resolve
<1>2. PICK m \in incidents : m.site = s /\ m.start = check[c].found
    BY <1>1
<1>3. mine = {m}
    <2>1. \A i, j \in incidents : i.site = j.site /\ i.start = j.start => i = j
        BY Zenon DEF Ordered, IncidentsApart
    <2> QED
        BY <1>2, <2>1
<1>4. [m EXCEPT !.status = "RESOLVED", !.end = now] = Closed(s, m, now)
    <2>1. m \in Incs
        BY Known, Zenon
    <2>2. m = [site |-> s, status |-> m.status, start |-> m.start, end |-> m.end]
        BY <1>2, <2>1 DEF Incs
    <2> DEFINE y == [m EXCEPT !.status = "RESOLVED"]
    <2>3. y = [site |-> s, status |-> "RESOLVED", start |-> m.start, end |-> m.end]
        BY <2>2
    <2>4. [m EXCEPT !.status = "RESOLVED", !.end = now] = [y EXCEPT !.end = now]
        OBVIOUS
    <2> HIDE DEF y
    <2>5. [y EXCEPT !.end = now] = [site |-> s, status |-> "RESOLVED", start |-> m.start, end |-> now]
        BY <2>3
    <2> QED
        BY <2>4, <2>5 DEF Closed
<1> DEFINE Over(i) == [i EXCEPT !.status = "RESOLVED", !.end = now]
<1>5. incidents' = (incidents \ mine) \union {Over(i) : i \in mine} /\ Over(m) = Closed(s, m, now)
    BY <1>1, <1>4, Zenon
<1> HIDE DEF mine, Over, s
<1>6. {Over(i) : i \in mine} = {Over(m)}
    BY <1>3
<1>7. incidents' = (incidents \ {m}) \union {Closed(s, m, now)}
    BY <1>3, <1>5, <1>6
<1> QED
    BY <1>2, <1>7 DEF s

\* What the incidents of the site are, once one of them is resolved.
LEMMA ResolveParts ==
    ASSUME Ordered, NEW c \in Checkers, Resolve(c)
    PROVE  HistoryTyped' /\ KnownBy(now)' /\ IncidentsApart'
<1> DEFINE s == check[c].site
<1>1. HistoryTyped /\ EngineTyped /\ KnownBy(now) /\ IncidentsApart /\ FoundIsLast /\ now \in Nat
    BY DEF Ordered, HistoryTyped
<1>2. /\ check[c].pc = "resolve" /\ Stored(c) /\ Writing
      /\ UNCHANGED <<now, existing, failures, checks, overtaken>>
    BY DEF Resolve, Stored, Goes
<1>3. PICK m \in incidents : /\ m.site = s /\ m.start = check[c].found
                             /\ incidents' = (incidents \ {m}) \union {Closed(s, m, now)}
    BY ResolveMakes
<1>4. s \in Sites
    BY <1>1, <1>2, BusyIs, Zenon
<1> HIDE DEF s
<1>5. \A i \in incidents : /\ i.site \in Sites /\ i.start \in Nat /\ i.end \in Int /\ i.start <= now
                           /\ i.status = "RESOLVED" => i.start <= i.end /\ i.end <= now
    <2>1. \A i \in incidents : i \in Incs /\ i.start <= now
                               /\ (i.status = "RESOLVED" => i.start <= i.end /\ i.end <= now)
        BY Known, Zenon
    <2> QED
        BY <2>1 DEF Incs
<1> DEFINE w == Closed(s, m, now)
<1>6. w.site = s /\ w.status = "RESOLVED" /\ w.start = m.start /\ w.end = now
    BY DEF Closed
<1>7. HistoryTyped'
    <2>1. IsFiniteSet(incidents')
        <3>1. IsFiniteSet(incidents \ {m}) /\ IsFiniteSet({w})
            BY <1>1, FS_Subset, FS_Singleton, Zenon DEF HistoryTyped
        <3> QED
            BY <1>3, <3>1, FS_Union, Zenon
    <2>2. w \in [site : Sites, status : {"ACTIVE", "RESOLVED"}, start : Nat, end : Int]
        BY <1>1, <1>4, <1>5 DEF Closed
    <2>3. incidents' \subseteq [site : Sites, status : {"ACTIVE", "RESOLVED"}, start : Nat, end : Int]
        <3> HIDE DEF w
        <3>1. incidents \subseteq [site : Sites, status : {"ACTIVE", "RESOLVED"}, start : Nat, end : Int]
            BY <1>1 DEF HistoryTyped
        <3> QED
            BY <1>3, <2>2, <3>1, Zenon DEF w
    <2> QED
        BY <1>1, <1>2, <2>1, <2>3, WrittenTyped, Zenon DEF HistoryTyped
<1>8. incidents' = (incidents \ {m}) \union {w}
    BY <1>3
<1>17. now' = now /\ overtaken' = overtaken
    BY <1>2
<1> HIDE DEF w
<1>9. KnownBy(now)'
    <2>1. ASSUME NEW i \in incidents' PROVE i.start <= now /\ (i.status = "RESOLVED" => i.start <= i.end /\ i.end <= now)
        <3>1. CASE i \in incidents
            BY <1>5, <3>1
        <3>2. CASE i = w
            BY <1>1, <1>5, <1>6, <3>2
        <3> QED
            BY <1>8, <3>1, <3>2
    <2> QED
        BY <1>17, <2>1, Zenon DEF KnownBy
<1>10. \A i, j \in incidents : i.site = j.site =>
          /\ i.start = j.start => i = j
          /\ i = j \/ OverBy(i, j.start) \/ OverBy(j, i.start) \/ i.site \in overtaken
    BY <1>1, Zenon DEF IncidentsApart
<1>11. ASSUME NEW j \in incidents, j # m, j.site = s
       PROVE  /\ j.start # m.start
              /\ OverBy(w, j.start) \/ OverBy(j, w.start) \/ s \in overtaken
    <2>1. j.start # m.start
        BY <1>3, <1>10, <1>11, Zenon
    <2>2. OverBy(w, now)
        BY <1>1, <1>6 DEF OverBy
    <2>3. s \in overtaken \/ LastFound(check[c], incidents, now)
        BY <1>1, <1>2, FoundIs, Zenon DEF s
    <2>4. CASE LastFound(check[c], incidents, now)
        <3>1. j.start = now \/ OverBy(j, m.start)
            BY <1>3, <1>11, <2>1, <2>4, Zenon DEF LastFound, s
        <3> QED
            BY <1>6, <2>1, <2>2, <3>1, Zenon
    <2> QED
        BY <2>1, <2>3, <2>4
<1>12. ASSUME NEW i \in incidents', NEW j \in incidents', i.site = j.site
       PROVE  /\ i.start = j.start => i = j
              /\ i = j \/ OverBy(i, j.start) \/ OverBy(j, i.start) \/ i.site \in overtaken
    <2>1. ((i \in incidents /\ i # m) \/ i = w) /\ ((j \in incidents /\ j # m) \/ j = w)
        BY <1>8
    <2>2. CASE i = w /\ j = w
        BY <2>2
    <2>3. CASE i = w /\ j \in incidents /\ j # m
        BY <1>6, <1>11, <1>12, <2>3, Zenon
    <2>4. CASE j = w /\ i \in incidents /\ i # m
        BY <1>6, <1>11, <1>12, <2>4, Zenon
    <2>5. CASE i \in incidents /\ j \in incidents
        BY <1>10, <1>12, <2>5, Zenon
    <2> QED
        BY <2>1, <2>2, <2>3, <2>4, <2>5
<1>13. IncidentsApart'
    BY <1>12, <1>17, Zenon DEF IncidentsApart, OverBy
<1> QED
    BY <1>7, <1>9, <1>13

LEMMA ResolveFound ==
    ASSUME Ordered, NEW c \in Checkers, Resolve(c), NEW d \in Checkers,
           check[d].pc = "resolve", check[d].site \notin overtaken, LastFound(check[d], incidents, now)
    PROVE  LastFound(check[d], incidents', now)
<1> DEFINE s == check[c].site
           y == check[d]
<1>1. PICK m \in incidents : /\ m.site = s /\ m.start = check[c].found
                             /\ incidents' = (incidents \ {m}) \union {Closed(s, m, now)}
    BY ResolveMakes
<1>2. check[c].pc = "resolve"
    BY DEF Resolve
<1> DEFINE w == Closed(s, m, now)
<1>3. w.site = s /\ w.status = "RESOLVED" /\ w.start = m.start /\ w.end = now
    BY DEF Closed
<1>4. incidents' = (incidents \ {m}) \union {w}
    BY <1>1
<1>5. \A i \in incidents : /\ i.start \in Nat /\ i.end \in Int /\ i.start <= now
                           /\ i.status = "RESOLVED" => i.start <= i.end /\ i.end <= now
    <2>1. \A i \in incidents : i \in Incs /\ i.start <= now
                               /\ (i.status = "RESOLVED" => i.start <= i.end /\ i.end <= now)
        BY Known, Zenon
    <2> QED
        BY <2>1 DEF Incs
<1>6. y.site \notin overtaken /\ LastFound(y, incidents, now)
    OBVIOUS
<1>7. s \notin overtaken => LastFound(check[c], incidents, now)
    BY <1>2, FoundIs, Zenon DEF Ordered
<1>14. y = check[d]
    OBVIOUS
<1>15. now \in Nat
    BY DEF Ordered, HistoryTyped
<1> HIDE DEF s, w, y
<1>8. OverBy(w, now)
    BY <1>3, <1>15 DEF OverBy
<1>9. CASE \A i \in incidents : i.site = y.site => i.start = now
    <2>1. \A i \in incidents' : i.site = y.site => i.start = now
        BY <1>1, <1>3, <1>4, <1>9, Zenon
    <2> QED
        BY <1>14, <2>1, Zenon DEF LastFound
<1>10. CASE /\ \E i \in incidents : i.site = y.site /\ i.start = y.found
            /\ \A i \in incidents : i.site = y.site => i.start = y.found \/ OverBy(i, y.found) \/ i.start = now
    <2>1. PICK k \in incidents : k.site = y.site /\ k.start = y.found
        BY <1>10, Zenon
    <2>2. \E i \in incidents' : i.site = y.site /\ i.start = y.found
        <3>1. CASE k = m
            BY <1>1, <1>3, <1>4, <2>1, <3>1, Zenon
        <3>2. CASE k # m
            BY <1>4, <2>1, <3>2, Zenon
        <3> QED
            BY <3>1, <3>2
    <2>3. ASSUME s = y.site PROVE w.start = y.found \/ OverBy(w, y.found) \/ w.start = now
        <3>1. \/ \A i \in incidents : i.site = s => i.start = now
              \/ \A i \in incidents : i.site = s => i.start = m.start \/ OverBy(i, m.start) \/ i.start = now
            BY <1>1, <1>6, <1>7, <2>3, Zenon DEF LastFound, s
        <3>2. k.start = m.start \/ OverBy(k, m.start) \/ k.start = now \/ m.start = now
            BY <1>1, <2>1, <2>3, <3>1, Zenon
        <3>3. m.start = y.found \/ OverBy(m, y.found) \/ m.start = now
            BY <1>1, <1>10, <2>3, Zenon
        <3>4. CASE k.start = now
            BY <1>8, <2>1, <3>4, Zenon
        <3>5. CASE OverBy(k, m.start)
            <4>1. k.start \in Nat /\ k.end \in Int /\ m.start \in Nat /\ m.end \in Int
                BY <1>5
            <4>2. k.start <= k.end /\ k.end <= m.start /\ (m.status = "RESOLVED" => m.start <= m.end)
                BY <1>5, <3>5, Zenon DEF OverBy
            <4>3. OverBy(m, y.found) => m.status = "RESOLVED" /\ m.end <= k.start
                BY <2>1, Zenon DEF OverBy
            <4>4. OverBy(m, y.found) => m.start = k.start
                BY <4>1, <4>2, <4>3
            <4> QED
                BY <1>3, <2>1, <3>3, <4>4, Zenon
        <3> QED
            BY <1>3, <2>1, <3>2, <3>4, <3>5, Zenon
    <2>4. \A i \in incidents' : i.site = y.site => i.start = y.found \/ OverBy(i, y.found) \/ i.start = now
        BY <1>3, <1>4, <1>10, <2>3, Zenon
    <2> QED
        BY <1>14, <2>2, <2>4, Zenon DEF LastFound
<1> QED
    BY <1>6, <1>9, <1>10, Zenon DEF LastFound

LEMMA ResolveKeeps ==
    ASSUME Ordered, NEW c \in Checkers, Resolve(c)
    PROVE  Ordered'
<1> DEFINE x == check[c]
           s == x.site
           new == At("update", s, x.failed, x.outcome, NoValue)
<1>0. EngineTyped /\ IncidentsApart /\ now \in Nat
    BY DEF Ordered, HistoryTyped
<1>1. /\ x.pc = "resolve" /\ Stored(c) /\ Goes(c, "update", NoValue)
      /\ UNCHANGED <<now, existing, failures, checks, overtaken, cut>>
    BY DEF Resolve, Stored, Goes
<1>2. HistoryTyped' /\ KnownBy(now)' /\ IncidentsApart'
    BY ResolveParts
<1>3. PICK m \in incidents : /\ m.site = s /\ m.start = x.found
                             /\ incidents' = (incidents \ {m}) \union {Closed(s, m, now)}
    BY ResolveMakes
<1> DEFINE w == Closed(s, m, now)
<1>4. w.site = s /\ w.status = "RESOLVED" /\ w.start = m.start /\ w.end = now
    BY DEF Closed
<1>5. incidents' = (incidents \ {m}) \union {w}
    BY <1>3
<1>6. check' = [check EXCEPT ![c] = new] /\ new \in UnderWay /\ x.outcome \in Outcomes /\ s \in Sites
    <2>1. InHand("update") /\ NoValue \in Int
        BY DEF InHand, NoValue
    <2> QED
        BY <1>0, <1>1, <2>1, GoesIs, BusyIs, Zenon
<1>7. new.pc = "update" /\ new.site = s /\ new.failed = x.failed /\ new.outcome = x.outcome
    BY DEF At
<1>8. EngineTyped' /\ check'[c] = new /\ \A d \in Checkers : d # c => check'[d] = check[d]
    <2>1. new.outcome \in Outcomes
        BY <1>6, <1>7
    <2> HIDE DEF new
    <2> QED
        BY <1>0, <1>6, <2>1, EngineMoves, Zenon
<1>9. check[c] = x /\ check[c].site = s /\ x.site = s
    OBVIOUS
<1> HIDE DEF x, s, new, w
<1>10. FoundIsLast'
    <2>1. now' = now /\ overtaken' = overtaken /\ "update" # "resolve"
        BY <1>1
    <2> QED
        BY <1>7, <1>8, <2>1, ResolveFound, FoundMoves, Zenon
<1>11. Undisturbed' = Undisturbed
    BY <1>1, Zenon DEF Undisturbed
<1>12. ASSUME s \in Undisturbed
       PROVE  /\ \A d \in Checkers : d # c => ~(Stored(d) /\ check[d].site = s)
              /\ Fits(new, checks, incidents', now)
              /\ FollowAt(s, checks, incidents', now, failures[s], new)
    <2>1. \A d \in Checkers : d # c => ~(Stored(d) /\ check[d].site = s)
        BY <1>1, <1>9, <1>12, OnlyHand, Zenon
    <2>2. FollowAt(s, checks, incidents, now, failures[s], x) /\ Fits(x, checks, incidents, now)
        BY <1>1, <1>9, <1>12, <2>1, HandIs, Zenon
    <2>3. /\ Succeeded(x.outcome) /\ x.failed = 0 /\ \E i \in ActiveIn(incidents, s) : i.start = x.found
          /\ {k \in checks : k.site = s /\ k.at = now} = {[site |-> s, at |-> now, outcome |-> x.outcome]}
        BY <1>1, <1>9, <2>2, Zenon DEF Fits
    <2>4. m.status = "ACTIVE"
        <3>1. PICK i \in incidents : i.site = s /\ i.status = "ACTIVE" /\ i.start = x.found
            BY <2>3, Zenon DEF ActiveIn
        <3>2. i = m
            BY <1>0, <1>3, <3>1, Zenon DEF IncidentsApart
        <3> QED
            BY <3>1, <3>2
    <2>5. ASSUME NEW j \in incidents, j.site = s, j # m PROVE OverBy(j, now) /\ j.status # "ACTIVE"
        <3>1. s \notin overtaken
            BY <1>12 DEF Undisturbed
        <3>2. OverBy(m, j.start) \/ OverBy(j, m.start)
            BY <1>0, <1>3, <2>5, <3>1, Zenon DEF IncidentsApart
        <3>3. OverBy(j, m.start)
            BY <2>4, <3>2 DEF OverBy
        <3>4. j \in Incs /\ (j.status = "RESOLVED" => j.end <= now)
            BY Known, Zenon
        <3> QED
            BY <3>3, <3>4 DEF OverBy
    <2>6. ActiveIn(incidents', s) = {}
        <3> SUFFICES ASSUME NEW i \in incidents', i.site = s, i.status = "ACTIVE" PROVE FALSE
            BY Zenon DEF ActiveIn
        <3>1. i \in incidents /\ i # m
            BY <1>4, <1>5
        <3> QED
            BY <2>5, <3>1, Zenon
    <2>7. Fits(new, checks, incidents', now)
        BY <1>7, <2>3, <2>6 DEF Fits
    <2>8. \A k \in checks : k.at \in 0 .. now
        BY DEF Ordered, HistoryTyped
    <2>9. ASSUME NEW i \in incidents', i.site = s
          PROVE  /\ StartsIn(i, checks) /\ EndsIn(i, checks)
                 /\ \A k \in checks : ~Covers(i, k)
        <3>1. CASE i = w
            <4>1. StartsIn(m, checks) /\ \A k \in checks : Covers(m, k) => k.at = now
                BY <1>3, <2>2, Zenon DEF FollowAt
            <4>2. StartsIn(i, checks)
                BY <1>3, <1>4, <3>1, <4>1, Zenon DEF StartsIn
            <4>3. EndsIn(i, checks)
                <5> DEFINE e == [site |-> s, at |-> now, outcome |-> x.outcome]
                <5>1. {k \in checks : k.site = s /\ k.at = now} = {e} /\ e.outcome = x.outcome
                    BY <2>3
                <5> HIDE DEF e
                <5>2. e \in checks /\ e.site = s /\ e.at = now
                    BY <5>1
                <5> QED
                    BY <1>4, <2>3, <3>1, <5>1, <5>2, Zenon DEF EndsIn
            <4>4. ASSUME NEW k \in checks, Covers(i, k) PROVE FALSE
                <5>1. Covers(m, k)
                    BY <1>3, <1>4, <2>4, <3>1, <4>4 DEF Covers, OverBy
                <5>2. k.at = now
                    BY <4>1, <5>1
                <5> QED
                    BY <1>0, <1>4, <3>1, <4>4, <5>2 DEF Covers, OverBy
            <4> QED
                BY <4>2, <4>3, <4>4
        <3>2. CASE i \in incidents /\ i # m
            <4>1. StartsIn(i, checks) /\ EndsIn(i, checks) /\ \A k \in checks : Covers(i, k) => k.at = now
                BY <2>2, <2>9, <3>2, Zenon DEF FollowAt
            <4>2. OverBy(i, now)
                BY <2>5, <2>9, <3>2
            <4>3. ASSUME NEW k \in checks, Covers(i, k) PROVE FALSE
                BY <4>1, <4>2, <4>3, Zenon DEF Covers
            <4> QED
                BY <4>1, <4>3
        <3> QED
            BY <1>5, <3>1, <3>2
    <2>10. Closing(new)
        BY <1>7, <2>3 DEF Closing
    <2>11. FollowAt(s, checks, incidents', now, failures[s], new)
        BY <2>9, <2>10, Zenon DEF FollowAt
    <2> QED
        BY <2>1, <2>7, <2>11
<1>13. /\ \A k : k.site # s => (k \in incidents <=> k \in incidents')
       /\ now' = now /\ checks' = checks /\ failures' = failures
    BY <1>1, <1>3, <1>4, <1>5, Zenon
<1>14. InOrder'
    BY <1>6, <1>7, <1>8, <1>9, <1>11, <1>12, <1>13, HandMoves, Zenon
<1> QED
    BY <1>2, <1>8, <1>10, <1>14, Zenon DEF Ordered

LEMMA OpenKeeps ==
    ASSUME Ordered, NEW c \in Checkers, Open(c)
    PROVE  Ordered'
<1> DEFINE x == check[c]
           s == x.site
           new == At("update", s, x.failed, x.outcome, NoValue)
           w == Opened(s, now)
<1>0. HistoryTyped /\ EngineTyped /\ KnownBy(now) /\ IncidentsApart /\ FoundIsLast /\ now \in Nat
    BY DEF Ordered, HistoryTyped
<1>1. /\ x.pc = "open" /\ Stored(c) /\ Goes(c, "update", NoValue) /\ Writing
      /\ \A i \in incidents : i.site = s /\ i.start = now => i.status = "ACTIVE"
      /\ UNCHANGED <<now, existing, failures, checks, overtaken, cut>>
    BY DEF Open, Stored, Goes
<1>2. \/ ActiveOf(s) # {} /\ incidents' = incidents
      \/ ActiveOf(s) = {} /\ incidents' = incidents \union {w}
    BY DEF Open, Opened
<1>3. w.site = s /\ w.status = "ACTIVE" /\ w.start = now
    BY DEF Opened
<1>4. check' = [check EXCEPT ![c] = new] /\ new \in UnderWay /\ x.outcome \in Outcomes /\ s \in Sites
    <2>1. InHand("update") /\ NoValue \in Int
        BY DEF InHand, NoValue
    <2> QED
        BY <1>0, <1>1, <2>1, GoesIs, BusyIs, Zenon
<1>5. new.pc = "update" /\ new.site = s /\ new.failed = x.failed /\ new.outcome = x.outcome
    BY DEF At
<1>6. EngineTyped' /\ check'[c] = new /\ \A d \in Checkers : d # c => check'[d] = check[d]
    <2>1. new.outcome \in Outcomes
        BY <1>4, <1>5
    <2> HIDE DEF new
    <2> QED
        BY <1>0, <1>4, <2>1, EngineMoves, Zenon
<1>7. check[c] = x /\ check[c].site = s /\ x.site = s
    OBVIOUS
<1>8. w \in [site : Sites, status : {"ACTIVE", "RESOLVED"}, start : Nat, end : Int]
    BY <1>0, <1>4 DEF Opened, NoValue
<1> HIDE DEF x, s, new, w
<1>9. \A i \in incidents : i \in Incs /\ i.start <= now
                           /\ (i.status = "RESOLVED" => i.start <= i.end /\ i.end <= now)
    BY Known, Zenon
<1>10. HistoryTyped'
    <2>1. IsFiniteSet(incidents')
        <3>1. IsFiniteSet(incidents) /\ IsFiniteSet({w})
            BY <1>0, FS_Singleton, Zenon DEF HistoryTyped
        <3> QED
            BY <1>2, <3>1, FS_Union, Zenon
    <2>2. incidents' \subseteq [site : Sites, status : {"ACTIVE", "RESOLVED"}, start : Nat, end : Int]
        BY <1>0, <1>2, <1>8, Zenon DEF HistoryTyped
    <2> QED
        BY <1>0, <1>1, <2>1, <2>2, WrittenTyped, Zenon DEF HistoryTyped
<1>11. KnownBy(now)'
    <2>1. ASSUME NEW i \in incidents' PROVE i.start <= now /\ (i.status = "RESOLVED" => i.start <= i.end /\ i.end <= now)
        BY <1>0, <1>2, <1>3, <1>9
    <2> QED
        BY <1>1, <2>1, Zenon DEF KnownBy
<1>12. ASSUME ActiveOf(s) = {}, NEW j \in incidents, j.site = s
       PROVE  OverBy(j, now) /\ j.start # now
    <2>1. j.status # "ACTIVE"
        BY <1>12 DEF ActiveOf
    <2>2. OverBy(j, now)
        BY <1>9, <2>1 DEF Incs, OverBy
    <2> QED
        BY <1>1, <1>12, <2>1, <2>2, Zenon
<1>13. IncidentsApart'
    <2>1. \A i, j \in incidents : i.site = j.site =>
             /\ i.start = j.start => i = j
             /\ i = j \/ OverBy(i, j.start) \/ OverBy(j, i.start) \/ i.site \in overtaken
        BY <1>0, Zenon DEF IncidentsApart
    <2>2. ASSUME NEW i \in incidents', NEW j \in incidents', i.site = j.site
          PROVE  /\ i.start = j.start => i = j
                 /\ i = j \/ OverBy(i, j.start) \/ OverBy(j, i.start) \/ i.site \in overtaken
        <3>1. CASE i \in incidents /\ j \in incidents
            BY <2>1, <2>2, <3>1, Zenon
        <3>2. CASE i = w /\ j = w
            BY <3>2
        <3>3. CASE i = w /\ j \in incidents /\ ActiveOf(s) = {}
            BY <1>3, <1>12, <2>2, <3>3, Zenon
        <3>4. CASE j = w /\ i \in incidents /\ ActiveOf(s) = {}
            BY <1>3, <1>12, <2>2, <3>4, Zenon
        <3> QED
            BY <1>2, <3>1, <3>2, <3>3, <3>4
    <2>3. overtaken' = overtaken
        BY <1>1
    <2> QED
        BY <2>2, <2>3, Zenon DEF IncidentsApart, OverBy
<1>14. FoundIsLast'
    <2>1. now' = now /\ overtaken' = overtaken /\ "update" # "resolve"
        BY <1>1
    <2>2. ASSUME NEW y, LastFound(y, incidents, now) PROVE LastFound(y, incidents', now)
        BY <1>2, <1>3, <2>2, Zenon DEF LastFound
    <2> QED
        BY <1>5, <1>6, <2>1, <2>2, FoundMoves, Zenon
<1>15. Undisturbed' = Undisturbed
    BY <1>1, Zenon DEF Undisturbed
<1>16. ASSUME s \in Undisturbed
       PROVE  /\ \A d \in Checkers : d # c => ~(Stored(d) /\ check[d].site = s)
              /\ Fits(new, checks, incidents', now)
              /\ FollowAt(s, checks, incidents', now, failures[s], new)
    <2>1. \A d \in Checkers : d # c => ~(Stored(d) /\ check[d].site = s)
        BY <1>1, <1>7, <1>16, OnlyHand, Zenon
    <2>2. FollowAt(s, checks, incidents, now, failures[s], x) /\ Fits(x, checks, incidents, now)
        BY <1>1, <1>7, <1>16, <2>1, HandIs, Zenon
    <2>3. /\ ~Succeeded(x.outcome)
          /\ {k \in checks : k.site = s /\ k.at = now} = {[site |-> s, at |-> now, outcome |-> x.outcome]}
        BY <1>1, <1>7, <2>2, Zenon DEF Fits
    <2>4. ActiveIn(incidents', s) # {}
        BY <1>2, <1>3 DEF ActiveIn, ActiveOf
    <2>5. Fits(new, checks, incidents', now)
        BY <1>5, <2>3, <2>4 DEF Fits
    <2>6. \A k \in checks : k.at \in 0 .. now
        BY <1>0 DEF HistoryTyped
    <2>7. \A k \in checks : k.site = s /\ k.at = now => ~Succeeded(k.outcome)
        BY <2>3
    <2>8. ~Finding(x)
        BY <2>3 DEF Finding
    <2>9. ASSUME NEW i \in incidents', i.site = s
          PROVE  /\ StartsIn(i, checks) /\ EndsIn(i, checks)
                 /\ \A k \in checks : ~Covers(i, k)
        <3>1. CASE i \in incidents
            BY <2>2, <2>8, <2>9, <3>1, Zenon DEF FollowAt
        <3>2. CASE i = w
            <4> DEFINE e == [site |-> s, at |-> now, outcome |-> x.outcome]
            <4>1. {k \in checks : k.site = s /\ k.at = now} = {e} /\ e.outcome = x.outcome
                BY <2>3
            <4> HIDE DEF e
            <4>2. e \in checks /\ e.site = s /\ e.at = now
                BY <4>1
            <4>3. StartsIn(i, checks)
                BY <1>3, <2>3, <3>2, <4>1, <4>2, Zenon DEF StartsIn
            <4>4. EndsIn(i, checks)
                BY <1>3, <3>2 DEF EndsIn
            <4>5. ASSUME NEW k \in checks, Covers(i, k) PROVE FALSE
                <5>1. k.site = s /\ Succeeded(k.outcome) /\ ~(k.at < now)
                    BY <1>3, <3>2, <4>5, Zenon DEF Covers
                <5>2. k.at = now
                    BY <1>0, <2>6, <5>1
                <5> QED
                    BY <2>7, <5>1, <5>2
            <4> QED
                BY <4>3, <4>4, <4>5
        <3> QED
            BY <1>2, <3>1, <3>2
    <2>10. FollowAt(s, checks, incidents', now, failures[s], new)
        BY <2>4, <2>9, Zenon DEF FollowAt
    <2> QED
        BY <2>1, <2>5, <2>10
<1>17. /\ \A k : k.site # s => (k \in incidents <=> k \in incidents')
       /\ now' = now /\ checks' = checks /\ failures' = failures
    BY <1>1, <1>2, <1>3, Zenon
<1>18. InOrder'
    BY <1>4, <1>5, <1>6, <1>7, <1>15, <1>16, <1>17, HandMoves, Zenon
<1> QED
    BY <1>6, <1>10, <1>11, <1>13, <1>14, <1>18, Zenon DEF Ordered

-----------------------------------------------------------------------------
(* The steps of the history that are no check's.                           *)

\* The steps that take something away.
LEMMA DeleteKeeps ==
    ASSUME Ordered, NEW s \in Sites, DeleteSite(s) \/ DeleteChecks(s) \/ DeleteIncidents(s)
    PROVE  Ordered'
<1>1. HistoryTyped /\ EngineTyped /\ KnownBy(now) /\ IncidentsApart /\ FoundIsLast
    BY DEF Ordered
<1>2. /\ existing' \subseteq existing /\ incidents' \subseteq incidents /\ checks' \subseteq checks
      /\ now' = now /\ failures' = failures /\ request' = request
      /\ check' = check /\ overtaken' = overtaken /\ cut' = cut
      /\ writes' = IF request = Idle THEN 0 ELSE writes + 1
      /\ \A c \in checks : c.site \in existing' => c \in checks'
      /\ \A i \in incidents : i.site \in existing' => i \in incidents'
      /\ \A i, j \in incidents : i.site = j.site => (i \in incidents' <=> j \in incidents')
    BY DEF DeleteSite, DeleteChecks, DeleteIncidents, Writing, engine
<1>3. HistoryTyped'
    <2>1. IsFiniteSet(incidents')
        BY <1>1, <1>2, FS_Subset, Zenon DEF HistoryTyped
    <2>2. writes' \in Nat
        BY <1>1, <1>2 DEF HistoryTyped
    <2>3. /\ existing' \subseteq Sites
          /\ checks' \subseteq [site : Sites, at : 0 .. now, outcome : Outcomes]
          /\ incidents' \subseteq [site : Sites, status : {"ACTIVE", "RESOLVED"}, start : Nat, end : Int]
        BY <1>1, <1>2, Zenon DEF HistoryTyped
    <2> QED
        BY <1>1, <1>2, <2>1, <2>2, <2>3, Zenon DEF HistoryTyped
<1>4. KnownBy(now)' /\ IncidentsApart'
    BY <1>1, <1>2, Zenon DEF KnownBy, IncidentsApart, OverBy
<1>5. EngineTyped'
    BY <1>1, <1>2, Zenon DEF EngineTyped, Stored
<1>6. FoundIsLast'
    <2> SUFFICES ASSUME NEW c \in Checkers, check[c].pc = "resolve", check[c].site \notin overtaken
                 PROVE  LastFound(check[c], incidents', now)
        BY <1>2, Zenon DEF FoundIsLast, LastFound, IncidentsOf, OverBy
    <2>1. LastFound(check[c], incidents, now)
        BY <1>1, FoundIs, Zenon
    <2>2. CASE \E i \in incidents' : i.site = check[c].site
        <3>1. \A i \in incidents : i.site = check[c].site => i \in incidents'
            BY <1>2, <2>2, Zenon
        <3> QED
            BY <1>2, <2>1, <3>1, Zenon DEF LastFound
    <2>3. CASE ~\E i \in incidents' : i.site = check[c].site
        BY <2>3, Zenon DEF LastFound
    <2> QED
        BY <2>2, <2>3
<1>7. InOrder'
    <2>1. Undisturbed' \subseteq Undisturbed /\ Undisturbed' \subseteq existing'
        BY <1>2 DEF Undisturbed
    <2>2. /\ \A k : k.site \in Undisturbed' => (k \in checks <=> k \in checks')
          /\ \A k : k.site \in Undisturbed' => (k \in incidents <=> k \in incidents')
        BY <1>2, <2>1, Zenon
    <2> QED
        BY <1>2, <2>1, <2>2, StoredStay, Zenon
<1> QED
    BY <1>3, <1>4, <1>5, <1>6, <1>7, Zenon DEF Ordered

\* A tick overtakes the checks half-way: what was in hand is no longer spoken of.
LEMMA TickKeeps == Ordered /\ Tick => Ordered'
<1> SUFFICES ASSUME Ordered, Tick PROVE Ordered'
    OBVIOUS
<1>1. HistoryTyped /\ EngineTyped /\ KnownBy(now) /\ IncidentsApart /\ FoundIsLast /\ FollowsSoFar
    BY DEF Ordered, InOrder
<1>2. now \in Nat /\ now' = now + 1
    BY <1>1 DEF Tick, HistoryTyped
<1>3. /\ existing' = existing /\ failures' = failures /\ checks' = checks /\ incidents' = incidents
      /\ request' = request /\ writes' = writes /\ check' = check /\ cut' = cut
      /\ overtaken' = overtaken \union HalfWay
    BY DEF Tick, history
<1>4. HistoryTyped'
    <2>1. checks \subseteq [site : Sites, at : 0 .. now', outcome : Outcomes]
        <3>1. 0 .. now \subseteq 0 .. now'
            BY <1>2
        <3> QED
            BY <1>1, <3>1 DEF HistoryTyped
    <2> QED
        BY <1>1, <1>2, <1>3, <2>1 DEF HistoryTyped
<1>5. KnownBy(now)'
    <2>1. \A i \in incidents : /\ i \in Incs /\ i.start <= now
                               /\ i.status = "RESOLVED" => i.start <= i.end /\ i.end <= now
        BY Known, Zenon
    <2> QED
        BY <1>2, <1>3, <2>1 DEF KnownBy, Incs
<1>6. IncidentsApart' /\ EngineTyped'
    BY <1>1, <1>3, Zenon DEF IncidentsApart, EngineTyped, Stored, OverBy
<1>7. \A c \in Checkers : Stored(c) => check[c].site \in overtaken'
    BY <1>3, Zenon DEF HalfWay
<1>8. FoundIsLast'
    <2>1. \A c \in Checkers : check[c].pc = "resolve" => Stored(c)
        BY DEF Stored
    <2> QED
        BY <1>3, <1>7, <2>1, Zenon DEF FoundIsLast
<1>9. \A c \in Checkers : Stored(c)' => Stored(c)
    BY <1>3, Zenon DEF Stored
<1>10. Undisturbed' \subseteq Undisturbed /\ \A s \in Undisturbed' : s \notin overtaken'
    BY <1>3 DEF Undisturbed
<1>11. OneInHand' /\ CheckInHand'
    BY <1>3, <1>7, <1>9, <1>10, Zenon DEF OneInHand, CheckInHand
<1>12. FollowsSoFar'
    <2> SUFFICES ASSUME NEW s \in Undisturbed'
                 PROVE  /\ \A i \in IncidentsOf(s)' :
                              /\ StartsAtFailure(i)' /\ EndsAtSuccess(i)'
                              /\ \A c \in checks : ~Covers(i, c)
                        /\ failures[s] >= Threshold => ActiveOf(s)' # {}
        BY <1>3, Zenon DEF FollowsSoFar
    <2>1. ASSUME NEW pcs, pcs \subseteq {"find", "resolve", "open", "update"} PROVE ~Answering(s, pcs)
        <3> SUFFICES ASSUME NEW c \in Checkers, check[c].site = s, check[c].pc \in pcs PROVE FALSE
            BY Zenon DEF Answering
        <3>1. Stored(c)
            BY <2>1 DEF Stored
        <3> QED
            BY <1>7, <1>10, <3>1, Zenon
    <2>2. ~Answering(s, {"find", "resolve"}) /\ ~Answering(s, {"update"})
        BY <2>1
    <2>3. s \in Undisturbed
        BY <1>10
    <2>4. /\ \A i \in IncidentsOf(s) :
                /\ StartsAtFailure(i) /\ EndsAtSuccess(i)
                /\ \A c \in checks : ~Covers(i, c)
          /\ failures[s] >= Threshold => ActiveOf(s) # {}
        BY <1>1, <2>2, <2>3, Zenon DEF FollowsSoFar
    <2> QED
        BY <1>3, <2>4, Zenon DEF IncidentsOf, StartsAtFailure, EndsAtSuccess, ActiveOf
<1> QED
    BY <1>4, <1>5, <1>6, <1>8, <1>11, <1>12, Zenon DEF Ordered, InOrder

\* The steps that only read the history.
Reads == UNCHANGED <<now, history, engine>>

LEMMA ReadKeeps ==
    ASSUME Ordered, Reads,
           writes' \in Nat /\ request'.match \subseteq Sites /\ request'.range \in Nat /\ request'.at \in Nat,
           request'.kind = "platform" => request'.match = Sites
    PROVE  Ordered'
<1>1. HistoryTyped /\ EngineTyped /\ KnownBy(now) /\ IncidentsApart /\ FoundIsLast
    BY DEF Ordered
<1>2. /\ existing' = existing /\ failures' = failures /\ checks' = checks /\ incidents' = incidents
      /\ now' = now /\ check' = check /\ overtaken' = overtaken /\ cut' = cut
    BY DEF Reads, history, engine
<1>3. HistoryTyped'
    BY <1>1, <1>2, Zenon DEF HistoryTyped
<1>4. KnownBy(now)' /\ IncidentsApart' /\ EngineTyped' /\ FoundIsLast'
    BY <1>1, <1>2, Zenon DEF KnownBy, IncidentsApart, EngineTyped, Stored, FoundIsLast, IncidentsOf, OverBy
<1>5. Undisturbed' = Undisturbed
    BY <1>2, Zenon DEF Undisturbed
<1>6. InOrder'
    BY <1>2, <1>5, StoredStay, Zenon
<1> QED
    BY <1>3, <1>4, <1>6, Zenon DEF Ordered

LEMMA AsksKeep ==
    ASSUME Ordered, NEW kind, NEW match \in SUBSET Sites, NEW range \in Nat,
           kind = "platform" => match = Sites, Asked(kind, match, range)
    PROVE  Ordered' /\ AnsweredOf'
<1>1. now \in Nat /\ KnownBy(now)
    BY DEF Ordered, HistoryTyped
<1>2. /\ request' = [kind |-> kind, match |-> match, range |-> range, at |-> now]
      /\ answer' = << >> /\ writes' = 0 /\ Reads
    BY Zenon DEF Asked, Reads
<1>3. /\ request'.match = match /\ request'.range = range /\ request'.at = now /\ request'.kind = kind
    BY <1>2
<1>4. Ordered'
    <2>1. 0 \in Nat
        OBVIOUS
    <2> QED
        BY <1>1, <1>2, <1>3, <2>1, ReadKeeps, Zenon
<1>5. \A q \in DOMAIN answer' : FALSE
    BY <1>2
<1>6. incidents' = incidents
    BY <1>2, Zenon DEF Reads, history
<1>7. KnownBy(request.at)'
    BY <1>1, <1>3, <1>6, Zenon DEF KnownBy
<1>8. AnsweredOf'
    BY <1>5, <1>7, Zenon DEF AnsweredOf
<1> QED
    BY <1>4, <1>8

\* A result is of the request and the history alone.
LEMMA ResultStays ==
    ASSUME request' = request, UNCHANGED history, NEW q
    PROVE  Result(q)' = Result(q)
<1>1. checks' = checks /\ incidents' = incidents /\ existing' = existing /\ status' = status
    BY DEF history
<1>2. ASSUME NEW m, NEW r, NEW t PROVE InRange(m, r, t)' = InRange(m, r, t)
    BY <1>1, Zenon DEF InRange
<1>3. ASSUME NEW m, NEW r, NEW t PROVE GetSiteStats(m, r, t)' = GetSiteStats(m, r, t)
    BY <1>2, Zenon DEF GetSiteStats
<1>4. ASSUME NEW m, NEW r, NEW t PROVE GetDowntime(m, r, t)' = GetDowntime(m, r, t)
    BY <1>1, Zenon DEF GetDowntime, RangeStart, Larger
<1>5. ASSUME NEW m, NEW t PROVE CalculateUptimeWindows(m, t)' = CalculateUptimeWindows(m, t)
    BY <1>2, Zenon DEF CalculateUptimeWindows
<1>6. ASSUME NEW m, NEW r, NEW t PROVE GetResponseTimeSeries(m, r, t)' = GetResponseTimeSeries(m, r, t)
    BY <1>2, Zenon DEF GetResponseTimeSeries
<1>7. ASSUME NEW m, NEW r, NEW t PROVE GetStatusDistribution(m, r, t)' = GetStatusDistribution(m, r, t)
    BY <1>2, Zenon DEF GetStatusDistribution
<1>8. ASSUME NEW s PROVE GetTimeline(s)' = GetTimeline(s)
    BY <1>1 DEF GetTimeline
<1>9. ASSUME NEW r, NEW t PROVE GetSiteRankings(r, t)' = GetSiteRankings(r, t)
    BY <1>1, <1>2, Zenon DEF GetSiteRankings
<1>10. ASSUME NEW r, NEW t PROVE IncidentsSince(r, t)' = IncidentsSince(r, t)
    BY <1>1, Zenon DEF IncidentsSince
<1>11. Active' = Active /\ CountSites' = CountSites
    BY <1>1, Zenon DEF Active, CountSites
<1> QED
    BY <1>2, <1>3, <1>4, <1>5, <1>6, <1>7, <1>8, <1>9, <1>10, <1>11, Zenon DEF Result

\* What was answered is of the moment asked about, as long as nobody writes.
LEMMA StaysAnswered ==
    ASSUME AnsweredOf, request' = request, UNCHANGED history, writes' = writes,
           Asking({"site", "platform"}) =>
               \A q \in DOMAIN answer' : \/ q \in DOMAIN answer /\ answer'[q] = answer[q]
                                        \/ answer'[q] = Result(q)
    PROVE  AnsweredOf'
<1> SUFFICES ASSUME request.kind # None, Quiet
             PROVE  /\ KnownBy(request.at)'
                    /\ Asking({"site", "platform"}) => \A q \in DOMAIN answer' : answer'[q] = Result(q)'
    BY Zenon DEF AnsweredOf, Quiet, Asking
<1>1. KnownBy(request.at) /\ incidents' = incidents
    BY Zenon DEF AnsweredOf, history
<1>2. KnownBy(request.at)'
    BY <1>1, Zenon DEF KnownBy
<1>3. ASSUME Asking({"site", "platform"}), NEW q \in DOMAIN answer' PROVE answer'[q] = Result(q)'
    <2>1. Result(q)' = Result(q)
        BY ResultStays, Zenon
    <2>2. q \in DOMAIN answer => answer[q] = Result(q)
        BY <1>3, Zenon DEF AnsweredOf
    <2> QED
        BY <1>3, <2>1, <2>2, Zenon
<1> QED
    BY <1>2, <1>3, Zenon

LEMMA QueryKeeps ==
    ASSUME Ordered, AnsweredOf, NEW q, Query(q)
    PROVE  Ordered' /\ AnsweredOf'
<1>1. /\ answer' = [x \in DOMAIN answer \union {q} |-> IF x = q THEN Result(q) ELSE answer[x]]
      /\ request' = request /\ writes' = writes /\ Reads /\ UNCHANGED history
    BY Zenon DEF Query, Reads
<1>2. Ordered'
    BY <1>1, ReadKeeps, Zenon DEF Ordered, HistoryTyped
<1>3. \A x \in DOMAIN answer' : \/ x \in DOMAIN answer /\ answer'[x] = answer[x]
                                \/ answer'[x] = Result(x)
    BY <1>1, Zenon
<1> QED
    BY <1>1, <1>2, <1>3, StaysAnswered, Zenon

\* A page changes the pages read, and the kinds of request that have pages are no others.
LEMMA PageKeeps ==
    ASSUME Ordered, AnsweredOf, ListPage
    PROVE  Ordered' /\ AnsweredOf'
<1>1. /\ request.kind \in Lists
      /\ request' = request /\ writes' = writes /\ Reads /\ UNCHANGED history
    BY Zenon DEF ListPage, Reads
<1>2. Ordered'
    BY <1>1, ReadKeeps, Zenon DEF Ordered, HistoryTyped
<1>3. ~Asking({"site", "platform"})
    BY <1>1, Zenon DEF Lists, Asking
<1> QED
    BY <1>1, <1>2, <1>3, StaysAnswered, Zenon

\* A write while a request runs: it is not answered of one history.
LEMMA WriteKeeps ==
    ASSUME Ordered, AnsweredOf, request' = request, writes' = IF request = Idle THEN 0 ELSE writes + 1
    PROVE  AnsweredOf'
<1>1. CASE request = Idle
    BY <1>1 DEF AnsweredOf, Idle
<1>2. CASE request # Idle
    <2>1. writes' # 0
        BY <1>2 DEF Ordered, HistoryTyped
    <2> QED
        BY <2>1, Zenon DEF AnsweredOf, Quiet
<1> QED
    BY <1>1, <1>2

LEMMA InvIsOrdered == AnalyticsInv <=> Ordered /\ AnsweredOf
BY Zenon DEF AnalyticsInv, Ordered, InOrder

\* A check reads or writes the history.
LEMMA CheckWrites ==
    ASSUME NEW c \in Checkers, CheckStep(c)
    PROVE  \/ UNCHANGED history /\ request' = request /\ answer' = answer /\ writes' = writes
           \/ request' = request /\ writes' = IF request = Idle THEN 0 ELSE writes + 1
BY Zenon DEF CheckStep, Snapshot, Record, FindsIncident, FindsNone, Resolve, Open, Update, Interrupted, Writing

LEMMA CheckKeeps ==
    ASSUME Ordered, NEW c \in Checkers, CheckStep(c)
    PROVE  Ordered'
<1>1. ASSUME NEW o \in Probed, Record(c, o) PROVE Ordered'
    BY <1>1, RecordKeeps, AnalyticsAssumption
<1> QED
    BY <1>1, SnapshotKeeps, FindsIncidentKeeps, FindsNoneKeeps, ResolveKeeps, OpenKeeps, UpdateKeeps,
       InterruptedKeeps, Zenon DEF CheckStep

LEMMA NextKeeps == Ordered /\ AnsweredOf /\ [Next]_vars => Ordered' /\ AnsweredOf'
<1> SUFFICES ASSUME Ordered, AnsweredOf, [Next]_vars PROVE Ordered' /\ AnsweredOf'
    OBVIOUS
<1>1. CASE Tick
    <2>1. Ordered'
        BY <1>1, TickKeeps
    <2>2. UNCHANGED history /\ request' = request /\ answer' = answer /\ writes' = writes
        BY <1>1, Zenon DEF Tick
    <2> QED
        BY <2>1, <2>2, StaysAnswered, Zenon
<1>2. ASSUME NEW c \in Checkers, CheckStep(c) PROVE Ordered' /\ AnsweredOf'
    <2>1. Ordered'
        BY <1>2, CheckKeeps
    <2>2. CASE UNCHANGED history /\ request' = request /\ answer' = answer /\ writes' = writes
        BY <2>1, <2>2, StaysAnswered, Zenon
    <2>3. CASE request' = request /\ writes' = IF request = Idle THEN 0 ELSE writes + 1
        BY <2>1, <2>3, WriteKeeps, Zenon
    <2> QED
        BY <1>2, <2>2, <2>3, CheckWrites, Zenon
<1>3. ASSUME NEW s \in Sites, DeleteSite(s) \/ DeleteChecks(s) \/ DeleteIncidents(s)
      PROVE  Ordered' /\ AnsweredOf'
    <2>1. request' = request /\ writes' = IF request = Idle THEN 0 ELSE writes + 1
        BY <1>3, Zenon DEF DeleteSite, DeleteChecks, DeleteIncidents, Writing
    <2> QED
        BY <1>3, <2>1, DeleteKeeps, WriteKeeps, Zenon
<1>4. ASSUME NEW s \in Sites, (\E r \in Ranges : SiteAnalytics(s, r)) \/ ChecksList(s)
      PROVE  Ordered' /\ AnsweredOf'
    <2>1. {s} \in SUBSET Sites /\ Ranges \subseteq Nat /\ DashboardRange \in Nat
        BY AnalyticsAssumption
    <2>2. \E k \in {"site", "checkHistory"}, r \in Nat : Asked(k, {s}, r)
        BY <1>4, <2>1, Zenon DEF SiteAnalytics, ChecksList
    <2>3. "site" # "platform" /\ "checkHistory" # "platform"
        BY Zenon
    <2> QED
        BY <2>1, <2>2, <2>3, AsksKeep, Zenon
<1>5. CASE (\E r \in Ranges : PlatformAnalytics(r)) \/ DashboardStats \/ SitesList \/ IncidentsList
    <2>1. Sites \in SUBSET Sites /\ Ranges \subseteq Nat /\ DashboardRange \in Nat
        BY AnalyticsAssumption
    <2>2. \E k \in {"platform", "dashboard", "listSites", "listIncidents"}, r \in Nat : Asked(k, Sites, r)
        BY <1>5, <2>1, Zenon DEF PlatformAnalytics, DashboardStats, SitesList, IncidentsList
    <2> QED
        BY <2>1, <2>2, AsksKeep, Zenon
<1>6. ASSUME NEW q, Query(q) PROVE Ordered' /\ AnsweredOf'
    BY <1>6, QueryKeeps
<1>7. CASE ListPage
    BY <1>7, PageKeeps
<1>8. CASE UNCHANGED vars
    <2>1. /\ Reads /\ UNCHANGED history /\ request' = request /\ answer' = answer /\ writes' = writes
        BY <1>8, Zenon DEF vars, Reads
    <2>2. Ordered'
        BY <2>1, ReadKeeps, Zenon DEF Ordered, HistoryTyped
    <2> QED
        BY <2>1, <2>2, StaysAnswered, Zenon
<1> QED
    BY <1>1, <1>2, <1>3, <1>4, <1>5, <1>6, <1>7, <1>8, Zenon DEF Next

\* In every state the history is in order but for what its checks in hand have still to do,
\* whatever is checked side by side, cut short, overtaken or deleted; and an undisturbed
\* answer is of its moment.
THEOREM HistoryInOrder == Spec => []AnalyticsInv
<1>1. Init => Ordered /\ AnsweredOf
    BY InitInv, InvIsOrdered
<1> QED
    BY <1>1, NextKeeps, InvIsOrdered, PTL DEF Spec

\* For every seeded or empty history and any number of checks side by side: when a check of
\* a site has been through, and none of its checks was cut short after being stored, or was
\* overtaken by a tick, the incidents of the site follow its checks.
THEOREM IncidentsAlwaysFollowChecks == Spec => []IncidentsFollowChecks
<1>1. ASSUME Ordered, NEW s \in Undisturbed \ HalfWay
      PROVE  /\ \A i \in IncidentsOf(s) :
                    /\ StartsAtFailure(i) /\ EndsAtSuccess(i)
                    /\ \A c \in checks : ~Covers(i, c)
                    /\ \A j \in IncidentsOf(s) : i = j \/ OverBy(i, j.start) \/ OverBy(j, i.start)
             /\ failures[s] >= Threshold => ActiveOf(s) # {}
    <2>1. FollowsSoFar /\ IncidentsApart
        BY <1>1 DEF Ordered, InOrder
    <2>2. ASSUME NEW pcs, pcs \subseteq {"find", "resolve", "open", "update"} PROVE ~Answering(s, pcs)
        <3> SUFFICES ASSUME NEW c \in Checkers, check[c].site = s, check[c].pc \in pcs PROVE FALSE
            BY Zenon DEF Answering
        <3>1. Stored(c)
            BY <2>2 DEF Stored
        <3> QED
            BY <1>1, <3>1 DEF HalfWay
    <2>3. ~Answering(s, {"find", "resolve"}) /\ ~Answering(s, {"update"})
        BY <2>2
    <2>4. s \in Undisturbed /\ s \notin overtaken
        BY <1>1 DEF Undisturbed
    <2>5. \A i, j \in IncidentsOf(s) : i = j \/ OverBy(i, j.start) \/ OverBy(j, i.start)
        BY <2>1, <2>4, Zenon DEF IncidentsApart, IncidentsOf
    <2> QED
        BY <2>1, <2>3, <2>4, <2>5, Zenon DEF FollowsSoFar
<1>2. AnalyticsInv => IncidentsFollowChecks
    BY <1>1, InvIsOrdered, Zenon DEF IncidentsFollowChecks
<1> QED
    BY <1>2, HistoryInOrder, PTL

-----------------------------------------------------------------------------
(* Sums over a finite set: when each summand counts a part, and no two     *)
(* parts meet, the sum counts all of them together.                        *)

\* A collection that has the empty set and, with a set less one of its elements, the set.
LEMMA Inward ==
    ASSUME NEW S, IsFiniteSet(S), NEW T, {} \in T,
           \A s \in SUBSET S : s # {} /\ (\A x \in s : s \ {x} \in T) => s \in T
    PROVE  SUBSET S \subseteq T
<1> SUFFICES ASSUME (SUBSET S) \ T # {} PROVE FALSE
    OBVIOUS
<1> DEFINE R == StrictSubsetOrdering(S)
<1>1. IsWellFoundedOn(R, SUBSET S)
    BY FS_StrictSubsetOrderingWellFounded, FS_FiniteSubsetsOfFinite, Zenon
<1>2. \A s, t \in SUBSET S : s \subseteq t /\ s # t => <<s, t>> \in R
    BY DEF StrictSubsetOrdering
<1> HIDE DEF R
<1>3. (SUBSET S) \ T \subseteq SUBSET S
    OBVIOUS
<1>4. PICK m \in (SUBSET S) \ T : \A s \in (SUBSET S) \ T : ~(<<s, m>> \in R)
    BY <1>1, <1>3, WFMin, Zenon
<1>5. m \in SUBSET S /\ m \notin T /\ m # {}
    BY <1>4
<1>6. ASSUME NEW x \in m PROVE m \ {x} \in T
    <2>1. m \ {x} \in SUBSET S /\ m \ {x} \subseteq m /\ m \ {x} # m
        BY <1>5
    <2>2. <<m \ {x}, m>> \in R
        BY <1>2, <1>5, <2>1, Zenon
    <2> QED
        BY <1>4, <2>1, <2>2, Zenon
<1> QED
    BY <1>5, <1>6

Parts(F, s) == UNION {F[x] : x \in s}

LEMMA PartsFinite ==
    ASSUME NEW S, IsFiniteSet(S), NEW F, \A x \in S : IsFiniteSet(F[x])
    PROVE  \A s \in SUBSET S : IsFiniteSet(Parts(F, s))
<1> DEFINE T == {s \in SUBSET S : IsFiniteSet(Parts(F, s))}
<1>1. {} \in T
    <2>1. Parts(F, {}) = {}
        BY DEF Parts
    <2> QED
        BY <2>1, FS_EmptySet
<1>2. ASSUME NEW s \in SUBSET S, s # {}, \A x \in s : s \ {x} \in T PROVE s \in T
    <2>1. PICK x \in s : TRUE
        BY <1>2
    <2>2. IsFiniteSet(Parts(F, s \ {x})) /\ IsFiniteSet(F[x])
        BY <1>2
    <2>3. Parts(F, s) = Parts(F, s \ {x}) \union F[x]
        BY DEF Parts
    <2> QED
        BY <2>2, <2>3, FS_Union
<1> HIDE DEF T
<1>3. SUBSET S \subseteq T
    BY <1>1, <1>2, Inward
<1> QED
    BY <1>3 DEF T

Disjoint(F, S) == \A x, y \in S : x = y \/ F[x] \cap F[y] = {}

LEMMA OnePart ==
    ASSUME NEW S, IsFiniteSet(S), NEW F, \A x \in S : IsFiniteSet(F[x]), Disjoint(F, S),
           NEW s \in SUBSET S, NEW x \in s
    PROVE  Cardinality(Parts(F, s)) = Cardinality(F[x]) + Cardinality(Parts(F, s \ {x}))
<1>1. IsFiniteSet(F[x]) /\ IsFiniteSet(Parts(F, s \ {x}))
    BY PartsFinite
<1>2. Parts(F, s) = F[x] \union Parts(F, s \ {x})
    BY DEF Parts
<1>3. F[x] \cap Parts(F, s \ {x}) = {}
    BY DEF Parts, Disjoint
<1>4. Cardinality({}) = 0
    BY FS_EmptySet
<1>5. Cardinality(F[x]) \in Nat /\ Cardinality(Parts(F, s \ {x})) \in Nat
    BY <1>1, FS_CardinalityType
<1>6. Cardinality(F[x] \union Parts(F, s \ {x}))
          = Cardinality(F[x]) + Cardinality(Parts(F, s \ {x})) - Cardinality(F[x] \cap Parts(F, s \ {x}))
    BY <1>1, FS_Union, Zenon
<1>7. Cardinality(Parts(F, s)) = Cardinality(F[x]) + Cardinality(Parts(F, s \ {x})) - 0
    BY <1>2, <1>3, <1>4, <1>6, Zenon
<1> QED
    BY <1>5, <1>7

First(s) == CHOOSE x \in s : TRUE

\* SumFunction adds the summands one by one.
Adding(S, g, sum) ==
    [s \in SUBSET S |-> IF s = {} THEN 0 ELSE g[First(s)] + sum[s \ {First(s)}]]

LEMMA SumOfParts ==
    ASSUME NEW S, IsFiniteSet(S), NEW F, \A x \in S : IsFiniteSet(F[x]), Disjoint(F, S),
           NEW g, DOMAIN g = S, \A x \in S : g[x] = Cardinality(F[x])
    PROVE  SumFunction(g) = Cardinality(Parts(F, S))
<1> DEFINE size == [s \in SUBSET S |-> Cardinality(Parts(F, s))]
<1>0. Parts(F, {}) = {} /\ Cardinality({}) = 0
    BY FS_EmptySet DEF Parts
<1>1. \A s \in SUBSET S : s # {} => First(s) \in s
    BY DEF First
<1>2. ASSUME NEW s \in SUBSET S
      PROVE  size[s] = IF s = {} THEN 0 ELSE g[First(s)] + size[s \ {First(s)}]
    <2>1. CASE s = {}
        BY <1>0, <2>1
    <2>2. CASE s # {}
        <3>1. First(s) \in s /\ First(s) \in S /\ s \ {First(s)} \in SUBSET S
            BY <1>1, <2>2
        <3>2. Cardinality(Parts(F, s)) = Cardinality(F[First(s)]) + Cardinality(Parts(F, s \ {First(s)}))
            BY <3>1, OnePart
        <3> QED
            BY <2>2, <3>1, <3>2
    <2> QED
        BY <2>1, <2>2
<1>3. size = Adding(S, g, size)
    BY <1>2, Zenon DEF Adding
<1>4. ASSUME NEW sum, sum = Adding(S, g, sum) PROVE sum[S] = Cardinality(Parts(F, S))
    <2> DEFINE T == {s \in SUBSET S : sum[s] = size[s]}
    <2>1. \A s \in SUBSET S : sum[s] = IF s = {} THEN 0 ELSE g[First(s)] + sum[s \ {First(s)}]
        BY <1>4, Zenon DEF Adding
    <2> HIDE DEF size
    <2>2. {} \in T
        BY <1>2, <2>1
    <2>3. ASSUME NEW s \in SUBSET S, s # {}, \A x \in s : s \ {x} \in T PROVE s \in T
        BY <1>1, <1>2, <2>1, <2>3
    <2> HIDE DEF T
    <2>4. SUBSET S \subseteq T
        BY <2>2, <2>3, Inward
    <2>5. sum[S] = size[S]
        BY <2>4 DEF T
    <2> QED
        BY <2>5 DEF size
<1> HIDE DEF size
<1> DEFINE Sum == CHOOSE sum : sum = Adding(S, g, sum)
<1>5. Sum = Adding(S, g, Sum)
    BY <1>3, Zenon
<1>6. SumFunction(g) = Sum[S]
    BY Zenon DEF SumFunction, SumFunctionOnSet, FoldFunctionOnSet, MapThenFoldSet, Adding, First
<1> HIDE DEF Sum
<1> QED
    BY <1>4, <1>5, <1>6

-----------------------------------------------------------------------------
(* The downtime of a range.                                                *)

\* What of an incident falls between two moments: the ticks it was open, with its site.
OpenAt(i, from, to) ==
    {i.site} \X (Larger(i.start, from) .. (IF i.status = "ACTIVE" THEN to ELSE i.end) - 1)

LEMMA OpenTicks ==
    ASSUME NEW i \in Incs, NEW from \in Int, NEW to \in Int
    PROVE  /\ IsFiniteSet(OpenAt(i, from, to))
           /\ Cardinality(OpenAt(i, from, to))
                = Larger(0, (IF i.status = "ACTIVE" THEN to ELSE i.end) - Larger(i.start, from))
<1> DEFINE a == Larger(i.start, from)
           b == IF i.status = "ACTIVE" THEN to ELSE i.end
<1>1. a \in Int /\ b \in Int /\ b - 1 \in Int
    BY DEF Larger, Incs
<1> HIDE DEF a, b
<1>2. IsFiniteSet(a .. b - 1) /\ Cardinality(a .. b - 1) = IF a > b - 1 THEN 0 ELSE b - 1 - a + 1
    BY <1>1, FS_Interval
<1>3. IsFiniteSet({i.site}) /\ Cardinality({i.site}) = 1
    BY FS_Singleton
<1>4. IsFiniteSet({i.site} \X (a .. b - 1))
      /\ Cardinality({i.site} \X (a .. b - 1)) = Cardinality({i.site}) * Cardinality(a .. b - 1)
    BY <1>2, <1>3, FS_Product
<1>5. Cardinality({i.site} \X (a .. b - 1)) = Larger(0, b - a)
    BY <1>1, <1>2, <1>3, <1>4 DEF Larger
<1> QED
    BY <1>4, <1>5 DEF a, b, OpenAt

Found(match, from) ==
    {i \in incidents : /\ i.site \in match
                       /\ i.status = "ACTIVE" \/ i.end >= from}

OpenParts(match, from, at) ==
    Parts([i \in Found(match, from) |-> OpenAt(i, from, at)], Found(match, from))

\* The sum the query computes counts the ticks that each incident was open.
LEMMA DowntimeCounts ==
    ASSUME Ordered, NEW match, NEW range \in Int, NEW at \in Int, KnownBy(at),
           match \cap overtaken = {}
    PROVE  GetDowntime(match, range, at) = Cardinality(OpenParts(match, RangeStart(range, at), at))
<1> DEFINE from == RangeStart(range, at)
           S == Found(match, from)
           F == [i \in S |-> OpenAt(i, from, at)]
           g == [i \in S |-> Larger(0, (IF i.status = "ACTIVE" THEN at ELSE i.end) - Larger(i.start, from))]
<1>1. from \in Int
    BY DEF RangeStart
<1>2. S \subseteq Incs /\ IsFiniteSet(S)
    <2>1. S \subseteq incidents /\ incidents \subseteq Incs /\ IsFiniteSet(incidents)
        BY DEF Found, Ordered, HistoryTyped, Incs
    <2> HIDE DEF S
    <2> QED
        BY <2>1, FS_Subset
<1>3. \A i \in S : IsFiniteSet(F[i]) /\ g[i] = Cardinality(F[i])
    <2> HIDE DEF from, S
    <2> QED
        BY <1>1, <1>2, OpenTicks, Zenon
<1>4. Disjoint(F, S)
    <2> SUFFICES ASSUME NEW i \in S, NEW j \in S, i # j, NEW p, p \in F[i], p \in F[j] PROVE FALSE
        BY DEF Disjoint
    <2>1. i.site = j.site /\ p[2] \in Int
          /\ i.start <= p[2] /\ p[2] < (IF i.status = "ACTIVE" THEN at ELSE i.end)
          /\ j.start <= p[2] /\ p[2] < (IF j.status = "ACTIVE" THEN at ELSE j.end)
        <3>1. i \in Incs /\ j \in Incs
            BY <1>2
        <3> HIDE DEF from, S
        <3>2. p \in OpenAt(i, from, at) /\ p \in OpenAt(j, from, at)
            OBVIOUS
        <3> QED
            BY <1>1, <3>1, <3>2 DEF OpenAt, Larger, Incs
    <2>2. OverBy(i, j.start) \/ OverBy(j, i.start)
        <3>1. i \in incidents /\ j \in incidents /\ i.site \notin overtaken
            BY DEF Found
        <3>2. IncidentsApart
            BY DEF Ordered
        <3> HIDE DEF S, F, from
        <3> QED
            BY <2>1, <3>1, <3>2, Zenon DEF IncidentsApart
    <2>3. i \in Incs /\ j \in Incs
        BY <1>2
    <2> HIDE DEF from, S, F
    <2> QED
        BY <2>1, <2>2, <2>3 DEF OverBy, Incs
<1> HIDE DEF from, S, F, g
<1>5. DOMAIN g = S
    BY DEF g
<1>6. SumFunction(g) = Cardinality(Parts(F, S))
    BY <1>2, <1>3, <1>4, <1>5, SumOfParts, Zenon
<1>7. GetDowntime(match, range, at) = SumFunction(g)
    BY Zenon DEF GetDowntime, S, g, from, Found
<1> QED
    BY <1>6, <1>7 DEF S, F, from, OpenParts

\* The ticks counted are the down ticks: an incident open at one began before the request,
\* and ended after the tick.
LEMMA PartsAreDown ==
    ASSUME Ordered, KnownBy(request.at)
    PROVE  OpenParts(request.match, RangeStart(request.range, request.at), request.at) = DownTicks
<1> DEFINE at   == request.at
           from == RangeStart(request.range, at)
           S    == Found(request.match, from)
           F    == [i \in S |-> OpenAt(i, from, at)]
           Down(s, t) == \E i \in incidents : i.site = s /\ i.start <= t /\ ~OverBy(i, t)
<1>1. at \in Nat /\ from \in Int
    BY DEF RangeStart, Ordered, HistoryTyped
<1>2. DownTicks = {p \in request.match \X (from .. at - 1) : Down(p[1], p[2])}
    BY Zenon DEF DownTicks
<1>3. \A i \in incidents : /\ i.status \in {"ACTIVE", "RESOLVED"} /\ i.start \in Nat /\ i.end \in Int
                           /\ i.status = "RESOLVED" => i.start <= i.end /\ i.end <= at
    BY DEF Ordered, HistoryTyped, KnownBy
<1>4. ASSUME NEW p, p \in Parts(F, S) PROVE p \in DownTicks
    <2>1. PICK i \in S : p \in OpenAt(i, from, at)
        BY <1>4 DEF Parts
    <2>2. i \in incidents /\ i.site \in request.match
        BY DEF Found
    <2>3. /\ p = <<i.site, p[2]>> /\ p[1] = i.site
          /\ p[2] \in Larger(i.start, from) .. (IF i.status = "ACTIVE" THEN at ELSE i.end) - 1
        BY <2>1 DEF OpenAt
    <2> HIDE DEF at, from
    <2>4. p[2] \in from .. at - 1 /\ i.start <= p[2] /\ ~OverBy(i, p[2])
        BY <1>1, <1>3, <2>2, <2>3 DEF Larger, OverBy
    <2>5. p \in request.match \X (from .. at - 1)
        BY <2>2, <2>3, <2>4
    <2> QED
        BY <1>2, <2>2, <2>3, <2>4, <2>5
<1>5. ASSUME NEW p, p \in DownTicks PROVE p \in Parts(F, S)
    <2>1. /\ p = <<p[1], p[2]>> /\ p[1] \in request.match /\ p[2] \in from .. at - 1
          /\ Down(p[1], p[2])
        BY <1>2, <1>5
    <2>2. PICK i \in incidents : i.site = p[1] /\ i.start <= p[2] /\ ~OverBy(i, p[2])
        BY <2>1
    <2> HIDE DEF at, from
    <2>3. i.status = "ACTIVE" \/ i.end > p[2]
        BY <1>1, <1>3, <2>1, <2>2 DEF OverBy
    <2>4. i \in S
        BY <1>1, <1>3, <2>1, <2>2, <2>3 DEF Found
    <2>5. p[2] \in Larger(i.start, from) .. (IF i.status = "ACTIVE" THEN at ELSE i.end) - 1
        BY <1>1, <1>3, <2>1, <2>2, <2>3 DEF Larger
    <2>6. p \in OpenAt(i, from, at)
        BY <2>1, <2>2, <2>5 DEF OpenAt
    <2> QED
        BY <2>4, <2>6 DEF Parts
<1> QED
    BY <1>4, <1>5 DEF OpenParts

\* For every history and range: the downtime of an answer nobody wrote beneath is the
\* number of ticks of the range in which an incident was open, none counted twice, when no
\* check of a matching site was overtaken by a tick.
THEOREM DowntimeIsAlwaysExact == Spec => []DowntimeIsExact
<1>1. AnalyticsInv => DowntimeIsExact
    <2> SUFFICES ASSUME AnalyticsInv, Asking({"site", "platform"}), Quiet, Has("downtime"),
                        request.match \cap overtaken = {}
                 PROVE  answer["downtime"] = Cardinality(DownTicks)
        BY DEF DowntimeIsExact
    <2>1. Ordered /\ AnsweredOf
        BY InvIsOrdered
    <2>2. request.kind # None
        BY DEF Asking, None
    <2>3. KnownBy(request.at) /\ answer["downtime"] = Result("downtime")
        BY <2>1, <2>2, Zenon DEF AnsweredOf, Has
    <2>5. Result("downtime") = GetDowntime(request.match, request.range, request.at)
        BY DEF Result
    <2>4. request.range \in Int /\ request.at \in Int
        BY <2>1 DEF Ordered, HistoryTyped
    <2>6. GetDowntime(request.match, request.range, request.at)
              = Cardinality(OpenParts(request.match, RangeStart(request.range, request.at), request.at))
        BY <2>1, <2>3, <2>4, DowntimeCounts
    <2>7. OpenParts(request.match, RangeStart(request.range, request.at), request.at) = DownTicks
        BY <2>1, <2>3, PartsAreDown
    <2> QED
        BY <2>3, <2>5, <2>6, <2>7, Zenon
<1> QED
    BY <1>1, HistoryInOrder, PTL

-----------------------------------------------------------------------------
(* The queries of one answer agree.                                        *)

LEMMA Extremes ==
    ASSUME NEW S \in SUBSET Int, IsFiniteSet(S), S # {}
    PROVE  /\ Min(S) \in S /\ \A x \in S : Min(S) <= x
           /\ Max(S) \in S /\ \A x \in S : x <= Max(S)
<1> DEFINE T == {s \in SUBSET S : s = {} \/ ((\E m \in s : \A x \in s : m <= x) /\ (\E m \in s : \A x \in s : x <= m))}
<1>1. {} \in T
    OBVIOUS
<1>2. ASSUME NEW s \in SUBSET S, s # {}, \A x \in s : s \ {x} \in T PROVE s \in T
    <2>1. PICK x \in s : TRUE
        BY <1>2
    <2>2. x \in Int /\ s \subseteq Int
        OBVIOUS
    <2>3. CASE s \ {x} = {}
        <3>1. s = {x}
            BY <2>1, <2>3
        <3> QED
            BY <2>2, <3>1
    <2>4. CASE s \ {x} # {}
        <3>1. PICK m \in s \ {x} : \A y \in s \ {x} : m <= y
            BY <1>2, <2>1, <2>4
        <3>2. PICK n \in s \ {x} : \A y \in s \ {x} : y <= n
            BY <1>2, <2>1, <2>4
        <3>3. \E k \in s : \A y \in s : k <= y
            BY <2>2, <3>1
        <3>4. \E k \in s : \A y \in s : y <= k
            BY <2>2, <3>2
        <3> QED
            BY <3>3, <3>4
    <2> QED
        BY <2>3, <2>4
<1> HIDE DEF T
<1>3. SUBSET S \subseteq T
    BY <1>1, <1>2, Inward
<1>4. (\E m \in S : \A x \in S : m <= x) /\ (\E m \in S : \A x \in S : x <= m)
    BY <1>3 DEF T
<1>5. \E m \in S : \A x \in S : m >= x
    BY <1>4
<1> QED
    BY <1>4, <1>5 DEF Min, Max

LEMMA RoundIs ==
    ASSUME NEW x \in Nat, NEW n \in Nat, n >= 1
    PROVE  /\ Round(x, n) \in Int
           /\ n * (2 * Round(x, n)) <= 2 * x + n /\ 2 * x + n < n * (2 * Round(x, n) + 2)
BY DEF Round

LEMMA TimesMonotone == ASSUME NEW n \in Nat, NEW a \in Int, NEW b \in Int, a <= b PROVE n * a <= n * b
OBVIOUS

\* Rounding compares without a division.
LEMMA RoundAtMost ==
    ASSUME NEW x \in Nat, NEW n \in Nat, n >= 1, NEW v \in Int
    PROVE  Round(x, n) <= v <=> 2 * x + n < n * (2 * v + 2)
<1> DEFINE r == Round(x, n)
<1>1. r \in Int /\ n * (2 * r) <= 2 * x + n /\ 2 * x + n < n * (2 * r + 2)
    BY RoundIs
<1> HIDE DEF r
<1>2. r <= v => n * (2 * r + 2) <= n * (2 * v + 2)
    BY <1>1, TimesMonotone
<1>3. ~(r <= v) => n * (2 * v + 2) <= n * (2 * r)
    BY <1>1, TimesMonotone
<1> QED
    BY <1>1, <1>2, <1>3 DEF r

LEMMA RoundBetween ==
    ASSUME NEW x \in Nat, NEW n \in Nat, n >= 1, NEW lo \in Nat, NEW hi \in Nat, lo * n <= x, x <= hi * n
    PROVE  Round(x, n) \in Nat /\ lo <= Round(x, n) /\ Round(x, n) <= hi
<1>1. Round(x, n) \in Int
    BY RoundIs
<1>2. 2 * x + n < n * (2 * hi + 2)
    OBVIOUS
<1>3. ~(2 * x + n < n * (2 * (lo - 1) + 2))
    OBVIOUS
<1>4. Round(x, n) <= hi
    BY <1>2, RoundAtMost
<1>5. ~(Round(x, n) <= lo - 1)
    BY <1>3, RoundAtMost
<1> QED
    BY <1>1, <1>4, <1>5

LEMMA ChecksFinite == Ordered => IsFiniteSet(checks)
<1> SUFFICES ASSUME Ordered PROVE IsFiniteSet(checks)
    OBVIOUS
<1> DEFINE F == Sites \X ((0 .. now) \X Outcomes)
           key == [c \in checks |-> <<c.site, <<c.at, c.outcome>>>>]
<1>1. now \in Nat /\ checks \subseteq [site : Sites, at : 0 .. now, outcome : Outcomes]
    BY DEF Ordered, HistoryTyped
<1>2. IsFiniteSet(Outcomes)
    <2>1. IsFiniteSet({"fast"}) /\ IsFiniteSet({"slow"}) /\ IsFiniteSet({"fault"}) /\ IsFiniteSet({"lost"})
        BY FS_Singleton
    <2>2. IsFiniteSet({"fast"} \union {"slow"}) /\ IsFiniteSet({"fault"} \union {"lost"})
        BY <2>1, FS_Union
    <2>3. IsFiniteSet(({"fast"} \union {"slow"}) \union ({"fault"} \union {"lost"}))
        BY <2>2, FS_Union
    <2>4. ({"fast"} \union {"slow"}) \union ({"fault"} \union {"lost"}) = Outcomes
        BY DEF Outcomes
    <2> QED
        BY <2>3, <2>4
<1>3. IsFiniteSet(0 .. now)
    BY <1>1, FS_Interval
<1>4. IsFiniteSet(F)
    BY <1>2, <1>3, FS_Product, AnalyticsAssumption
<1>5. key \in Injection(checks, F)
    BY <1>1 DEF Injection, IsInjective
<1> QED
    BY <1>4, <1>5, FS_Injection

\* The response times of some checks.
MsParts == [c \in checks |-> {c} \X (1 .. Ms(c))]

LEMMA MsIs == \A c \in checks : Ms(c) \in Nat /\ 1 <= Ms(c)
BY DEF Ms, ResponseMs

LEMMA TimeIs ==
    ASSUME Ordered, NEW S \in SUBSET checks
    PROVE  /\ Time(S) \in Nat
           /\ Time(S) = Cardinality(Parts(MsParts, S)) /\ IsFiniteSet(Parts(MsParts, S))
           /\ S = {} => Time(S) = 0
           /\ \A c \in S : Time(S) = Ms(c) + Time(S \ {c})
<1>1. IsFiniteSet(S)
    BY ChecksFinite, FS_Subset
<1>2. \A c \in S : IsFiniteSet(MsParts[c]) /\ Cardinality(MsParts[c]) = Ms(c)
    <2> SUFFICES ASSUME NEW c \in S PROVE IsFiniteSet({c} \X (1 .. Ms(c))) /\ Cardinality({c} \X (1 .. Ms(c))) = Ms(c)
        BY DEF MsParts
    <2>1. IsFiniteSet({c}) /\ Cardinality({c}) = 1
        BY FS_Singleton
    <2>2. Ms(c) \in Nat
        BY MsIs
    <2>3. IsFiniteSet(1 .. Ms(c)) /\ Cardinality(1 .. Ms(c)) = Ms(c)
        BY <2>2, FS_Interval
    <2>4. Cardinality({c} \X (1 .. Ms(c))) = 1 * Ms(c) /\ IsFiniteSet({c} \X (1 .. Ms(c)))
        BY <2>1, <2>3, FS_Product
    <2> QED
        BY <2>2, <2>4
<1>3. Disjoint(MsParts, S)
    BY DEF Disjoint, MsParts
<1>4. ASSUME NEW s \in SUBSET S PROVE Time(s) = Cardinality(Parts(MsParts, s)) /\ IsFiniteSet(Parts(MsParts, s))
    <2> DEFINE g == [c \in s |-> Ms(c)]
    <2>1. DOMAIN g = s /\ \A c \in s : g[c] = Cardinality(MsParts[c])
        BY <1>2
    <2>2. IsFiniteSet(s) /\ Disjoint(MsParts, s) /\ \A c \in s : IsFiniteSet(MsParts[c])
        BY <1>1, <1>2, <1>3, FS_Subset DEF Disjoint
    <2> HIDE DEF g
    <2>3. SumFunction(g) = Cardinality(Parts(MsParts, s))
        BY <2>1, <2>2, SumOfParts
    <2> QED
        BY <1>1, <1>2, <2>3, PartsFinite DEF g, Time
<1>5. Time(S) \in Nat
    BY <1>4, FS_CardinalityType
<1>6. S = {} => Time(S) = 0
    <2>1. Parts(MsParts, {}) = {} /\ Cardinality({}) = 0
        BY FS_EmptySet DEF Parts
    <2> QED
        BY <1>4, <2>1
<1>7. ASSUME NEW c \in S PROVE Time(S) = Ms(c) + Time(S \ {c})
    <2>1. Cardinality(Parts(MsParts, S)) = Cardinality(MsParts[c]) + Cardinality(Parts(MsParts, S \ {c}))
        BY <1>1, <1>2, <1>3, OnePart
    <2> QED
        BY <1>2, <1>4, <2>1
<1> QED
    BY <1>4, <1>5, <1>6, <1>7

LEMMA CountIs ==
    ASSUME Ordered, NEW S \in SUBSET checks
    PROVE  /\ IsFiniteSet(S) /\ Cardinality(S) \in Nat
           /\ S = {} <=> Cardinality(S) = 0
           /\ \A c \in S : Cardinality(S) = 1 + Cardinality(S \ {c})
<1>1. IsFiniteSet(S)
    BY ChecksFinite, FS_Subset
<1>2. Cardinality(S) \in Nat /\ (S = {} <=> Cardinality(S) = 0)
    BY <1>1, FS_CardinalityType, FS_EmptySet
<1>3. ASSUME NEW c \in S PROVE Cardinality(S) = 1 + Cardinality(S \ {c})
    <2>1. Cardinality(S \ {c}) = Cardinality(S) - 1
        BY <1>1, FS_RemoveElement
    <2> QED
        BY <1>2, <2>1
<1> QED
    BY <1>1, <1>2, <1>3

\* An average lies where the times it is taken of lie.
LEMMA AverageBetween ==
    ASSUME Ordered, NEW S \in SUBSET checks, S # {}, NEW lo \in Nat, NEW hi \in Nat,
           \A c \in S : lo <= Ms(c) /\ Ms(c) <= hi
    PROVE  Average(S) \in Nat /\ lo <= Average(S) /\ Average(S) <= hi
<1> DEFINE T == {s \in SUBSET S : lo * Cardinality(s) <= Time(s) /\ Time(s) <= hi * Cardinality(s)}
<1>1. \A s \in SUBSET S : s \in SUBSET checks
    OBVIOUS
<1>2. {} \in T
    <2>1. Time({}) = 0 /\ Cardinality({}) = 0
        BY <1>1, TimeIs, CountIs
    <2> QED
        BY <2>1
<1>3. ASSUME NEW s \in SUBSET S, s # {}, \A c \in s : s \ {c} \in T PROVE s \in T
    <2>1. PICK c \in s : TRUE
        BY <1>3
    <2>2. s \in SUBSET checks /\ s \ {c} \in SUBSET checks
        BY <1>1
    <2>3. Time(s) = Ms(c) + Time(s \ {c}) /\ Cardinality(s) = 1 + Cardinality(s \ {c})
        BY <2>1, <2>2, TimeIs, CountIs
    <2>4. lo * Cardinality(s \ {c}) <= Time(s \ {c}) /\ Time(s \ {c}) <= hi * Cardinality(s \ {c})
        BY <1>3, <2>1
    <2>5. Time(s \ {c}) \in Nat /\ Cardinality(s \ {c}) \in Nat /\ Ms(c) \in Nat
        BY <2>2, TimeIs, CountIs, MsIs
    <2>6. lo <= Ms(c) /\ Ms(c) <= hi
        BY <2>1
    <2>7. lo * (1 + Cardinality(s \ {c})) = lo + lo * Cardinality(s \ {c})
          /\ hi * (1 + Cardinality(s \ {c})) = hi + hi * Cardinality(s \ {c})
        BY <2>5
    <2>8. lo * Cardinality(s) <= Time(s) /\ Time(s) <= hi * Cardinality(s)
        BY <2>3, <2>4, <2>5, <2>6, <2>7
    <2> QED
        BY <2>8
<1> HIDE DEF T
<1>4. IsFiniteSet(S)
    BY CountIs
<1>5. S \in T
    BY <1>2, <1>3, <1>4, Inward
<1>6. lo * Cardinality(S) <= Time(S) /\ Time(S) <= hi * Cardinality(S)
    BY <1>5 DEF T
<1>7. Time(S) \in Nat /\ Cardinality(S) \in Nat /\ Cardinality(S) >= 1
    BY TimeIs, CountIs
<1>8. Average(S) = Round(Time(S), Cardinality(S))
    BY DEF Average
<1> QED
    BY <1>6, <1>7, <1>8, RoundBetween

LEMMA AverageOfNone == Average({}) = NoValue
BY DEF Average

LEMMA RangesIn == \A m, r, t : InRange(m, r, t) \in SUBSET checks /\ Successful(InRange(m, r, t)) \in SUBSET checks
BY DEF InRange, Successful

\* The times of some checks, their least and their greatest.
LEMMA TimesOf ==
    ASSUME Ordered, NEW S \in SUBSET checks, S # {}
    PROVE  LET M == {Ms(c) : c \in S}
           IN  /\ Min(M) \in Nat /\ Max(M) \in Nat /\ M # {}
               /\ \A c \in S : Min(M) <= Ms(c) /\ Ms(c) <= Max(M)
               /\ (\E c \in S : Min(M) = Ms(c)) /\ (\E c \in S : Max(M) = Ms(c))
<1> DEFINE M == {Ms(c) : c \in S}
           ms == [c \in S |-> Ms(c)]
<1>1. M \in SUBSET Int /\ M \subseteq Nat /\ M # {}
    BY MsIs
<1>2. ms \in Surjection(S, M)
    BY DEF Surjection
<1> HIDE DEF ms
<1>3. IsFiniteSet(M)
    <2> HIDE DEF M
    <2> QED
        BY <1>2, CountIs, FS_Surjection
<1>4. Min(M) \in M /\ (\A x \in M : Min(M) <= x) /\ Max(M) \in M /\ (\A x \in M : x <= Max(M))
    <2> HIDE DEF M
    <2> QED
        BY <1>1, <1>3, Extremes, Zenon
<1>5. /\ Min(M) \in Nat /\ Max(M) \in Nat
      /\ \A c \in S : Min(M) <= Ms(c) /\ Ms(c) <= Max(M)
      /\ (\E c \in S : Min(M) = Ms(c)) /\ (\E c \in S : Max(M) = Ms(c))
    BY <1>1, <1>4
<1> QED
    BY <1>1, <1>5

\* The share of successes, of ten thousand.
LEMMA UptimeIs ==
    ASSUME Ordered, NEW C \in SUBSET checks
    PROVE  /\ C = {} => Uptime(C) = NoValue
           /\ C # {} => /\ Uptime(C) = Round(10000 * Cardinality(Successful(C)), Cardinality(C))
                        /\ Uptime(C) \in Nat
<1>1. Successful(C) \in SUBSET checks /\ Successful(C) \subseteq C
    BY DEF Successful
<1>2. Cardinality(Successful(C)) \in Nat /\ Cardinality(C) \in Nat /\ (C # {} => Cardinality(C) >= 1)
    BY <1>1, CountIs
<1>3. Cardinality(Successful(C)) <= Cardinality(C)
    BY <1>1, CountIs, FS_Subset
<1>4. C # {} => Round(10000 * Cardinality(Successful(C)), Cardinality(C)) \in Nat
    <2> SUFFICES ASSUME C # {} PROVE Round(10000 * Cardinality(Successful(C)), Cardinality(C)) \in Nat
        OBVIOUS
    <2> DEFINE x == 10000 * Cardinality(Successful(C))
    <2>1. x \in Nat /\ 0 * Cardinality(C) <= x /\ x <= 10000 * Cardinality(C)
        BY <1>2, <1>3
    <2> HIDE DEF x
    <2>2. Round(x, Cardinality(C)) \in Nat
        BY <1>2, <2>1, RoundBetween
    <2> QED
        BY <2>2 DEF x
<1> QED
    BY <1>4 DEF Uptime

\* Counted in groups, the members are as many as counted at once.
LEMMA Grouped ==
    ASSUME NEW C, IsFiniteSet(C), NEW key, NEW g, DOMAIN g = {key[c] : c \in C},
           \A d \in DOMAIN g : g[d] = Cardinality({c \in C : key[c] = d})
    PROVE  SumFunction(g) = Cardinality(C)
<1> DEFINE D == DOMAIN g
           F == [d \in D |-> {c \in C : key[c] = d}]
           k == [c \in C |-> key[c]]
<1>1. k \in Surjection(C, D)
    BY DEF Surjection
<1> HIDE DEF k
<1>2. IsFiniteSet(D)
    BY <1>1, FS_Surjection
<1>3. \A d \in D : IsFiniteSet(F[d]) /\ g[d] = Cardinality(F[d])
    <2>1. \A d \in D : F[d] \in SUBSET C
        OBVIOUS
    <2>2. \A d \in D : IsFiniteSet(F[d])
        <3> HIDE DEF F
        <3> QED
            BY <2>1, FS_Subset
    <2> QED
        BY <2>2
<1>4. Disjoint(F, D)
    BY DEF Disjoint
<1>5. Parts(F, D) = C
    <2>1. ASSUME NEW c \in C PROVE c \in Parts(F, D)
        <3>1. key[c] \in D /\ c \in F[key[c]]
            OBVIOUS
        <3> HIDE DEF F
        <3> QED
            BY <3>1 DEF Parts
    <2>2. \A d \in D : F[d] \subseteq C
        OBVIOUS
    <2> HIDE DEF F
    <2> QED
        BY <2>1, <2>2 DEF Parts
<1> HIDE DEF F
<1> QED
    BY <1>2, <1>3, <1>4, <1>5, SumOfParts

LEMMA SharesAddUp ==
    ASSUME Ordered, NEW m, NEW r, NEW t
    PROVE  SumFunction(GetStatusDistribution(m, r, t)) = Cardinality(InRange(m, r, t))
<1> DEFINE C == InRange(m, r, t)
           g == GetStatusDistribution(m, r, t)
           key == [c \in C |-> StatusCode(c.outcome)]
<1>1. IsFiniteSet(C)
    BY RangesIn, CountIs
<1>2. DOMAIN g = {key[c] : c \in C}
    BY DEF GetStatusDistribution
<1>3. ASSUME NEW d \in DOMAIN g PROVE g[d] = Cardinality({c \in C : key[c] = d})
    <2>1. g[d] = Cardinality({c \in C : StatusCode(c.outcome) = d})
        BY DEF GetStatusDistribution
    <2>2. {c \in C : StatusCode(c.outcome) = d} = {c \in C : key[c] = d}
        OBVIOUS
    <2> QED
        BY <2>1, <2>2
<1> HIDE DEF C, g, key
<1>4. SumFunction(g) = Cardinality(C)
    BY <1>1, <1>2, <1>3, Grouped
<1> QED
    BY <1>4 DEF C, g

LEMMA SplitIs ==
    ASSUME Ordered, NEW C \in SUBSET checks
    PROVE  /\ Successful(C) \in SUBSET checks /\ Cardinality(C) \in Nat
           /\ Cardinality(Successful(C)) \in Nat /\ Cardinality(C \ Successful(C)) \in Nat
           /\ Cardinality(C) = Cardinality(Successful(C)) + Cardinality(C \ Successful(C))
<1>1. Successful(C) \in SUBSET C /\ C \ Successful(C) \in SUBSET C
    BY DEF Successful
<1>2. Successful(C) \in SUBSET checks /\ C \ Successful(C) \in SUBSET checks
    BY <1>1
<1>3. C \cap Successful(C) = Successful(C)
    BY <1>1
<1>4. Cardinality(C \ Successful(C)) = Cardinality(C) - Cardinality(C \cap Successful(C))
    BY CountIs, FS_Difference
<1>5. /\ Cardinality(C) \in Nat /\ Cardinality(Successful(C)) \in Nat
      /\ Cardinality(C \ Successful(C)) \in Nat
    BY <1>2, CountIs
<1>6. Cardinality(C \ Successful(C)) = Cardinality(C) - Cardinality(Successful(C))
    BY <1>3, <1>4, Zenon
<1>7. Cardinality(C) = Cardinality(Successful(C)) + Cardinality(C \ Successful(C))
    BY <1>5, <1>6
<1> QED
    BY <1>2, <1>5, <1>7, Zenon

\* The points of a series are of bins of successful checks, none of them empty.
Bin(range, b, good) == {c \in good : c.at \div BinSize(range) = b}

LEMMA SeriesIs ==
    ASSUME NEW m, NEW r, NEW t
    PROVE  LET series == GetResponseTimeSeries(m, r, t)
               good   == Successful(InRange(m, r, t))
           IN  /\ DOMAIN series = {c.at \div BinSize(r) : c \in good}
               /\ \A b \in DOMAIN series :
                     LET C == Bin(r, b, good)
                     IN  /\ C # {} /\ C \subseteq good
                         /\ series[b].count = Cardinality(C) /\ series[b].avg = Average(C)
                         /\ series[b].min = Min({Ms(c) : c \in C}) /\ series[b].max = Max({Ms(c) : c \in C})
BY DEF GetResponseTimeSeries, Bin

LEMMA SeriesAddUp ==
    ASSUME Ordered, NEW m, NEW r, NEW t
    PROVE  LET series == GetResponseTimeSeries(m, r, t)
           IN  SumFunction([b \in DOMAIN series |-> series[b].count])
                   = Cardinality(Successful(InRange(m, r, t)))
<1> DEFINE series == GetResponseTimeSeries(m, r, t)
           good == Successful(InRange(m, r, t))
           g == [b \in DOMAIN series |-> series[b].count]
           key == [c \in good |-> c.at \div BinSize(r)]
<1>1. IsFiniteSet(good)
    BY RangesIn, CountIs
<1>2. DOMAIN g = {key[c] : c \in good}
    <2>1. DOMAIN series = {c.at \div BinSize(r) : c \in good}
        BY SeriesIs
    <2>2. {c.at \div BinSize(r) : c \in good} = {key[c] : c \in good}
        OBVIOUS
    <2> HIDE DEF series
    <2> QED
        BY <2>1, <2>2
<1>3. ASSUME NEW d \in DOMAIN g PROVE g[d] = Cardinality({c \in good : key[c] = d})
    <2>1. g[d] = Cardinality(Bin(r, d, good))
        BY SeriesIs
    <2>2. Bin(r, d, good) = {c \in good : key[c] = d}
        BY DEF Bin
    <2> QED
        BY <2>1, <2>2
<1> HIDE DEF good, g, key
<1>4. SumFunction(g) = Cardinality(good)
    BY <1>1, <1>2, <1>3, Grouped
<1> QED
    BY <1>4 DEF good, g

\* The statistics of a range, and a point of its series among them.
LEMMA SpreadOf ==
    ASSUME Ordered, NEW C \in SUBSET checks
    PROVE  LET good == Successful(C)
               M == {Ms(c) : c \in good}
               lo == IF M = {} THEN NoValue ELSE Min(M)
               hi == IF M = {} THEN NoValue ELSE Max(M)
           IN  /\ Average(good) \in lo .. hi
               /\ good = {} <=> Average(good) = NoValue
               /\ \A S \in SUBSET good : S # {} =>
                     /\ Average(S) \in Min({Ms(c) : c \in S}) .. Max({Ms(c) : c \in S})
                     /\ lo <= Min({Ms(c) : c \in S}) /\ Max({Ms(c) : c \in S}) <= hi
                     /\ Average(S) \in Nat /\ Average(S) <= hi
<1> DEFINE good == Successful(C)
           M == {Ms(c) : c \in good}
<1>1. good \in SUBSET checks
    BY SplitIs
<1>2. ASSUME NEW S \in SUBSET checks, S # {}
      PROVE  LET N == {Ms(c) : c \in S}
             IN  /\ Average(S) \in Nat /\ Min(N) \in Nat /\ Max(N) \in Nat
                 /\ Min(N) <= Average(S) /\ Average(S) <= Max(N)
                 /\ \A c \in S : Min(N) <= Ms(c) /\ Ms(c) <= Max(N)
                 /\ (\E c \in S : Min(N) = Ms(c)) /\ (\E c \in S : Max(N) = Ms(c))
    <2> DEFINE N == {Ms(c) : c \in S}
    <2>1. /\ Min(N) \in Nat /\ Max(N) \in Nat
          /\ \A c \in S : Min(N) <= Ms(c) /\ Ms(c) <= Max(N)
          /\ (\E c \in S : Min(N) = Ms(c)) /\ (\E c \in S : Max(N) = Ms(c))
        BY <1>2, TimesOf
    <2> HIDE DEF N
    <2>2. Average(S) \in Nat /\ Min(N) <= Average(S) /\ Average(S) <= Max(N)
        BY <1>2, <2>1, AverageBetween
    <2> QED
        BY <2>1, <2>2 DEF N
<1>3. CASE good = {}
    BY <1>3, AverageOfNone DEF NoValue
<1>4. CASE good # {}
    <2>1. M # {}
        BY <1>4
    <2>2. /\ Average(good) \in Nat /\ Min(M) \in Nat /\ Max(M) \in Nat
          /\ Min(M) <= Average(good) /\ Average(good) <= Max(M)
          /\ \A c \in good : Min(M) <= Ms(c) /\ Ms(c) <= Max(M)
        BY <1>1, <1>2, <1>4
    <2> HIDE DEF M
    <2>3. ASSUME NEW S \in SUBSET good, S # {}
          PROVE  /\ Average(S) \in Min({Ms(c) : c \in S}) .. Max({Ms(c) : c \in S})
                 /\ Min(M) <= Min({Ms(c) : c \in S}) /\ Max({Ms(c) : c \in S}) <= Max(M)
                 /\ Average(S) \in Nat /\ Average(S) <= Max(M)
        <3> DEFINE N == {Ms(c) : c \in S}
        <3>1. /\ Average(S) \in Nat /\ Min(N) \in Nat /\ Max(N) \in Nat
              /\ Min(N) <= Average(S) /\ Average(S) <= Max(N)
              /\ (\E c \in S : Min(N) = Ms(c)) /\ (\E c \in S : Max(N) = Ms(c))
            BY <1>1, <1>2, <2>3
        <3> HIDE DEF N
        <3>2. Min(M) <= Min(N) /\ Max(N) <= Max(M)
            BY <2>2, <3>1, <2>3
        <3>3. Average(S) <= Max(M) /\ Average(S) \in Min(N) .. Max(N)
            BY <2>2, <3>1, <3>2
        <3> QED
            BY <3>1, <3>2, <3>3 DEF N
    <2>4. Average(good) \in Min(M) .. Max(M) /\ Average(good) # NoValue
        BY <2>2 DEF NoValue
    <2> HIDE DEF good
    <2> QED
        BY <1>4, <2>1, <2>3, <2>4 DEF M, good
<1> QED
    BY <1>3, <1>4

\* The scan of the widest window holds the checks of every other.
LEMMA WindowIs ==
    ASSUME Ordered, NEW m, NEW t \in Int, NEW w \in Windows
    PROVE  CalculateUptimeWindows(m, t)[w] = Uptime(InRange(m, w, t))
<1>1. Windows \in SUBSET Int /\ IsFiniteSet(Windows) /\ Windows # {}
    <2>1. Windows \subseteq Ranges /\ Ranges \subseteq Nat \ {0}
        BY AnalyticsAssumption, Zenon
    <2>2. Windows \subseteq Int
        BY <2>1
    <2> QED
        BY <2>2, AnalyticsAssumption, Zenon
<1>2. Max(Windows) \in Int /\ w <= Max(Windows) /\ w \in Int
    BY <1>1, Extremes
<1>3. \A c \in checks : c.at \in Int
    BY DEF Ordered, HistoryTyped
<1>4. {c \in InRange(m, Max(Windows), t) : c.at >= RangeStart(w, t)} = InRange(m, w, t)
    BY <1>2, <1>3 DEF InRange, RangeStart
<1> QED
    BY <1>4 DEF CalculateUptimeWindows

LEMMA WiderHolds ==
    ASSUME Ordered, NEW m, NEW t \in Int, NEW v \in Windows, NEW w \in Windows, v <= w
    PROVE  InRange(m, v, t) \subseteq InRange(m, w, t)
<1>1. v \in Int /\ w \in Int
    BY AnalyticsAssumption
<1>2. \A c \in checks : c.at \in Int
    BY DEF Ordered, HistoryTyped
<1> QED
    BY <1>1, <1>2 DEF InRange, RangeStart

-----------------------------------------------------------------------------
(* Rankings: the rows can be sorted, and the first is the largest.         *)

Sorts(q, R) ==
    /\ q \in [1 .. Cardinality(R) -> R]
    /\ \A m, n \in 1 .. Cardinality(R) : m # n => q[m] # q[n]
    /\ \A m, n \in 1 .. Cardinality(R) : m < n => q[m].value >= q[n].value

LEMMA LeastRow ==
    ASSUME NEW R, IsFiniteSet(R), \A x \in R : x.value \in Int, R # {}
    PROVE  \E m \in R : \A x \in R : m.value <= x.value
<1> DEFINE V == {x.value : x \in R}
           f == [x \in R |-> x.value]
<1>1. V \in SUBSET Int /\ V # {}
    OBVIOUS
<1>2. f \in Surjection(R, V)
    BY DEF Surjection
<1> HIDE DEF f
<1>3. IsFiniteSet(V)
    <2> HIDE DEF V
    <2> QED
        BY <1>2, FS_Surjection
<1>4. Min(V) \in V /\ \A x \in V : Min(V) <= x
    <2> HIDE DEF V
    <2> QED
        BY <1>1, <1>3, Extremes, Zenon
<1> QED
    BY <1>4

LEMMA CanSort ==
    ASSUME NEW R, IsFiniteSet(R), \A x \in R : x.value \in Int
    PROVE  \E q : Sorts(q, R)
<1> DEFINE T == {s \in SUBSET R : \E q : Sorts(q, s)}
<1>1. {} \in T
    <2>1. Cardinality({}) = 0
        BY FS_EmptySet
    <2>2. Sorts([k \in 1 .. 0 |-> k], {})
        BY <2>1 DEF Sorts
    <2> QED
        BY <2>2
<1>2. ASSUME NEW s \in SUBSET R, s # {}, \A x \in s : s \ {x} \in T PROVE s \in T
    <2>1. IsFiniteSet(s)
        BY FS_Subset
    <2>2. PICK x \in s : \A y \in s : x.value <= y.value
        BY <1>2, <2>1, LeastRow
    <2>3. PICK q : Sorts(q, s \ {x})
        BY <1>2, <2>2
    <2> DEFINE n == Cardinality(s)
               r == [k \in 1 .. n |-> IF k = n THEN x ELSE q[k]]
    <2>4. n \in Nat /\ n >= 1 /\ Cardinality(s \ {x}) = n - 1
        <3>1. n \in Nat /\ Cardinality(s \ {x}) = n - 1 /\ n # 0
            BY <2>1, FS_CardinalityType, FS_RemoveElement, FS_EmptySet
        <3> QED
            BY <3>1
    <2> HIDE DEF n
    <2>5. /\ \A k \in 1 .. n - 1 : q[k] \in s \ {x}
          /\ \A a, b \in 1 .. n - 1 : /\ a # b => q[a] # q[b]
                                      /\ a < b => q[a].value >= q[b].value
        BY <2>3, <2>4 DEF Sorts
    <2>6. \A k \in 1 .. n : r[k] = IF k = n THEN x ELSE q[k]
        OBVIOUS
    <2>7. \A k \in 1 .. n : k # n => k \in 1 .. n - 1
        BY <2>4
    <2>8. r \in [1 .. n -> s]
        BY <2>5, <2>7
    <2> HIDE DEF r
    <2>9. \A a, b \in 1 .. n : a # b => r[a] # r[b]
        BY <2>5, <2>6, <2>7
    <2>10. ASSUME NEW a \in 1 .. n, NEW b \in 1 .. n, a < b PROVE r[a].value >= r[b].value
        <3>1. a # n
            BY <2>4, <2>10
        <3>2. r[a] = q[a] /\ q[a] \in s /\ a \in 1 .. n - 1
            BY <2>5, <2>6, <2>7, <3>1
        <3>3. CASE b = n
            <4>1. r[b] = x
                BY <2>6, <3>3
            <4>2. q[a].value \in Int /\ x.value \in Int
                BY <2>2, <3>2
            <4> QED
                BY <2>2, <3>2, <4>1, <4>2
        <3>4. CASE b # n
            <4>1. r[b] = q[b] /\ b \in 1 .. n - 1
                BY <2>6, <2>7, <3>4
            <4> QED
                BY <2>5, <2>10, <3>2, <4>1
        <3> QED
            BY <3>3, <3>4
    <2>11. Sorts(r, s)
        BY <2>8, <2>9, <2>10 DEF Sorts, n
    <2> QED
        BY <2>11
<1> HIDE DEF T
<1>3. R \in T
    BY <1>1, <1>2, Inward
<1> QED
    BY <1>3 DEF T

LEMMA FirstOfSorted ==
    ASSUME NEW R, IsFiniteSet(R), \A x \in R : x.value \in Int, NEW q, Sorts(q, R), R # {}
    PROVE  q[1] \in R /\ \A x \in R : x.value <= q[1].value
<1> DEFINE n == Cardinality(R)
<1>1. n \in Nat /\ n # 0
    BY FS_CardinalityType, FS_EmptySet
<1>2. IsFiniteSet(1 .. n) /\ Cardinality(1 .. n) = n
    BY <1>1, FS_Interval
<1>3. q \in [1 .. n -> R] /\ q \in Injection(1 .. n, R)
    BY DEF Sorts, Injection, IsInjective
<1>4. q \in Surjection(1 .. n, R)
    BY <1>2, <1>3, FS_Injection
<1>5. 1 \in 1 .. n
    BY <1>1
<1>6. ASSUME NEW x \in R PROVE x.value <= q[1].value
    <2>1. PICK k \in 1 .. n : q[k] = x
        BY <1>4 DEF Surjection
    <2>2. k = 1 \/ 1 < k
        BY <1>1, <2>1
    <2>3. q[1] \in R /\ q[1].value \in Int /\ x.value \in Int
        BY <1>3, <1>5
    <2>4. 1 < k => q[1].value >= q[k].value
        BY <1>5, <2>1 DEF Sorts
    <2> QED
        BY <2>1, <2>2, <2>3, <2>4
<1> QED
    BY <1>3, <1>5, <1>6

LEMMA RankingIs ==
    ASSUME NEW R, IsFiniteSet(R), \A x \in R : x.value \in Int
    PROVE  /\ R = {} <=> Ranking(R) = << >>
           /\ R # {} => Ranking(R)[1] \in R /\ \A x \in R : x.value <= Ranking(R)[1].value
<1> DEFINE sorted == {q \in SetToSeqs(R) : \A m, n \in DOMAIN q : m < n => q[m].value >= q[n].value}
           q == CHOOSE p \in sorted : TRUE
<1>1. \A p : p \in sorted <=> Sorts(p, R)
    BY DEF SetToSeqs, Sorts
<1>2. sorted # {}
    BY <1>1, CanSort
<1>3. Sorts(q, R)
    <2>1. q \in sorted
        BY <1>2
    <2> QED
        BY <1>1, <2>1
<1>4. Ranking(R) = Take(q, TopN)
    BY DEF Ranking
<1> HIDE DEF sorted, q
<1> DEFINE n == Cardinality(R)
<1>5. n \in Nat /\ (R = {} <=> n = 0)
    BY FS_CardinalityType, FS_EmptySet
<1>6. q \in [1 .. n -> R]
    BY <1>3 DEF Sorts
<1>7. Len(q) = n
    BY <1>5, <1>6
<1>8. TopN \in Nat /\ TopN >= 1
    BY AnalyticsAssumption
<1> DEFINE k == IF n < TopN THEN n ELSE TopN
<1>9. k \in Int /\ (n = 0 <=> ~(1 <= k)) /\ k <= n
    BY <1>5, <1>8
<1>10. Ranking(R) = SubSeq(q, 1, k)
    BY <1>4, <1>7 DEF Take
<1> HIDE DEF n, k
<1>11. \A i \in 1 .. k : q[i] \in R
    BY <1>5, <1>6, <1>9
<1>12. R = {} => Ranking(R) = << >>
    BY <1>5, <1>9, <1>10, SubSeqEmpty
<1>13. ASSUME R # {}
       PROVE  Ranking(R) # << >> /\ Ranking(R)[1] \in R /\ \A x \in R : x.value <= Ranking(R)[1].value
    <2>1. 1 <= k
        BY <1>5, <1>9, <1>13
    <2>2. Len(SubSeq(q, 1, k)) = k /\ SubSeq(q, 1, k)[1] = q[1]
        BY <1>9, <1>11, <2>1, SubSeqProperties
    <2>3. q[1] \in R /\ \A x \in R : x.value <= q[1].value
        BY <1>3, <1>13, FirstOfSorted
    <2>4. Len(Ranking(R)) = k
        BY <1>10, <2>2, Zenon
    <2>5. Len(<< >>) = 0 /\ k # 0
        BY <2>1
    <2>6. Ranking(R) # << >>
        BY <2>4, <2>5, Zenon
    <2> QED
        BY <1>10, <2>2, <2>3, <2>6
<1> QED
    BY <1>12, <1>13

\* Rows of values of sites.
LEMMA TopOf ==
    ASSUME NEW S, IsFiniteSet(S), NEW v, \A s \in S : v[s] \in Int
    PROVE  LET q == Ranking({[site |-> s, value |-> v[s]] : s \in S})
           IN  /\ S = {} <=> q = << >>
               /\ S # {} => (\E s \in S : q[1].value = v[s]) /\ \A s \in S : v[s] <= q[1].value
<1> DEFINE R == {[site |-> s, value |-> v[s]] : s \in S}
           f == [s \in S |-> [site |-> s, value |-> v[s]]]
<1>1. f \in Surjection(S, R)
    BY DEF Surjection
<1> HIDE DEF f
<1>2. IsFiniteSet(R)
    <2> HIDE DEF R
    <2> QED
        BY <1>1, FS_Surjection
<1>3. /\ \A x \in R : x.value \in Int
      /\ R = {} <=> S = {}
      /\ \A x \in R : \E s \in S : x.value = v[s]
      /\ \A s \in S : \E x \in R : x.value = v[s]
    <2>1. \A s \in S : [site |-> s, value |-> v[s]] \in R
        OBVIOUS
    <2>2. \A s \in S : [site |-> s, value |-> v[s]].value = v[s]
        OBVIOUS
    <2>3. \A s \in S : \E x \in R : x.value = v[s]
        <3> HIDE DEF R
        <3> QED
            BY <2>1, <2>2
    <2> QED
        BY <2>3
<1> HIDE DEF R
<1>4. /\ R = {} <=> Ranking(R) = << >>
      /\ R # {} => Ranking(R)[1] \in R /\ \A x \in R : x.value <= Ranking(R)[1].value
    BY <1>2, <1>3, RankingIs
<1>5. S # {} => (\E s \in S : Ranking(R)[1].value = v[s]) /\ \A s \in S : v[s] <= Ranking(R)[1].value
    BY <1>3, <1>4
<1> QED
    BY <1>3, <1>4, <1>5 DEF R

-----------------------------------------------------------------------------
(* A mean is at most the largest of the means of its parts.                *)

LEMMA BoundsAdd ==
    ASSUME NEW k \in Nat, NEW a \in Nat, NEW b \in Nat, NEW c \in Nat, NEW d \in Nat, NEW w \in Int,
           2 * (k * a) + c < c * w, 2 * (k * b) + d <= d * w
    PROVE  2 * (k * (a + b)) + (c + d) < (c + d) * w
<1>1. k * (a + b) = k * a + k * b /\ (c + d) * w = c * w + d * w
    OBVIOUS
<1>2. k * a \in Int /\ k * b \in Int /\ c * w \in Int /\ d * w \in Int
    OBVIOUS
<1> QED
    BY <1>1, <1>2

LEMMA MeanOfParts ==
    ASSUME NEW S, IsFiniteSet(S), S # {}, NEW F, NEW G, Disjoint(F, S), Disjoint(G, S),
           \A x \in S : IsFiniteSet(F[x]) /\ F[x] # {} /\ IsFiniteSet(G[x]),
           NEW k \in Nat, NEW v \in Int,
           \A x \in S : Round(k * Cardinality(G[x]), Cardinality(F[x])) <= v
    PROVE  Round(k * Cardinality(Parts(G, S)), Cardinality(Parts(F, S))) <= v
<1> DEFINE f(s) == Cardinality(Parts(F, s))
           g(s) == Cardinality(Parts(G, s))
           T == {s \in SUBSET S : /\ 2 * (k * g(s)) + f(s) <= f(s) * (2 * v + 2)
                                  /\ s # {} => /\ f(s) >= 1
                                               /\ 2 * (k * g(s)) + f(s) < f(s) * (2 * v + 2)}
<1>1. \A s \in SUBSET S : f(s) \in Nat /\ g(s) \in Nat
    <2>1. \A s \in SUBSET S : IsFiniteSet(Parts(F, s)) /\ IsFiniteSet(Parts(G, s))
        BY PartsFinite
    <2> QED
        BY <2>1, FS_CardinalityType
<1>2. \A x \in S : /\ Cardinality(F[x]) \in Nat /\ Cardinality(F[x]) >= 1 /\ Cardinality(G[x]) \in Nat
                   /\ 2 * (k * Cardinality(G[x])) + Cardinality(F[x]) < Cardinality(F[x]) * (2 * v + 2)
    <2> SUFFICES ASSUME NEW x \in S
                 PROVE  /\ Cardinality(F[x]) \in Nat /\ Cardinality(F[x]) >= 1 /\ Cardinality(G[x]) \in Nat
                        /\ 2 * (k * Cardinality(G[x])) + Cardinality(F[x]) < Cardinality(F[x]) * (2 * v + 2)
        OBVIOUS
    <2>1. Cardinality(F[x]) \in Nat /\ Cardinality(G[x]) \in Nat /\ Cardinality(F[x]) # 0
        BY FS_CardinalityType, FS_EmptySet
    <2>2. k * Cardinality(G[x]) \in Nat /\ Cardinality(F[x]) >= 1
        BY <2>1
    <2>3. Round(k * Cardinality(G[x]), Cardinality(F[x])) <= v
        OBVIOUS
    <2> QED
        BY <2>1, <2>2, <2>3, RoundAtMost
<1>3. {} \in T
    <2>1. Parts(F, {}) = {} /\ Parts(G, {}) = {} /\ Cardinality({}) = 0
        BY FS_EmptySet DEF Parts
    <2>2. f({}) = 0 /\ g({}) = 0
        BY <2>1
    <2> HIDE DEF f, g
    <2> QED
        BY <2>2
<1>4. ASSUME NEW s \in SUBSET S, s # {}, \A x \in s : s \ {x} \in T PROVE s \in T
    <2>1. PICK x \in s : TRUE
        BY <1>4
    <2>2. f(s) = Cardinality(F[x]) + f(s \ {x}) /\ g(s) = Cardinality(G[x]) + g(s \ {x})
        BY <2>1, OnePart
    <2>3. f(s \ {x}) \in Nat /\ g(s \ {x}) \in Nat /\ s \ {x} \in SUBSET S
        BY <1>1
    <2>4. 2 * (k * g(s \ {x})) + f(s \ {x}) <= f(s \ {x}) * (2 * v + 2)
        BY <1>4, <2>1
    <2> HIDE DEF f, g, T
    <2>5. x \in S /\ 2 * v + 2 \in Int
        BY <2>1
    <2>6. 2 * (k * (Cardinality(G[x]) + g(s \ {x}))) + (Cardinality(F[x]) + f(s \ {x}))
             < (Cardinality(F[x]) + f(s \ {x})) * (2 * v + 2)
        BY <1>2, <2>3, <2>4, <2>5, BoundsAdd
    <2>7. 2 * (k * g(s)) + f(s) < f(s) * (2 * v + 2)
        BY <2>2, <2>6
    <2>8. f(s) >= 1
        BY <1>2, <2>2, <2>3, <2>5
    <2>9. k * g(s) \in Int /\ f(s) \in Int /\ f(s) * (2 * v + 2) \in Int
        BY <1>1
    <2>10. 2 * (k * g(s)) + f(s) <= f(s) * (2 * v + 2)
        BY <2>7, <2>9
    <2> QED
        BY <2>7, <2>8, <2>10 DEF T
<1>5. SUBSET S \subseteq T
    <2> HIDE DEF T
    <2> QED
        BY <1>3, <1>4, Inward
<1>6. f(S) >= 1 /\ 2 * (k * g(S)) + f(S) < f(S) * (2 * v + 2) /\ f(S) \in Nat /\ g(S) \in Nat
    BY <1>1, <1>5
<1> HIDE DEF f, g
<1>7. k * g(S) \in Nat
    BY <1>6
<1>8. Round(k * g(S), f(S)) <= v
    BY <1>6, <1>7, RoundAtMost
<1> QED
    BY <1>8 DEF f, g

\* The checks of a site, among those of all.
Of(s, r, t) == InRange({s}, r, t)

LEMMA BySite ==
    ASSUME Ordered, NEW r, NEW t, \A c \in checks : c.site \in existing,
           NEW S \in SUBSET existing, \A s \in existing : Of(s, r, t) # {} => s \in S
    PROVE  LET F == [s \in S |-> Of(s, r, t)]
           IN  /\ IsFiniteSet(S) /\ Disjoint(F, S)
               /\ Parts(F, S) = InRange(Sites, r, t)
<1> DEFINE F == [s \in S |-> Of(s, r, t)]
<1>1. existing \subseteq Sites /\ IsFiniteSet(Sites)
    BY AnalyticsAssumption DEF Ordered, HistoryTyped
<1>2. IsFiniteSet(S)
    BY <1>1, FS_Subset
<1>3. \A s \in S : F[s] = Of(s, r, t)
    OBVIOUS
<1>4. \A s : \A c : c \in Of(s, r, t) <=> c \in InRange(Sites, r, t) /\ c.site = s
    BY <1>1 DEF Of, InRange
<1> HIDE DEF F
<1>5. Disjoint(F, S)
    BY <1>3, <1>4 DEF Disjoint
<1>6. ASSUME NEW c \in InRange(Sites, r, t) PROVE c \in Parts(F, S)
    <2>1. c.site \in existing
        BY DEF InRange
    <2>2. c \in Of(c.site, r, t)
        BY <1>4
    <2>3. c.site \in S
        BY <2>1, <2>2
    <2> QED
        BY <1>3, <2>2, <2>3 DEF Parts
<1>7. ASSUME NEW c \in Parts(F, S) PROVE c \in InRange(Sites, r, t)
    <2>1. PICK s \in S : c \in F[s]
        BY DEF Parts
    <2> QED
        BY <1>3, <1>4, <2>1
<1> QED
    BY <1>2, <1>5, <1>6, <1>7 DEF F

Ranked(r, t) == {s \in existing : Of(s, r, t) # {}}

LEMMA MostReliable ==
    ASSUME Ordered, NEW r, NEW t, \A c \in checks : c.site \in existing
    PROVE  LET C   == InRange(Sites, r, t)
               top == GetSiteRankings(r, t).mostReliable
           IN  /\ C = {} <=> top = << >>
               /\ C # {} => top[1].value >= Uptime(C)
<1> DEFINE C == InRange(Sites, r, t)
           top == GetSiteRankings(r, t).mostReliable
           S == Ranked(r, t)
           v == [s \in S |-> Uptime(Of(s, r, t))]
           F == [s \in S |-> Of(s, r, t)]
           G == [s \in S |-> Successful(Of(s, r, t))]
<1>1. top = Ranking({[site |-> s, value |-> v[s]] : s \in S})
    <2>1. {[site |-> s, value |-> Uptime(Of(s, r, t))] : s \in S} = {[site |-> s, value |-> v[s]] : s \in S}
        OBVIOUS
    <2>2. top = Ranking({[site |-> s, value |-> Uptime(Of(s, r, t))] : s \in S})
        BY DEF GetSiteRankings, Ranked, Of
    <2> HIDE DEF v, top
    <2> QED
        BY <2>1, <2>2
<1>2. S \in SUBSET existing /\ \A s \in existing : Of(s, r, t) # {} => s \in S
    BY DEF Ranked
<1>3. /\ \A s \in S : F[s] = Of(s, r, t) /\ G[s] = Successful(Of(s, r, t)) /\ v[s] = Uptime(Of(s, r, t))
      /\ \A s \in S : F[s] # {} /\ F[s] \in SUBSET checks /\ G[s] \in SUBSET checks /\ G[s] \subseteq F[s]
    BY RangesIn DEF Ranked, Of, Successful
<1>4. IsFiniteSet(S) /\ Disjoint(F, S) /\ Parts(F, S) = C
    BY <1>2, BySite
<1>5. Disjoint(G, S)
    BY <1>3, <1>4 DEF Disjoint
<1>6. Parts(G, S) = Successful(C)
    <2> HIDE DEF F, G, C
    <2> QED
        BY <1>3, <1>4 DEF Parts, Successful
<1>7. \A s \in S : /\ v[s] \in Nat
                   /\ v[s] = Round(10000 * Cardinality(G[s]), Cardinality(F[s]))
    <2> HIDE DEF F, G, v, S
    <2> QED
        BY <1>3, UptimeIs
<1>8. \A s \in S : IsFiniteSet(F[s]) /\ F[s] # {} /\ IsFiniteSet(G[s])
    <2> HIDE DEF F, G, S
    <2> QED
        BY <1>3, CountIs
<1>9. C \in SUBSET checks /\ (C = {} <=> S = {})
    <2>1. C \in SUBSET checks
        BY RangesIn
    <2> HIDE DEF F, S, C
    <2> QED
        BY <2>1, <1>3, <1>4 DEF Parts
<1> HIDE DEF F, G, v, S, C, top
<1>10. \A s \in S : v[s] \in Int
    BY <1>7
<1>11. /\ S = {} <=> top = << >>
       /\ S # {} => (\E s \in S : top[1].value = v[s]) /\ \A s \in S : v[s] <= top[1].value
    BY <1>1, <1>4, <1>10, TopOf
<1>12. ASSUME C # {} PROVE top[1].value >= Uptime(C)
    <2> DEFINE w == top[1].value
    <2>1. w \in Int /\ \A s \in S : v[s] <= w
        BY <1>9, <1>10, <1>11, <1>12
    <2> HIDE DEF w
    <2>2. \A s \in S : Round(10000 * Cardinality(G[s]), Cardinality(F[s])) <= w
        BY <1>7, <2>1
    <2>3. Round(10000 * Cardinality(Parts(G, S)), Cardinality(Parts(F, S))) <= w
        <3>1. S # {} /\ IsFiniteSet(S) /\ Disjoint(F, S) /\ Disjoint(G, S) /\ 10000 \in Nat /\ w \in Int
            BY <1>4, <1>5, <1>9, <1>12, <2>1
        <3> QED
            BY <1>8, <2>2, <3>1, MeanOfParts, SMTT(60)
    <2>4. Uptime(C) = Round(10000 * Cardinality(Parts(G, S)), Cardinality(Parts(F, S))) /\ Uptime(C) \in Nat
        BY <1>4, <1>6, <1>9, <1>12, UptimeIs
    <2>5. Uptime(C) <= w /\ Uptime(C) \in Int /\ w \in Int
        BY <2>1, <2>3, <2>4
    <2> QED
        BY <2>5 DEF w
<1> QED
    BY <1>9, <1>11, <1>12 DEF C, top

LEMMA MostFailing ==
    ASSUME Ordered, NEW r, NEW t, \A c \in checks : c.site \in existing
    PROVE  LET C == InRange(Sites, r, t)
           IN  GetSiteRankings(r, t).mostFailing = << >> <=> Cardinality(C \ Successful(C)) = 0
<1> DEFINE C == InRange(Sites, r, t)
           top == GetSiteRankings(r, t).mostFailing
           Bad(s) == Cardinality(Of(s, r, t) \ Successful(Of(s, r, t)))
           S == {s \in Ranked(r, t) : Bad(s) > 0}
           v == [s \in S |-> Bad(s)]
<1>1. top = Ranking({[site |-> s, value |-> v[s]] : s \in S})
    <2>1. {[site |-> s, value |-> Bad(s)] : s \in S} = {[site |-> s, value |-> v[s]] : s \in S}
        OBVIOUS
    <2>2. top = Ranking({[site |-> s, value |-> Bad(s)] : s \in S})
        BY DEF GetSiteRankings, Ranked, Of
    <2> HIDE DEF v, top, S
    <2> QED
        BY <2>1, <2>2
<1>2. \A s : /\ Bad(s) \in Nat
             /\ Bad(s) > 0 <=> Of(s, r, t) \ Successful(Of(s, r, t)) # {}
    <2> SUFFICES ASSUME NEW s PROVE Bad(s) \in Nat /\ (Bad(s) > 0 <=> Of(s, r, t) \ Successful(Of(s, r, t)) # {})
        OBVIOUS
    <2>1. Of(s, r, t) \ Successful(Of(s, r, t)) \in SUBSET checks
        BY RangesIn DEF Of
    <2>2. Bad(s) \in Nat /\ (Of(s, r, t) \ Successful(Of(s, r, t)) = {} <=> Bad(s) = 0)
        BY <2>1, CountIs
    <2> HIDE DEF Bad
    <2> QED
        BY <2>2
<1>3. C \ Successful(C) = {} <=> Cardinality(C \ Successful(C)) = 0
    <2>1. C \ Successful(C) \in SUBSET checks
        BY RangesIn
    <2> QED
        BY <2>1, CountIs
<1>4. S = {} <=> C \ Successful(C) = {}
    <2>1. existing \subseteq Sites
        BY DEF Ordered, HistoryTyped
    <2>2. \A s \in existing : \A c : c \in Of(s, r, t) <=> c \in C /\ c.site = s
        BY <2>1 DEF Of, InRange
    <2>3. \A c \in C : c.site \in existing
        BY DEF InRange
    <2> HIDE DEF C
    <2>4. ASSUME NEW c \in C \ Successful(C) PROVE c.site \in S
        <3>1. c \in Of(c.site, r, t) /\ c \notin Successful(Of(c.site, r, t)) /\ c.site \in existing
            BY <2>2, <2>3 DEF Successful
        <3>2. Bad(c.site) > 0
            BY <1>2, <3>1
        <3> QED
            BY <3>1, <3>2 DEF Ranked
    <2>5. ASSUME NEW s \in S PROVE C \ Successful(C) # {}
        <3>1. s \in existing /\ Bad(s) > 0
            BY DEF Ranked
        <3>2. Of(s, r, t) \ Successful(Of(s, r, t)) # {}
            BY <1>2, <3>1
        <3> QED
            BY <2>2, <3>1, <3>2 DEF Successful
    <2> QED
        BY <2>4, <2>5
<1>5. IsFiniteSet(S)
    <2>1. S \subseteq Sites
        BY DEF Ranked, Ordered, HistoryTyped
    <2> QED
        BY <2>1, FS_Subset, AnalyticsAssumption
<1>6. \A s \in S : v[s] \in Int
    <2> HIDE DEF Bad
    <2> QED
        BY <1>2
<1> HIDE DEF v, S, top, C
<1>7. S = {} <=> top = << >>
    BY <1>1, <1>5, <1>6, TopOf
<1> QED
    BY <1>3, <1>4, <1>7 DEF C, top

LEMMA Slowest ==
    ASSUME Ordered, NEW r, NEW t, \A c \in checks : c.site \in existing
    PROVE  LET good == Successful(InRange(Sites, r, t))
               top  == GetSiteRankings(r, t).slowest
           IN  /\ good = {} <=> top = << >>
               /\ good # {} => /\ top[1].value >= Average(good)
                               /\ top[1].value <= Max({Ms(c) : c \in good})
<1> DEFINE C == InRange(Sites, r, t)
           good == Successful(C)
           top == GetSiteRankings(r, t).slowest
           Avg(s) == Average(Successful(Of(s, r, t)))
           S == {s \in Ranked(r, t) : Avg(s) # NoValue}
           v == [s \in S |-> Avg(s)]
           F == [s \in S |-> Successful(Of(s, r, t))]
           G == [s \in S |-> Parts(MsParts, F[s])]
           hi == Max({Ms(c) : c \in good})
<1>1. top = Ranking({[site |-> s, value |-> v[s]] : s \in S})
    <2>1. {[site |-> s, value |-> Avg(s)] : s \in S} = {[site |-> s, value |-> v[s]] : s \in S}
        OBVIOUS
    <2>2. top = Ranking({[site |-> s, value |-> Avg(s)] : s \in S})
        BY DEF GetSiteRankings, Ranked, Of
    <2> HIDE DEF v, top, S
    <2> QED
        BY <2>1, <2>2
<1>2. /\ existing \subseteq Sites
      /\ \A s \in existing : \A c : c \in Of(s, r, t) <=> c \in C /\ c.site = s
      /\ \A c \in C : c.site \in existing
    BY DEF Ordered, HistoryTyped, Of, InRange
<1>3. \A s : Avg(s) = NoValue <=> Successful(Of(s, r, t)) = {}
    <2> SUFFICES ASSUME NEW s PROVE Average(Successful(Of(s, r, t))) = NoValue <=> Successful(Of(s, r, t)) = {}
        OBVIOUS
    <2>1. Of(s, r, t) \in SUBSET checks
        BY RangesIn DEF Of
    <2> QED
        BY <2>1, SpreadOf
<1>4. /\ S \subseteq existing /\ good \in SUBSET checks /\ C \in SUBSET checks
      /\ \A s \in S : /\ F[s] = Successful(Of(s, r, t)) /\ v[s] = Average(F[s])
                      /\ F[s] # {} /\ F[s] \in SUBSET good /\ F[s] \in SUBSET checks
      /\ \A c \in good : c.site \in S /\ c \in F[c.site]
      /\ \A s \in S : \A c \in F[s] : c.site = s
    <2>1. S \subseteq existing /\ good \in SUBSET checks /\ C \in SUBSET checks /\ good \subseteq C
        BY RangesIn DEF Ranked, Successful
    <2>2. \A s \in S : F[s] = Successful(Of(s, r, t)) /\ v[s] = Average(F[s]) /\ s \in existing
        BY <2>1
    <2>3. \A s \in S : Successful(Of(s, r, t)) # {}
        <3> HIDE DEF Avg
        <3> QED
            BY <1>3
    <2>4. \A s \in existing : \A c : c \in Successful(Of(s, r, t)) <=> c \in good /\ c.site = s
        <3> HIDE DEF C
        <3> QED
            BY <1>2 DEF Successful
    <2>5. ASSUME NEW c \in good PROVE c.site \in S
        <3>1. c.site \in existing /\ c \in Successful(Of(c.site, r, t))
            BY <1>2, <2>1, <2>4
        <3>2. Of(c.site, r, t) # {} /\ Avg(c.site) # NoValue
            <4> HIDE DEF Avg
            <4> QED
                BY <1>3, <3>1 DEF Successful
        <3> HIDE DEF Avg
        <3> QED
            BY <3>1, <3>2 DEF Ranked
    <2> HIDE DEF S, F, v, good, C
    <2> QED
        BY <2>1, <2>2, <2>3, <2>4, <2>5
<1>5. IsFiniteSet(S)
    BY <1>2, <1>4, FS_Subset, AnalyticsAssumption
<1> HIDE DEF S, v, F
<1>6. Disjoint(F, S) /\ Parts(F, S) = good
    <2> HIDE DEF good
    <2>1. \A s \in S : F[s] \subseteq good
        BY <1>4
    <2>2. \A c \in good : c \in Parts(F, S)
        BY <1>4 DEF Parts
    <2>3. Disjoint(F, S)
        BY <1>4 DEF Disjoint
    <2> QED
        BY <2>1, <2>2, <2>3 DEF Parts
<1>7. \A s \in S : G[s] = Parts(MsParts, F[s])
    OBVIOUS
<1> HIDE DEF G
<1>8. Disjoint(G, S) /\ Parts(G, S) = Parts(MsParts, good)
    <2>1. \A c, d \in checks : c = d \/ MsParts[c] \cap MsParts[d] = {}
        BY DEF MsParts
    <2> HIDE DEF good
    <2>2. \A s \in S : \A x : x \in G[s] <=> \E c \in F[s] : x \in MsParts[c]
        BY <1>7 DEF Parts
    <2>3. ASSUME NEW a \in S, NEW b \in S, NEW x, x \in G[a], x \in G[b] PROVE a = b
        <3>1. PICK c \in F[a] : x \in MsParts[c]
            BY <2>2, <2>3
        <3>2. PICK d \in F[b] : x \in MsParts[d]
            BY <2>2, <2>3
        <3>3. c \in checks /\ d \in checks /\ c.site = a /\ d.site = b
            BY <1>4
        <3> QED
            BY <2>1, <3>1, <3>2, <3>3
    <2>4. ASSUME NEW x PROVE x \in Parts(G, S) <=> x \in Parts(MsParts, good)
        <3>1. x \in Parts(G, S) <=> \E s \in S : x \in G[s]
            BY DEF Parts
        <3>2. x \in Parts(MsParts, good) <=> \E c \in good : x \in MsParts[c]
            BY DEF Parts
        <3> QED
            BY <1>4, <2>2, <3>1, <3>2
    <2> QED
        BY <2>3, <2>4 DEF Disjoint
<1>9. \A s \in S : /\ IsFiniteSet(F[s]) /\ F[s] # {} /\ IsFiniteSet(G[s])
                   /\ v[s] = Round(1 * Cardinality(G[s]), Cardinality(F[s])) /\ v[s] \in Nat
                   /\ v[s] <= hi
    <2> SUFFICES ASSUME NEW s \in S
                 PROVE  /\ IsFiniteSet(F[s]) /\ F[s] # {} /\ IsFiniteSet(G[s])
                        /\ v[s] = Round(1 * Cardinality(G[s]), Cardinality(F[s])) /\ v[s] \in Nat
                        /\ v[s] <= hi
        OBVIOUS
    <2>1. F[s] \in SUBSET checks /\ F[s] # {} /\ v[s] = Average(F[s]) /\ F[s] \in SUBSET good
        BY <1>4
    <2>2. Time(F[s]) \in Nat /\ Time(F[s]) = Cardinality(G[s]) /\ IsFiniteSet(G[s]) /\ IsFiniteSet(F[s])
        BY <1>7, <2>1, TimeIs, CountIs
    <2>3. v[s] = Round(1 * Cardinality(G[s]), Cardinality(F[s]))
        BY <2>1, <2>2 DEF Average
    <2>4. Average(F[s]) \in Nat /\ Average(F[s]) <= IF {Ms(c) : c \in good} = {} THEN NoValue ELSE hi
        BY <1>4, <2>1, SpreadOf
    <2>5. {Ms(c) : c \in good} # {}
        BY <2>1
    <2> QED
        BY <2>1, <2>2, <2>3, <2>4, <2>5
<1>10. good = {} <=> S = {}
    <2> HIDE DEF good
    <2> QED
        BY <1>4, <1>6 DEF Parts
<1>11. \A s \in S : v[s] \in Int
    <2>1. \A s \in S : v[s] \in Nat
        BY <1>9, Zenon
    <2> QED
        BY <2>1
<1> HIDE DEF top, hi
<1>12. /\ S = {} <=> top = << >>
       /\ S # {} => (\E s \in S : top[1].value = v[s]) /\ \A s \in S : v[s] <= top[1].value
    BY <1>1, <1>5, <1>11, TopOf
<1>13. ASSUME good # {} PROVE top[1].value >= Average(good) /\ top[1].value <= hi
    <2> DEFINE w == top[1].value
    <2>1. w \in Int /\ w <= hi /\ (\A s \in S : v[s] <= w) /\ S # {}
        BY <1>9, <1>10, <1>11, <1>12, <1>13
    <2> HIDE DEF w
    <2>2. \A s \in S : Round(1 * Cardinality(G[s]), Cardinality(F[s])) <= w
        BY <1>9, <2>1
    <2>3. \A s \in S : IsFiniteSet(F[s]) /\ F[s] # {} /\ IsFiniteSet(G[s])
        BY <1>9
    <2>4. Disjoint(F, S) /\ Disjoint(G, S) /\ 1 \in Nat
        BY <1>6, <1>8
    <2>5. Round(1 * Cardinality(Parts(G, S)), Cardinality(Parts(F, S))) <= w
        BY <1>5, <2>1, <2>2, <2>3, <2>4, MeanOfParts, SMTT(60)
    <2>6. Average(good) = Round(1 * Cardinality(Parts(G, S)), Cardinality(Parts(F, S)))
        <3>1. Time(good) \in Nat /\ Time(good) = Cardinality(Parts(G, S))
            BY <1>4, <1>8, TimeIs
        <3> HIDE DEF good
        <3> QED
            BY <1>6, <1>13, <3>1 DEF Average
    <2>7. Average(good) \in Int
        <3>1. Average(good) \in Nat
            BY <1>4, <1>13, SpreadOf
        <3> QED
            BY <3>1
    <2> HIDE DEF good
    <2> QED
        BY <2>1, <2>5, <2>6, <2>7 DEF w
<1> QED
    BY <1>10, <1>12, <1>13 DEF top, hi

-----------------------------------------------------------------------------
(* One answer.                                                             *)

\* For every history, range and set of windows: the queries of one answer about a site, or
\* about all of them, that was not written beneath agree with each other.
THEOREM AnswersAlwaysAgree == Spec => []AnswersAgree
<1>1. AnalyticsInv => AnswersAgree
    <2> SUFFICES ASSUME AnalyticsInv, Asking({"site", "platform"}), Quiet,
                        DOMAIN answer = ToSet(Queries[request.kind])
                 PROVE  AnswersAgree
        BY DEF AnswersAgree
    <2> DEFINE m == request.match
               r == request.range
               t == request.at
               C == InRange(m, r, t)
               good == Successful(C)
               stats == answer["stats"]
               series == answer["series"]
               shares == answer["distribution"]
               uptime == answer["uptime"]
    <2>1. Ordered /\ AnsweredOf
        BY InvIsOrdered
    <2>2. /\ request.kind = "site" \/ request.kind = "platform"
          /\ \A q \in DOMAIN answer : answer[q] = Result(q)
        <3>1. request.kind = "site" \/ request.kind = "platform"
            BY DEF Asking
        <3>2. request.kind # None
            BY <3>1 DEF None
        <3> QED
            BY <2>1, <3>1, <3>2 DEF AnsweredOf
    <2>3. /\ "stats" \in DOMAIN answer /\ "series" \in DOMAIN answer
          /\ "distribution" \in DOMAIN answer /\ "uptime" \in DOMAIN answer
          /\ request.kind = "platform" => "rankings" \in DOMAIN answer
        <3>1. CASE request.kind = "site"
            <4>1. Queries[request.kind] = <<"stats", "downtime", "uptime", "series", "distribution", "timeline">>
                BY <3>1 DEF Queries
            <4> QED
                BY <3>1, <4>1 DEF ToSet
        <3>2. CASE request.kind = "platform"
            <4>1. Queries[request.kind] = <<"stats", "downtime", "uptime", "series", "distribution", "rankings",
                                            "sites", "incidents">>
                BY <3>2 DEF Queries
            <4> QED
                BY <3>2, <4>1 DEF ToSet
        <3> QED
            BY <2>2, <3>1, <3>2
    <2>4. /\ stats = GetSiteStats(m, r, t) /\ series = GetResponseTimeSeries(m, r, t)
          /\ shares = GetStatusDistribution(m, r, t) /\ uptime = CalculateUptimeWindows(m, t)
        <3>1. /\ Result("stats") = GetSiteStats(m, r, t) /\ Result("series") = GetResponseTimeSeries(m, r, t)
              /\ Result("distribution") = GetStatusDistribution(m, r, t)
              /\ Result("uptime") = CalculateUptimeWindows(m, t)
            BY DEF Result
        <3> QED
            BY <2>2, <2>3, <3>1, Zenon
    <2>5. request.kind = "platform" => answer["rankings"] = GetSiteRankings(r, t) /\ m = Sites
        <3>1. Result("rankings") = GetSiteRankings(r, t)
            BY DEF Result
        <3>2. request.kind = "platform" => m = Sites
            BY <2>1 DEF Ordered, HistoryTyped
        <3> QED
            BY <2>2, <2>3, <3>1, <3>2, Zenon
    <2>6. C \in SUBSET checks /\ good \in SUBSET checks /\ t \in Int
        BY <2>1, RangesIn DEF Ordered, HistoryTyped
    <2> HIDE DEF m, r, t
    <2>7. /\ stats.totalChecks = Cardinality(C) /\ stats.failedChecks = Cardinality(C \ good)
          /\ stats.uptime = (IF C = {} THEN 0 ELSE Uptime(C)) /\ stats.avg = Average(good)
          /\ stats.min = (IF {Ms(c) : c \in good} = {} THEN NoValue ELSE Min({Ms(c) : c \in good}))
          /\ stats.max = (IF {Ms(c) : c \in good} = {} THEN NoValue ELSE Max({Ms(c) : c \in good}))
        BY <2>4 DEF GetSiteStats
    <2>8. /\ Cardinality(C) \in Nat /\ (C = {} <=> Cardinality(C) = 0) /\ Cardinality(good) \in Nat
          /\ Cardinality(C) = Cardinality(good) + Cardinality(C \ good) /\ Cardinality(C \ good) \in Nat
          /\ Cardinality(C \ good) = 0 <=> C \ good = {}
        <3>1. C \ good \in SUBSET checks
            BY <2>6
        <3> QED
            BY <2>1, <2>6, <3>1, SplitIs, CountIs
    <2>9. SumFunction(shares) = stats.totalChecks
        BY <2>1, <2>4, <2>7, SharesAddUp
    <2>10. SumFunction([b \in DOMAIN series |-> series[b].count]) = stats.totalChecks - stats.failedChecks
        <3>1. SumFunction([b \in DOMAIN series |-> series[b].count]) = Cardinality(good)
            BY <2>1, <2>4, SeriesAddUp
        <3>2. Cardinality(good) = Cardinality(C) - Cardinality(C \ good)
            BY <2>8
        <3> QED
            BY <2>7, <3>1, <3>2, Zenon
    <2>11. r \in Windows => IF stats.totalChecks = 0 THEN uptime[r] = NoValue ELSE uptime[r] = stats.uptime
        <3>1. r \in Windows => uptime[r] = Uptime(C)
            BY <2>1, <2>4, <2>6, WindowIs
        <3>2. C = {} => Uptime(C) = NoValue
            BY DEF Uptime
        <3> QED
            BY <2>7, <2>8, <3>1, <3>2, Zenon
    <2>12. ASSUME NEW v \in Windows, NEW w \in Windows, v <= w, uptime[w] = NoValue
           PROVE  uptime[v] = NoValue
        <3>1. uptime[v] = Uptime(InRange(m, v, t)) /\ uptime[w] = Uptime(InRange(m, w, t))
            BY <2>1, <2>4, <2>6, WindowIs
        <3>2. InRange(m, v, t) \subseteq InRange(m, w, t)
            BY <2>1, <2>6, <2>12, WiderHolds
        <3>3. InRange(m, w, t) = {}
            <4>1. InRange(m, w, t) # {} => Uptime(InRange(m, w, t)) \in Nat
                BY <2>1, RangesIn, UptimeIs
            <4>2. NoValue \notin Nat
                BY DEF NoValue
            <4> QED
                BY <2>12, <3>1, <4>1, <4>2, Zenon
        <3>4. InRange(m, v, t) = {}
            BY <3>2, <3>3
        <3> QED
            BY <3>1, <3>4 DEF Uptime
    <2>13. stats.avg \in stats.min .. stats.max
        BY <2>1, <2>6, <2>7, SpreadOf
    <2>14. ASSUME NEW b \in DOMAIN series
           PROVE  /\ series[b].avg \in series[b].min .. series[b].max
                  /\ series[b].min >= stats.min /\ series[b].max <= stats.max
        <3> DEFINE S == Bin(r, b, good)
        <3>1. /\ S # {} /\ S \subseteq good /\ series[b].avg = Average(S)
              /\ series[b].min = Min({Ms(c) : c \in S}) /\ series[b].max = Max({Ms(c) : c \in S})
            <4> DEFINE points == GetResponseTimeSeries(m, r, t)
            <4>1. series = points
                BY <2>4
            <4>2. \A d \in DOMAIN points :
                     LET D == Bin(r, d, good)
                     IN  /\ D # {} /\ D \subseteq good
                         /\ points[d].count = Cardinality(D) /\ points[d].avg = Average(D)
                         /\ points[d].min = Min({Ms(c) : c \in D}) /\ points[d].max = Max({Ms(c) : c \in D})
                BY SeriesIs, Zenon
            <4> HIDE DEF points, series, good
            <4> QED
                BY <4>1, <4>2, Zenon
        <3> HIDE DEF S
        <3>2. /\ Average(S) \in Min({Ms(c) : c \in S}) .. Max({Ms(c) : c \in S})
              /\ stats.min <= Min({Ms(c) : c \in S}) /\ Max({Ms(c) : c \in S}) <= stats.max
            BY <2>1, <2>6, <2>7, <3>1, SpreadOf
        <3> QED
            BY <3>1, <3>2
    <2>15. ASSUME request.kind = "platform", \A c \in checks : c.site \in existing
           PROVE  LET top == answer["rankings"]
                  IN  /\ (top.mostReliable = << >>) = (stats.totalChecks = 0)
                      /\ (top.mostFailing = << >>) = (stats.failedChecks = 0)
                      /\ (top.slowest = << >>) = (stats.avg = NoValue)
                      /\ top.mostReliable # << >> => top.mostReliable[1].value >= stats.uptime
                      /\ top.slowest # << >> => /\ top.slowest[1].value >= stats.avg
                                                /\ top.slowest[1].value <= stats.max
        <3> DEFINE top == answer["rankings"]
        <3>1. top = GetSiteRankings(r, t) /\ C = InRange(Sites, r, t)
            BY <2>5, <2>15
        <3> HIDE DEF C, top
        <3>2. /\ C = {} <=> top.mostReliable = << >>
              /\ C # {} => top.mostReliable[1].value >= Uptime(C)
            BY <2>1, <2>15, <3>1, MostReliable, Zenon
        <3>3. top.mostFailing = << >> <=> Cardinality(C \ good) = 0
            BY <2>1, <2>15, <3>1, MostFailing, Zenon
        <3>4. /\ good = {} <=> top.slowest = << >>
              /\ good # {} => /\ top.slowest[1].value >= Average(good)
                              /\ top.slowest[1].value <= Max({Ms(c) : c \in good})
            BY <2>1, <2>15, <3>1, Slowest, Zenon
        <3>5. good = {} <=> stats.avg = NoValue
            BY <2>1, <2>6, <2>7, SpreadOf
        <3>6. good # {} => stats.max = Max({Ms(c) : c \in good})
            BY <2>7
        <3> HIDE DEF good, stats
        <3>7. (top.mostReliable = << >>) = (stats.totalChecks = 0)
            BY <2>7, <2>8, <3>2
        <3>8. (top.mostFailing = << >>) = (stats.failedChecks = 0)
            BY <2>7, <3>3
        <3>9. (top.slowest = << >>) = (stats.avg = NoValue)
            BY <3>4, <3>5
        <3>10. top.mostReliable # << >> => top.mostReliable[1].value >= stats.uptime
            BY <2>7, <3>2
        <3>11. top.slowest # << >> => top.slowest[1].value >= stats.avg /\ top.slowest[1].value <= stats.max
            BY <2>7, <3>4, <3>6
        <3> QED
            BY <3>7, <3>8, <3>9, <3>10, <3>11 DEF top
    <2> QED
        BY <2>9, <2>10, <2>11, <2>12, <2>13, <2>14, <2>15 DEF AnswersAgree, r
<1> QED
    BY <1>1, HistoryInOrder, PTL

-----------------------------------------------------------------------------
(* The orders of a list.                                                   *)

SortedOf(S, before) ==
    {q \in Seq(S) : /\ Len(q) = Cardinality(S)
                    /\ \A m, n \in 1 .. Len(q) : m < n => q[m] # q[n] /\ <<q[n], q[m]>> \notin before}

LEMMA AppendIs ==
    ASSUME NEW S, NEW T, NEW p \in Seq(T), T \subseteq S, NEW x \in S
    PROVE  /\ Append(p, x) \in Seq(S) /\ Len(Append(p, x)) = Len(p) + 1 /\ Len(p) \in Nat
           /\ DOMAIN Append(p, x) = 1 .. Len(p) + 1
           /\ \A i \in 1 .. Len(p) : Append(p, x)[i] = p[i]
           /\ Append(p, x)[Len(p) + 1] = x
<1>1. p \in Seq(S)
    BY SeqMonotonic
<1> QED
    BY <1>1

LEMMA NoneSorted == \A before : SortedOf({}, before) = {<< >>}
<1> SUFFICES ASSUME NEW before PROVE SortedOf({}, before) = {<< >>}
    OBVIOUS
<1>1. Cardinality({}) = 0 /\ << >> \in Seq({}) /\ Len(<< >>) = 0
    BY FS_EmptySet, EmptySeq
<1>2. << >> \in SortedOf({}, before)
    BY <1>1 DEF SortedOf
<1>3. ASSUME NEW q \in SortedOf({}, before) PROVE q = << >>
    <2>1. q \in Seq({}) /\ Len(q) = 0
        BY <1>1 DEF SortedOf
    <2> QED
        BY <2>1, EmptySeq
<1> QED
    BY <1>2, <1>3

\* A last element goes behind the rest, and a sorted list ends in one.
LEMMA AppendSorted ==
    ASSUME NEW S, IsFiniteSet(S), NEW before, NEW x \in S, \A y \in S : <<x, y>> \notin before,
           NEW p \in SortedOf(S \ {x}, before)
    PROVE  Append(p, x) \in SortedOf(S, before)
<1> DEFINE q == Append(p, x)
           k == Len(p)
<1>1. p \in Seq(S \ {x}) /\ k = Cardinality(S \ {x})
    BY DEF SortedOf
<1>2. /\ q \in Seq(S) /\ Len(q) = k + 1 /\ k \in Nat
      /\ (\A i \in 1 .. k : q[i] = p[i]) /\ q[k + 1] = x
    <2> DEFINE U == S \ {x}
    <2>1. U \subseteq S /\ p \in Seq(U)
        BY <1>1
    <2> HIDE DEF q, k, U
    <2>2. /\ Append(p, x) \in Seq(S) /\ Len(Append(p, x)) = Len(p) + 1 /\ Len(p) \in Nat
          /\ \A i \in 1 .. Len(p) : Append(p, x)[i] = p[i]
          /\ Append(p, x)[Len(p) + 1] = x
        BY <2>1, AppendIs
    <2> QED
        BY <2>2, Zenon DEF q, k
<1>3. Cardinality(S) = k + 1
    <2>1. Cardinality(S \ {x}) = Cardinality(S) - 1 /\ Cardinality(S) \in Nat
        BY FS_RemoveElement, FS_CardinalityType
    <2> QED
        BY <1>1, <2>1
<1>4. \A i \in 1 .. k : p[i] \in S \ {x}
    BY <1>1, ElementOfSeq
<1>5. \A m, n \in 1 .. k : m < n => p[m] # p[n] /\ <<p[n], p[m]>> \notin before
    BY DEF SortedOf
<1> HIDE DEF q, k
<1>6. ASSUME NEW m \in 1 .. k + 1, NEW n \in 1 .. k + 1, m < n
      PROVE  q[m] # q[n] /\ <<q[n], q[m]>> \notin before
    <2>1. m \in 1 .. k /\ q[m] = p[m] /\ p[m] \in S \ {x}
        BY <1>2, <1>4, <1>6
    <2>2. CASE n = k + 1
        BY <1>2, <2>1, <2>2
    <2>3. CASE n # k + 1
        <3>1. n \in 1 .. k
            BY <1>2, <2>3
        <3> QED
            BY <1>2, <1>5, <1>6, <2>1, <3>1
    <2> QED
        BY <2>2, <2>3
<1> QED
    BY <1>2, <1>3, <1>6 DEF SortedOf, q

\* A sorted list has every element, and the first of them in front.
LEMMA SortedHits ==
    ASSUME NEW S, IsFiniteSet(S), NEW before, NEW q \in SortedOf(S, before)
    PROVE  /\ Len(q) = Cardinality(S) /\ Cardinality(S) \in Nat
           /\ \A n \in 1 .. Cardinality(S) : q[n] \in S
           /\ \A x \in S : \E n \in 1 .. Cardinality(S) : q[n] = x
           /\ \A n \in 0 .. Cardinality(S) : Cardinality({q[m] : m \in 1 .. n}) = n
           /\ \A m, n \in 1 .. Cardinality(S) : m # n => q[m] # q[n]
<1> DEFINE k == Cardinality(S)
           f == [m \in 1 .. k |-> q[m]]
<1>1. k \in Nat /\ q \in Seq(S) /\ Len(q) = k
    BY FS_CardinalityType DEF SortedOf
<1>2. \A n \in 1 .. k : q[n] \in S
    BY <1>1, ElementOfSeq
<1>3. \A m, n \in 1 .. k : m < n => q[m] # q[n]
    BY <1>1 DEF SortedOf
<1> HIDE DEF k
<1>4. \A m, n \in 1 .. k : m # n => q[m] # q[n]
    <2> SUFFICES ASSUME NEW m \in 1 .. k, NEW n \in 1 .. k, m # n PROVE q[m] # q[n]
        OBVIOUS
    <2>1. m < n \/ n < m
        BY <1>1
    <2> QED
        BY <1>3, <2>1
<1>5. f \in Injection(1 .. k, S)
    BY <1>2, <1>4 DEF Injection, IsInjective
<1>6. IsFiniteSet(1 .. k) /\ Cardinality(1 .. k) = k
    BY <1>1, FS_Interval
<1>7. f \in Surjection(1 .. k, S)
    BY <1>5, <1>6, FS_Injection DEF k
<1>8. \A x \in S : \E n \in 1 .. k : q[n] = x
    BY <1>7 DEF Surjection
<1>9. ASSUME NEW n \in 0 .. k PROVE Cardinality({q[m] : m \in 1 .. n}) = n
    <2> DEFINE g == [m \in 1 .. n |-> q[m]]
               U == {q[m] : m \in 1 .. n}
    <2>1. \A m \in 1 .. n : m \in 1 .. k
        BY <1>1
    <2>2. g \in Injection(1 .. n, U) /\ g \in Surjection(1 .. n, U)
        BY <1>4, <2>1 DEF Injection, IsInjective, Surjection
    <2>3. IsFiniteSet(1 .. n) /\ Cardinality(1 .. n) = n
        BY <1>1, FS_Interval
    <2> HIDE DEF g, U
    <2>4. Cardinality(U) = n
        BY <2>2, <2>3, FS_Surjection
    <2> QED
        BY <2>4 DEF U
<1> QED
    BY <1>1, <1>2, <1>4, <1>8, <1>9 DEF k

LEMMA SortedAppends ==
    ASSUME NEW S, IsFiniteSet(S), S # {}, NEW before, \A x \in S : <<x, x>> \notin before,
           NEW q \in SortedOf(S, before)
    PROVE  \E x \in S : /\ \A y \in S : <<x, y>> \notin before
                        /\ \E p \in SortedOf(S \ {x}, before) : q = Append(p, x)
<1> DEFINE k == Cardinality(S)
           x == q[k]
           p == SubSeq(q, 1, k - 1)
<1>1. /\ Len(q) = k /\ k \in Nat /\ k # 0 /\ q \in Seq(S)
      /\ \A n \in 1 .. k : q[n] \in S
      /\ \A y \in S : \E n \in 1 .. k : q[n] = y
    <2>1. /\ Len(q) = k /\ k \in Nat
          /\ \A n \in 1 .. k : q[n] \in S
          /\ \A y \in S : \E n \in 1 .. k : q[n] = y
        BY SortedHits
    <2>2. k # 0
        BY FS_EmptySet
    <2>3. q \in Seq(S)
        BY DEF SortedOf
    <2> QED
        BY <2>1, <2>2, <2>3
<1>2. \A m, n \in 1 .. k : m < n => q[m] # q[n] /\ <<q[n], q[m]>> \notin before
    BY <1>1 DEF SortedOf
<1> HIDE DEF k, x, p
<1>3. k \in 1 .. k /\ x = q[k] /\ x \in S
    BY <1>1 DEF x
<1>4. ASSUME NEW y \in S PROVE <<x, y>> \notin before
    <2>1. PICK n \in 1 .. k : q[n] = y
        BY <1>1
    <2>2. n = k \/ n < k
        BY <1>1
    <2> QED
        BY <1>2, <1>3, <2>1, <2>2
<1>5. \A i \in 1 .. k - 1 : i \in 1 .. k /\ q[i] \in S \ {x}
    <2> SUFFICES ASSUME NEW i \in 1 .. k - 1 PROVE i \in 1 .. k /\ q[i] \in S \ {x}
        OBVIOUS
    <2>1. i \in 1 .. k /\ i < k
        BY <1>1
    <2> QED
        BY <1>1, <1>2, <1>3, <2>1
<1>6. p \in Seq(S \ {x}) /\ Len(p) = k - 1 /\ \A i \in 1 .. k - 1 : p[i] = q[i]
    <2>1. k - 1 \in Int /\ 1 \in Int
        BY <1>1
    <2>2. /\ p \in Seq(S \ {x}) /\ Len(p) = IF 1 <= k - 1 THEN (k - 1) - 1 + 1 ELSE 0
          /\ \A i \in 1 .. (k - 1) - 1 + 1 : p[i] = q[1 + i - 1]
        BY <1>5, <2>1, SubSeqProperties DEF p
    <2>3. Len(p) = k - 1
        BY <1>1, <2>2
    <2>4. \A i \in 1 .. k - 1 : i \in 1 .. (k - 1) - 1 + 1 /\ 1 + i - 1 = i
        BY <1>1
    <2>5. \A i \in 1 .. k - 1 : p[i] = q[i]
        BY <2>2, <2>4
    <2> QED
        BY <2>2, <2>3, <2>5
<1>7. Cardinality(S \ {x}) = k - 1
    BY <1>3, FS_RemoveElement DEF k
<1>8. p \in SortedOf(S \ {x}, before)
    BY <1>2, <1>5, <1>6, <1>7 DEF SortedOf
<1>9. /\ Append(p, x) \in Seq(S) /\ Len(Append(p, x)) = (k - 1) + 1
      /\ \A i \in 1 .. k - 1 : Append(p, x)[i] = q[i]
      /\ Append(p, x)[(k - 1) + 1] = x
    BY <1>3, <1>6, AppendIs
<1>10. q = Append(p, x)
    <2>1. Len(Append(p, x)) = Len(q)
        BY <1>1, <1>9
    <2>2. ASSUME NEW i \in 1 .. Len(q) PROVE q[i] = Append(p, x)[i]
        <3>1. i \in 1 .. k - 1 \/ (i = (k - 1) + 1 /\ i = k)
            BY <1>1, <2>2
        <3> QED
            BY <1>3, <1>9, <3>1
    <2> QED
        BY <1>1, <1>9, <2>1, <2>2, SeqEqual
<1> QED
    BY <1>3, <1>4, <1>8, <1>10

\* The lists that Orders enumerates for T, when orders gives those of smaller sets.
ListsOf(orders, T, before) ==
    IF T = {} THEN {<< >>}
    ELSE UNION {{Append(q, x) : q \in orders[T \ {x}]} : x \in {y \in T : \A z \in T : <<y, z>> \notin before}}

LEMMA ListedFrom ==
    ASSUME NEW S, IsFiniteSet(S), NEW before, \A x \in S : <<x, x>> \notin before,
           NEW orders, NEW T \in SUBSET S, \A x \in T : orders[T \ {x}] = SortedOf(T \ {x}, before)
    PROVE  ListsOf(orders, T, before) = SortedOf(T, before)
<1>1. IsFiniteSet(T)
    BY FS_Subset
<1>2. CASE T = {}
    BY <1>2, NoneSorted, Zenon DEF ListsOf
<1>3. CASE T # {}
    <2> DEFINE Lasts == {y \in T : \A z \in T : <<y, z>> \notin before}
    <2>1. ListsOf(orders, T, before) = UNION {{Append(q, x) : q \in orders[T \ {x}]} : x \in Lasts}
        BY <1>3 DEF ListsOf
    <2>2. ASSUME NEW q \in SortedOf(T, before) PROVE q \in ListsOf(orders, T, before)
        <3>1. \A x \in T : <<x, x>> \notin before
            OBVIOUS
        <3>2. \E x \in T : /\ \A y \in T : <<x, y>> \notin before
                           /\ \E p \in SortedOf(T \ {x}, before) : q = Append(p, x)
            BY <1>1, <1>3, <2>2, <3>1, SortedAppends
        <3>3. PICK x \in T : /\ \A y \in T : <<x, y>> \notin before
                             /\ \E p \in SortedOf(T \ {x}, before) : q = Append(p, x)
            BY <3>2
        <3>4. PICK p \in orders[T \ {x}] : q = Append(p, x)
            BY <3>3
        <3>5. x \in Lasts
            BY <3>3
        <3>6. q \in {Append(r, x) : r \in orders[T \ {x}]}
            BY <3>4, Zenon
        <3> HIDE DEF Lasts
        <3>7. {Append(r, x) : r \in orders[T \ {x}]} \in {{Append(r, y) : r \in orders[T \ {y}]} : y \in Lasts}
            BY <3>5, Zenon
        <3> QED
            BY <2>1, <3>6, <3>7, Zenon
    <2>3. ASSUME NEW q \in ListsOf(orders, T, before) PROVE q \in SortedOf(T, before)
        <3>1. PICK x \in Lasts : q \in {Append(p, x) : p \in orders[T \ {x}]}
            BY <2>1, <2>3, Zenon
        <3>2. x \in T /\ \A y \in T : <<x, y>> \notin before
            OBVIOUS
        <3>3. PICK p \in SortedOf(T \ {x}, before) : q = Append(p, x)
            BY <3>1, <3>2, Zenon
        <3> QED
            BY <1>1, <3>2, <3>3, AppendSorted, Zenon
    <2> QED
        BY <2>2, <2>3
<1> QED
    BY <1>2, <1>3

\* Orders enumerates the sorted lists.
LEMMA OrdersAre ==
    ASSUME NEW S, IsFiniteSet(S), NEW before, \A x \in S : <<x, x>> \notin before
    PROVE  Orders(S, before) = SortedOf(S, before)
<1> DEFINE f == [T \in SUBSET S |-> SortedOf(T, before)]
           Is(g) == g = [T \in SUBSET S |-> ListsOf(g, T, before)]
           orders == CHOOSE g : Is(g)
<1>1. Is(f)
    <2>1. ASSUME NEW T \in SUBSET S PROVE ListsOf(f, T, before) = SortedOf(T, before)
        <3>1. \A x \in T : f[T \ {x}] = SortedOf(T \ {x}, before)
            OBVIOUS
        <3> HIDE DEF f
        <3> QED
            BY <3>1, ListedFrom
    <2> QED
        BY <2>1
<1>2. Is(orders)
    <2> HIDE DEF Is, f
    <2> QED
        BY <1>1
<1>3. Orders(S, before) = orders[S]
    BY Zenon DEF Orders, ListsOf
<1> HIDE DEF orders
<1> DEFINE U == {T \in SUBSET S : orders[T] = SortedOf(T, before)}
<1>4. ASSUME NEW T \in SUBSET S, \A x \in T : T \ {x} \in U PROVE T \in U
    <2>1. \A x \in T : orders[T \ {x}] = SortedOf(T \ {x}, before)
        BY <1>4
    <2>2. orders[T] = ListsOf(orders, T, before)
        BY <1>2
    <2> HIDE DEF U
    <2>3. ListsOf(orders, T, before) = SortedOf(T, before)
        BY <2>1, ListedFrom
    <2> QED
        BY <2>2, <2>3 DEF U
<1>5. {} \in U
    BY <1>4
<1> HIDE DEF U
<1>6. SUBSET S \subseteq U
    BY <1>4, <1>5, Inward
<1> QED
    BY <1>3, <1>6 DEF U

\* In a list where of any two one comes before the other, an element stands at its rank.
Ordering(S, before) ==
    /\ \A x \in S : <<x, x>> \notin before
    /\ \A x, y \in S : x # y => <<x, y>> \in before \/ <<y, x>> \in before

LEMMA RankIsPlace ==
    ASSUME NEW S, IsFiniteSet(S), NEW before, Ordering(S, before), NEW q \in SortedOf(S, before),
           NEW n \in 1 .. Cardinality(S)
    PROVE  Rank(S, before, q[n]) = n
<1> DEFINE k == Cardinality(S)
           ahead == {y \in S : <<q[n], y>> \notin before}
<1>1. /\ Len(q) = k /\ k \in Nat
      /\ \A m \in 1 .. k : q[m] \in S
      /\ \A y \in S : \E m \in 1 .. k : q[m] = y
      /\ \A m \in 0 .. k : Cardinality({q[i] : i \in 1 .. m}) = m
      /\ \A m, i \in 1 .. k : m # i => q[m] # q[i]
    BY SortedHits
<1>2. \A m, i \in 1 .. k : m < i => <<q[i], q[m]>> \notin before
    BY <1>1 DEF SortedOf
<1> HIDE DEF k
<1>3. n \in 1 .. k
    BY DEF k
<1>4. ASSUME NEW m \in 1 .. k PROVE q[m] \in ahead <=> m <= n
    <2>1. CASE m < n
        BY <1>1, <1>2, <1>3, <2>1
    <2>2. CASE m = n
        BY <1>1, <1>3, <2>2 DEF Ordering
    <2>3. CASE n < m
        <3>1. <<q[m], q[n]>> \notin before /\ q[m] # q[n] /\ q[m] \in S /\ q[n] \in S
            BY <1>1, <1>2, <1>3, <2>3
        <3>2. <<q[n], q[m]>> \in before
            BY <3>1 DEF Ordering
        <3> QED
            BY <1>1, <1>3, <2>3, <3>2
    <2> QED
        BY <1>1, <1>3, <2>1, <2>2, <2>3
<1>5. ahead = {q[i] : i \in 1 .. n}
    <2> HIDE DEF ahead
    <2>1. \A m \in 1 .. k : m \in 1 .. n <=> m <= n
        BY <1>1
    <2>2. \A i \in 1 .. n : i \in 1 .. k
        BY <1>1, <1>3
    <2>3. \A y \in ahead : y \in S
        BY DEF ahead
    <2> QED
        BY <1>1, <1>4, <2>1, <2>2, <2>3
<1>6. n \in 0 .. k
    BY <1>1, <1>3
<1> HIDE DEF ahead
<1>7. Cardinality(ahead) = n
    BY <1>1, <1>5, <1>6
<1> QED
    BY <1>7 DEF ahead, Rank

\* Ranks are places, and where the order is transitive no two elements share one.
LEMMA RankInside ==
    ASSUME NEW S, IsFiniteSet(S), NEW before, NEW x \in S, <<x, x>> \notin before
    PROVE  Rank(S, before, x) \in 1 .. Cardinality(S)
<1> DEFINE ahead == {y \in S : <<x, y>> \notin before}
<1>1. IsFiniteSet(ahead) /\ Cardinality(ahead) <= Cardinality(S)
    BY FS_Subset
<1>2. ahead # {}
    OBVIOUS
<1> HIDE DEF ahead
<1>3. Cardinality(ahead) \in Nat /\ Cardinality(ahead) # 0 /\ Cardinality(S) \in Nat
    BY <1>1, <1>2, FS_EmptySet, FS_CardinalityType
<1>4. Cardinality(ahead) \in 1 .. Cardinality(S)
    BY <1>1, <1>3
<1> QED
    BY <1>4 DEF Rank, ahead

LEMMA RanksDiffer ==
    ASSUME NEW S, IsFiniteSet(S), NEW before, Ordering(S, before),
           \A x, y, z \in S : <<x, y>> \in before /\ <<y, z>> \in before => <<x, z>> \in before,
           NEW x \in S, NEW y \in S, Rank(S, before, x) = Rank(S, before, y)
    PROVE  x = y
<1>1. ASSUME NEW u \in S, NEW v \in S, <<u, v>> \in before PROVE Rank(S, before, u) < Rank(S, before, v)
    <2> DEFINE U == {z \in S : <<u, z>> \notin before}
               V == {z \in S : <<v, z>> \notin before}
    <2>1. IsFiniteSet(U) /\ IsFiniteSet(V)
        BY FS_Subset
    <2>2. U \subseteq V
        BY <1>1
    <2>3. v \in V /\ v \notin U
        BY <1>1 DEF Ordering
    <2>4. U # V
        BY <2>3
    <2> HIDE DEF U, V
    <2>5. Cardinality(U) <= Cardinality(V) /\ Cardinality(U) # Cardinality(V)
        BY <2>1, <2>2, <2>4, FS_Subset
    <2>6. Cardinality(U) \in Nat /\ Cardinality(V) \in Nat
        BY <2>1, FS_CardinalityType
    <2>7. Cardinality(U) < Cardinality(V)
        BY <2>5, <2>6
    <2> QED
        BY <2>7 DEF U, V, Rank
<1>2. Rank(S, before, x) \in 1 .. Cardinality(S) /\ Rank(S, before, y) \in 1 .. Cardinality(S)
    BY RankInside DEF Ordering
<1>3. Cardinality(S) \in Nat
    BY FS_CardinalityType
<1>4. <<x, y>> \notin before /\ <<y, x>> \notin before
    BY <1>1, <1>2, <1>3
<1> QED
    BY <1>4 DEF Ordering

\* In the list of incidents the ongoing ones come first.
LEMMA OngoingFirst ==
    ASSUME IsFiniteSet(incidents), \A i \in incidents : i.status \in {"ACTIVE", "RESOLVED"},
           NEW q \in SortedOf(incidents, ActiveThenNewer), NEW n \in 1 .. Cardinality(incidents)
    PROVE  q[n].status = "ACTIVE" <=> n <= Active
<1> DEFINE k == Cardinality(incidents)
           ongoing == {i \in incidents : i.status = "ACTIVE"}
           Upto(m) == {q[i] : i \in 1 .. m}
<1>1. /\ Len(q) = k /\ k \in Nat
      /\ \A m \in 1 .. k : q[m] \in incidents
      /\ \A y \in incidents : \E m \in 1 .. k : q[m] = y
      /\ \A m \in 0 .. k : Cardinality(Upto(m)) = m
    BY SortedHits
<1>2. \A m, i \in 1 .. k : m < i => <<q[i], q[m]>> \notin ActiveThenNewer
    BY <1>1 DEF SortedOf
<1>3. IsFiniteSet(ongoing) /\ Cardinality(ongoing) \in Nat /\ Active = Cardinality(ongoing)
    BY FS_Subset, FS_CardinalityType DEF Active
<1> HIDE DEF k
<1>4. n \in 1 .. k
    BY DEF k
<1>5. \A m, i \in 1 .. k : m < i /\ q[i].status = "ACTIVE" => q[m].status = "ACTIVE"
    BY <1>1, <1>2 DEF ActiveThenNewer
<1>6. CASE q[n].status = "ACTIVE"
    <2>1. \A i \in 1 .. n : i \in 1 .. k /\ (i < n \/ i = n)
        BY <1>1, <1>4
    <2>2. Upto(n) \subseteq ongoing
        BY <1>1, <1>4, <1>5, <1>6, <2>1
    <2>3. n \in 0 .. k
        BY <1>1, <1>4
    <2> HIDE DEF Upto, ongoing
    <2>4. Cardinality(Upto(n)) = n
        BY <1>1, <2>3
    <2>5. n <= Cardinality(ongoing)
        BY <1>3, <2>2, <2>4, FS_Subset
    <2> QED
        BY <1>3, <1>6, <2>5
<1>7. CASE q[n].status # "ACTIVE"
    <2>1. n - 1 \in 0 .. k /\ n \in Nat
        BY <1>1, <1>4
    <2>2. ASSUME NEW x \in ongoing PROVE x \in Upto(n - 1)
        <3>1. PICK m \in 1 .. k : q[m] = x
            BY <1>1
        <3>2. q[m].status = "ACTIVE"
            BY <3>1
        <3>3. ~(n < m) /\ n # m
            BY <1>4, <1>5, <1>7, <3>2
        <3>4. m \in 1 .. n - 1
            BY <1>1, <1>4, <3>3
        <3> QED
            BY <3>1, <3>4
    <2>3. IsFiniteSet(Upto(n - 1))
        <3>1. Upto(n - 1) \subseteq incidents
            BY <1>1, <1>4
        <3> HIDE DEF Upto
        <3> QED
            BY <3>1, FS_Subset
    <2> HIDE DEF Upto, ongoing
    <2>4. Cardinality(Upto(n - 1)) = n - 1
        BY <1>1, <2>1
    <2>5. Cardinality(ongoing) <= n - 1
        BY <2>2, <2>3, <2>4, FS_Subset
    <2>6. ~(n <= Active)
        BY <1>3, <2>1, <2>5
    <2> QED
        BY <1>7, <2>6
<1> QED
    BY <1>6, <1>7

\* A page is what $skip and $limit leave of a list.
LEMMA PageIs ==
    ASSUME NEW T, NEW list \in Seq(T), NEW skip \in Nat, skip < Len(list)
    PROVE  LET page == Take(SubSeq(list, skip + 1, Len(list)), PageSize)
           IN  /\ page \in Seq(T) /\ Len(page) <= PageSize
               /\ \A k \in 1 .. PageSize : k \in DOMAIN page <=> skip + k <= Len(list)
               /\ \A k \in DOMAIN page : page[k] = list[skip + k]
<1> DEFINE l == Len(list)
           rest == SubSeq(list, skip + 1, l)
           m == IF Len(rest) < PageSize THEN Len(rest) ELSE PageSize
           page == SubSeq(rest, 1, m)
<1>1. l \in Nat /\ \A i \in 1 .. l : list[i] \in T
    BY LenProperties, ElementOfSeq
<1>2. PageSize \in Nat /\ PageSize >= 1
    BY AnalyticsAssumption
<1> HIDE DEF l
<1>3. skip < l
    BY DEF l
<1>4. /\ rest \in Seq(T) /\ Len(rest) = l - skip
      /\ \A i \in 1 .. l - skip : rest[i] = list[skip + i]
    <2>1. skip + 1 \in Int /\ l \in Int /\ skip + 1 <= l /\ l - (skip + 1) + 1 = l - skip
        BY <1>1, <1>3
    <2>2. \A i \in skip + 1 .. l : list[i] \in T
        BY <1>1
    <2>3. /\ rest \in Seq(T) /\ Len(rest) = IF skip + 1 <= l THEN l - (skip + 1) + 1 ELSE 0
          /\ \A i \in 1 .. l - (skip + 1) + 1 : rest[i] = list[skip + 1 + i - 1]
        BY <2>1, <2>2, SubSeqProperties
    <2>4. \A i \in 1 .. l - skip : skip + 1 + i - 1 = skip + i
        BY <1>1
    <2> HIDE DEF rest
    <2> QED
        BY <2>1, <2>3, <2>4
<1> HIDE DEF rest
<1>5. m \in Nat /\ m >= 1 /\ m <= l - skip /\ m <= PageSize /\ (m = l - skip \/ m = PageSize)
    BY <1>1, <1>2, <1>3, <1>4
<1> HIDE DEF m
<1>6. page \in Seq(T) /\ Len(page) = m /\ \A i \in 1 .. m : page[i] = rest[i]
    <2>1. \A i \in 1 .. m : rest[i] \in T
        <3>1. \A i \in 1 .. m : i \in 1 .. Len(rest)
            BY <1>1, <1>4, <1>5
        <3> QED
            BY <1>4, <3>1, ElementOfSeq
    <2>2. 1 \in Int /\ m \in Int /\ 1 <= m /\ m - 1 + 1 = m
        BY <1>5
    <2>3. /\ page \in Seq(T) /\ Len(page) = IF 1 <= m THEN m - 1 + 1 ELSE 0
          /\ \A i \in 1 .. m - 1 + 1 : page[i] = rest[1 + i - 1]
        BY <2>1, <2>2, SubSeqProperties
    <2>4. \A i \in 1 .. m : 1 + i - 1 = i
        BY <1>5
    <2> HIDE DEF page
    <2> QED
        BY <2>2, <2>3, <2>4
<1>7. page = Take(rest, PageSize)
    BY DEF Take, m
<1> HIDE DEF page
<1>8. DOMAIN page = 1 .. m
    BY <1>6, LenProperties
<1>9. \A k \in 1 .. PageSize : k \in 1 .. m <=> skip + k <= l
    BY <1>1, <1>2, <1>5
<1>10. \A k \in 1 .. m : page[k] = list[skip + k]
    <2>1. \A k \in 1 .. m : k \in 1 .. l - skip
        BY <1>1, <1>5
    <2> QED
        BY <1>4, <1>6, <2>1
<1> QED
    BY <1>5, <1>6, <1>7, <1>8, <1>9, <1>10 DEF rest, l

-----------------------------------------------------------------------------
(* The orders of the three lists.                                          *)

LEMMA IdDistinct ==
    /\ \A s \in Sites : Id(s) \in Nat
    /\ \A s, t \in Sites : Id(s) = Id(t) => s = t
<1> DEFINE k == Cardinality(Sites)
           ids == SetToSeq(Sites)
           Is(f) == f \in [1 .. k -> Sites] /\ IsInjective(f)
<1>1. IsFiniteSet(Sites) /\ k \in Nat
    BY AnalyticsAssumption, FS_CardinalityType
<1>2. IsFiniteSet(1 .. k) /\ Cardinality(1 .. k) = k
    BY <1>1, FS_Interval
<1>3. \E f : Is(f)
    <2>1. ExistsBijection(1 .. k, Sites)
        BY <1>1, <1>2, FS_SameCardinalityBij
    <2>2. PICK f : f \in Bijection(1 .. k, Sites)
        BY <2>1 DEF ExistsBijection
    <2>3. Is(f)
        BY <2>2 DEF Bijection, Injection
    <2> QED
        BY <2>3
<1>4. Is(ids)
    <2>1. ids = CHOOSE f \in [1 .. k -> Sites] : IsInjective(f)
        BY DEF SetToSeq
    <2> QED
        BY <1>3, <2>1
<1>5. ids \in Surjection(1 .. k, Sites)
    <2>1. ids \in Injection(1 .. k, Sites)
        BY <1>4 DEF Injection
    <2> HIDE DEF ids
    <2> QED
        BY <1>1, <1>2, <2>1, FS_Injection
<1>6. \A s \in Sites : \E n \in 1 .. k : ids[n] = s
    BY <1>5 DEF Surjection
<1>7. \A s \in Sites : Id(s) = CHOOSE n \in 1 .. k : ids[n] = s
    BY DEF Id
<1> HIDE DEF ids, k
<1>8. ASSUME NEW s \in Sites PROVE Id(s) \in 1 .. k /\ ids[Id(s)] = s
    BY <1>6, <1>7
<1> QED
    BY <1>1, <1>8

LEMMA SeverityIsNumber == \A st \in Statuses : Severity[st] \in Nat
BY DEF Severity, Statuses

LEMMA MoreUrgentOrders ==
    ASSUME existing \subseteq Sites, status \in [Sites -> Statuses]
    PROVE  /\ Ordering(existing, MoreUrgent)
           /\ \A x, y, z \in existing :
                 <<x, y>> \in MoreUrgent /\ <<y, z>> \in MoreUrgent => <<x, z>> \in MoreUrgent
<1> DEFINE Rated(x) == Severity[status[x]]
<1>1. \A x \in existing : Rated(x) \in Nat /\ Id(x) \in Nat
    BY SeverityIsNumber, IdDistinct
<1>2. \A x, y \in existing : Id(x) = Id(y) => x = y
    BY IdDistinct
<1>3. \A x, y \in existing :
          <<x, y>> \in MoreUrgent <=> Rated(x) < Rated(y) \/ (Rated(x) = Rated(y) /\ Id(x) < Id(y))
    BY DEF MoreUrgent
<1> HIDE DEF Rated
<1>4. Ordering(existing, MoreUrgent)
    BY <1>1, <1>2, <1>3 DEF Ordering
<1>5. ASSUME NEW x \in existing, NEW y \in existing, NEW z \in existing,
             <<x, y>> \in MoreUrgent, <<y, z>> \in MoreUrgent
      PROVE  <<x, z>> \in MoreUrgent
    BY <1>1, <1>3, <1>5
<1> QED
    BY <1>4, <1>5

LEMMA NewerOrders ==
    ASSUME checks \subseteq [site : Sites, at : 0 .. now, outcome : Outcomes], now \in Nat, ChecksApart, NEW s
    PROVE  Ordering({c \in checks : c.site = s}, Newer)
<1>1. \A c \in checks : c.at \in Nat
    OBVIOUS
<1>2. \A c, d \in checks : <<c, d>> \in Newer <=> c.at > d.at
    BY DEF Newer
<1>3. \A c, d \in {x \in checks : x.site = s} : c # d => c.at # d.at
    BY DEF ChecksApart
<1> QED
    BY <1>1, <1>2, <1>3 DEF Ordering

LEMMA IncidentsIrreflexive ==
    ASSUME \A i \in incidents : i.start \in Nat
    PROVE  \A i \in incidents : <<i, i>> \notin ActiveThenNewer
BY DEF ActiveThenNewer

-----------------------------------------------------------------------------
(* A page is shown.                                                        *)

LEMMA ReadIs ==
    ASSUME answer \in Seq(Seq(Row))
    PROVE  Len(answer) \in Nat /\ PageSize \in Nat \ {0} /\ Read \in Nat /\ DOMAIN answer = 1 .. Len(answer)
<1>1. Len(answer) \in Nat /\ DOMAIN answer = 1 .. Len(answer)
    BY LenProperties
<1>2. PageSize \in Nat \ {0}
    BY AnalyticsAssumption
<1> QED
    BY <1>1, <1>2 DEF Read

LEMMA PageShown ==
    ASSUME answer \in Seq(Seq(Row)), NEW S, S \subseteq Row, IsFiniteSet(S), NEW before,
           Read < Cardinality(S), NEW list \in SortedOf(S, before),
           answer' = Append(answer, Take(SubSeq(list, Read + 1, Len(list)), PageSize)),
           NEW last, last = Len(answer) + 1
    PROVE  /\ answer' \in Seq(Seq(Row)) /\ Len(answer') = last /\ DOMAIN answer' = 1 .. last
           /\ \A n \in DOMAIN answer : n \in DOMAIN answer' /\ answer'[n] = answer[n]
           /\ \A n \in DOMAIN answer' : n \in DOMAIN answer \/ n = last
           /\ Len(answer'[last]) <= PageSize
           /\ \A k \in 1 .. PageSize : k \in DOMAIN answer'[last] <=> Read + k <= Cardinality(S)
           /\ \A k \in DOMAIN answer'[last] : k \in 1 .. PageSize /\ answer'[last][k] = list[Read + k]
<1> DEFINE page == Take(SubSeq(list, Read + 1, Len(list)), PageSize)
<1>1. Len(answer) \in Nat /\ Read \in Nat /\ DOMAIN answer = 1 .. Len(answer)
    BY ReadIs
<1>2. list \in Seq(Row) /\ Len(list) = Cardinality(S)
    <2>1. list \in Seq(S) /\ Len(list) = Cardinality(S)
        BY DEF SortedOf
    <2> QED
        BY <2>1, SeqMonotonic
<1>3. /\ page \in Seq(Row) /\ Len(page) <= PageSize
      /\ \A k \in 1 .. PageSize : k \in DOMAIN page <=> Read + k <= Len(list)
      /\ \A k \in DOMAIN page : page[k] = list[Read + k]
    BY <1>1, <1>2, PageIs
<1> HIDE DEF page
<1>4. answer' = Append(answer, page)
    BY DEF page
<1>9. \A k \in DOMAIN page : k \in 1 .. PageSize
    <2>1. DOMAIN page = 1 .. Len(page) /\ Len(page) \in Nat /\ PageSize \in Nat
        BY <1>3, LenProperties, AnalyticsAssumption
    <2> QED
        BY <1>3, <2>1
<1>5. /\ answer' \in Seq(Seq(Row)) /\ Len(answer') = last
      /\ \A i \in 1 .. Len(answer) : answer'[i] = answer[i]
      /\ answer'[last] = page
    <2>1. /\ Append(answer, page) \in Seq(Seq(Row)) /\ Len(Append(answer, page)) = Len(answer) + 1
          /\ \A i \in 1 .. Len(answer) : Append(answer, page)[i] = answer[i]
          /\ Append(answer, page)[Len(answer) + 1] = page
        BY <1>3, AppendProperties
    <2> QED
        BY <1>4, <2>1
<1>6. DOMAIN answer' = 1 .. last
    BY <1>5, LenProperties
<1>7. \A n \in 1 .. last : n \in 1 .. Len(answer) \/ n = last
    BY <1>1
<1>8. \A n \in 1 .. Len(answer) : n \in 1 .. last
    BY <1>1
<1> QED
    BY <1>1, <1>2, <1>3, <1>5, <1>6, <1>7, <1>8, <1>9

LEMMA TypedPage ==
    ASSUME PagesTyped, NEW S, S \subseteq Row, IsFiniteSet(S), NEW before,
           Read < Cardinality(S), NEW list \in SortedOf(S, before),
           answer' = Append(answer, Take(SubSeq(list, Read + 1, Len(list)), PageSize))
    PROVE  PagesTyped'
<1>1. answer \in Seq(Seq(Row)) /\ \A n \in DOMAIN answer : Len(answer[n]) <= PageSize
    BY DEF PagesTyped
<1>2. /\ answer' \in Seq(Seq(Row))
      /\ \A n \in DOMAIN answer : answer'[n] = answer[n]
      /\ \A n \in DOMAIN answer' : n \in DOMAIN answer \/ n = Len(answer) + 1
      /\ Len(answer'[Len(answer) + 1]) <= PageSize
    BY <1>1, PageShown
<1>3. \A n \in DOMAIN answer' : Len(answer'[n]) <= PageSize
    BY <1>1, <1>2
<1> QED
    BY <1>2, <1>3 DEF PagesTyped

\* The new page's rows stand where the list has them.
LEMMA SitesPage ==
    ASSUME PagesTyped, SitesInPlace, HistoryTyped, status \in [Sites -> Statuses],
           Read < Cardinality(existing), NEW list \in SortedOf(existing, MoreUrgent),
           answer' = Append(answer, Take(SubSeq(list, Read + 1, Len(list)), PageSize)),
           UNCHANGED <<existing, status>>
    PROVE  SitesInPlace'
<1> DEFINE last == Len(answer) + 1
<1>1. answer \in Seq(Seq(Row)) /\ existing \subseteq Sites /\ IsFiniteSet(existing)
    <2>1. existing \subseteq Sites
        BY DEF HistoryTyped
    <2> QED
        BY <2>1, AnalyticsAssumption, FS_Subset DEF PagesTyped
<1>2. /\ \A n \in DOMAIN answer : n \in DOMAIN answer' /\ answer'[n] = answer[n]
      /\ \A n \in DOMAIN answer' : n \in DOMAIN answer \/ n = last
      /\ \A k \in 1 .. PageSize : k \in DOMAIN answer'[last] <=> Read + k <= Cardinality(existing)
      /\ \A k \in DOMAIN answer'[last] : answer'[last][k] = list[Read + k]
    BY <1>1, PageShown DEF Row
<1>3. Len(answer) \in Nat /\ PageSize \in Nat /\ Read \in Nat
    BY <1>1, ReadIs
<1>4. \A k \in 1 .. PageSize : Place(<<last, k>>) = Read + k
    BY <1>3 DEF Place, Read
<1>5. ASSUME NEW k \in 1 .. PageSize, k \in DOMAIN answer'[last]
      PROVE  list[Read + k] \in existing /\ Rank(existing, MoreUrgent, list[Read + k]) = Read + k
    <2>1. Cardinality(existing) \in Nat
        BY <1>1, FS_CardinalityType
    <2>2. Read + k \in 1 .. Cardinality(existing)
        BY <1>2, <1>3, <1>5, <2>1
    <2>3. list[Read + k] \in existing
        BY <1>1, <2>2, SortedHits, MoreUrgentOrders
    <2> QED
        BY <1>1, <2>2, <2>3, RankIsPlace, MoreUrgentOrders
<1> HIDE DEF last
<1>6. existing' = existing /\ MoreUrgent' = MoreUrgent
    BY DEF MoreUrgent
<1>7. ASSUME NEW n \in DOMAIN answer', NEW k \in 1 .. PageSize
      PROVE  /\ k \in DOMAIN answer'[n] <=> Place(<<n, k>>) <= Cardinality(existing)
             /\ k \in DOMAIN answer'[n] =>
                   /\ answer'[n][k] \in existing
                   /\ Rank(existing, MoreUrgent, answer'[n][k]) = Place(<<n, k>>)
    <2>1. CASE n \in DOMAIN answer
        BY <1>2, <2>1 DEF SitesInPlace
    <2>2. CASE n = last
        BY <1>2, <1>4, <1>5, <2>2
    <2> QED
        BY <1>2, <2>1, <2>2
<1>8. ASSUME NEW n \in DOMAIN answer', NEW k \in 1 .. PageSize
      PROVE  /\ k \in DOMAIN answer'[n] <=> Place(<<n, k>>) <= Cardinality(existing')
             /\ k \in DOMAIN answer'[n] =>
                   /\ answer'[n][k] \in existing'
                   /\ Rank(existing', MoreUrgent', answer'[n][k]) = Place(<<n, k>>)
    BY <1>6, <1>7, Zenon
<1> QED
    BY <1>8 DEF SitesInPlace, Rank, Place

LEMMA OngoingPage ==
    ASSUME PagesTyped, OngoingInFront, HistoryTyped, Read < Cardinality(incidents),
           NEW list \in SortedOf(incidents, ActiveThenNewer),
           answer' = Append(answer, Take(SubSeq(list, Read + 1, Len(list)), PageSize)),
           UNCHANGED incidents
    PROVE  OngoingInFront'
<1> DEFINE last == Len(answer) + 1
<1>1. answer \in Seq(Seq(Row)) /\ IsFiniteSet(incidents) /\ incidents \subseteq Row
    BY DEF HistoryTyped, PagesTyped, Row
<1>2. /\ \A n \in DOMAIN answer : n \in DOMAIN answer' /\ answer'[n] = answer[n]
      /\ \A n \in DOMAIN answer' : n \in DOMAIN answer \/ n = last
      /\ \A k \in 1 .. PageSize : k \in DOMAIN answer'[last] <=> Read + k <= Cardinality(incidents)
      /\ \A k \in DOMAIN answer'[last] : k \in 1 .. PageSize /\ answer'[last][k] = list[Read + k]
    BY <1>1, PageShown
<1>3. Len(answer) \in Nat /\ PageSize \in Nat /\ Read \in Nat /\ Cardinality(incidents) \in Nat
    BY <1>1, ReadIs, FS_CardinalityType
<1>4. \A k \in 1 .. PageSize : Place(<<last, k>>) = Read + k
    BY <1>3 DEF Place, Read
<1>5. ASSUME NEW k \in DOMAIN answer'[last]
      PROVE  answer'[last][k].status = "ACTIVE" <=> Place(<<last, k>>) <= Active
    <2>1. k \in 1 .. PageSize /\ Read + k <= Cardinality(incidents)
        BY <1>2
    <2>2. Read + k \in 1 .. Cardinality(incidents)
        BY <1>3, <2>1
    <2>3. \A i \in incidents : i.status \in {"ACTIVE", "RESOLVED"}
        BY DEF HistoryTyped
    <2>4. list[Read + k].status = "ACTIVE" <=> Read + k <= Active
        BY <1>1, <2>2, <2>3, OngoingFirst
    <2> QED
        BY <1>2, <1>4, <2>1, <2>4
<1> HIDE DEF last
<1>6. Active' = Active
    BY DEF Active
<1>7. ASSUME NEW n \in DOMAIN answer', NEW k \in DOMAIN answer'[n]
      PROVE  answer'[n][k].status = "ACTIVE" <=> Place(<<n, k>>) <= Active
    <2>1. CASE n \in DOMAIN answer
        BY <1>2, <1>7, <2>1 DEF OngoingInFront
    <2>2. CASE n = last
        BY <1>5, <1>7, <2>2
    <2> QED
        BY <1>2, <2>1, <2>2
<1>8. ASSUME NEW n \in DOMAIN answer', NEW k \in DOMAIN answer'[n]
      PROVE  answer'[n][k].status = "ACTIVE" <=> Place(<<n, k>>) <= Active'
    BY <1>6, <1>7, <1>8, Zenon
<1> QED
    BY <1>8 DEF OngoingInFront, Place

\* Among checks the rank is the number of those not older.
NewerIn(C)     == {p \in C \X C : p[1].at > p[2].at}
NotOlder(L, c) == {y \in L : c.at <= y.at}

LEMMA RankOfCheck ==
    ASSUME NEW C, \A x \in C : x.at \in Nat, NEW L \in SUBSET C, NEW c \in L
    PROVE  Rank(L, NewerIn(C), c) = Cardinality(NotOlder(L, c))
<1>1. \A y \in L : <<c, y>> \notin NewerIn(C) <=> c.at <= y.at
    BY DEF NewerIn
<1>2. {y \in L : <<c, y>> \notin NewerIn(C)} = NotOlder(L, c)
    BY <1>1 DEF NotOlder
<1> QED
    BY <1>2, Zenon DEF Rank

LEMMA ListedChecks ==
    ASSUME request.kind = "checkHistory", NEW s, request.match = {s}
    PROVE  Listed = {c \in checks : c.site = s}
<1>1. Listed = {c \in checks : c.site \in request.match}
    BY DEF Listed
<1> QED
    BY <1>1

LEMMA ChecksPage ==
    ASSUME Ordered, ChecksApart, PagesTyped, OldChecksToCome, NEW s, request.kind = "checkHistory",
           request.match = {s}, Read < Cardinality(Listed), NEW list \in SortedOf(Listed, Newer),
           answer' = Append(answer, Take(SubSeq(list, Read + 1, Len(list)), PageSize)),
           UNCHANGED <<checks, request>>
    PROVE  OldChecksToCome'
<1> DEFINE last == Len(answer) + 1
           L == {c \in checks : c.site = s}
<1>1. Listed = L /\ L \subseteq checks
    BY ListedChecks
<1>2. /\ now \in Nat /\ checks \subseteq [site : Sites, at : 0 .. now, outcome : Outcomes]
      /\ IsFiniteSet(checks)
    BY ChecksFinite DEF Ordered, HistoryTyped
<1>3. /\ answer \in Seq(Seq(Row)) /\ IsFiniteSet(L) /\ L \subseteq Row /\ Cardinality(L) \in Nat
      /\ Ordering(L, Newer)
    <2>1. IsFiniteSet(L) /\ Cardinality(L) \in Nat
        BY <1>1, <1>2, FS_Subset, FS_CardinalityType
    <2>2. Ordering(L, Newer)
        BY <1>2, NewerOrders
    <2>3. L \subseteq Row
        BY <1>2 DEF Row
    <2>4. answer \in Seq(Seq(Row))
        BY DEF PagesTyped
    <2> HIDE DEF L
    <2> QED
        BY <2>1, <2>2, <2>3, <2>4
<1> HIDE DEF L
<1>4. list \in SortedOf(L, Newer) /\ Read < Cardinality(L)
    BY <1>1
<1>5. /\ Len(answer') = last
      /\ \A n \in DOMAIN answer : n \in DOMAIN answer' /\ answer'[n] = answer[n]
      /\ DOMAIN answer' = 1 .. last
      /\ \A k \in 1 .. PageSize : k \in DOMAIN answer'[last] <=> Read + k <= Cardinality(L)
      /\ \A k \in DOMAIN answer'[last] : answer'[last][k] = list[Read + k]
    <2>1. answer' = Append(answer, Take(SubSeq(list, Read + 1, Len(list)), PageSize)) /\ last = Len(answer) + 1
        OBVIOUS
    <2> HIDE DEF last
    <2>2. /\ answer' \in Seq(Seq(Row)) /\ Len(answer') = last /\ DOMAIN answer' = 1 .. last
          /\ \A n \in DOMAIN answer : n \in DOMAIN answer' /\ answer'[n] = answer[n]
          /\ \A n \in DOMAIN answer' : n \in DOMAIN answer \/ n = last
          /\ Len(answer'[last]) <= PageSize
          /\ \A k \in 1 .. PageSize : k \in DOMAIN answer'[last] <=> Read + k <= Cardinality(L)
          /\ \A k \in DOMAIN answer'[last] : k \in 1 .. PageSize /\ answer'[last][k] = list[Read + k]
        BY <1>3, <1>4, <2>1, PageShown
    <2> QED
        BY <2>2
<1>6. Len(answer) \in Nat /\ PageSize \in Nat /\ Read \in Nat
    BY <1>3, ReadIs
<1>7. Read' = Read + PageSize /\ last \in DOMAIN answer'
    BY <1>5, <1>6 DEF Read
<1> HIDE DEF last
<1>8. Listed' = L /\ Newer' = Newer /\ request' = request
    BY <1>1 DEF Listed, Newer
<1>9. ASSUME NEW c \in L, c.at < request.at
      PROVE  \/ \E n \in DOMAIN answer' : \E k \in DOMAIN answer'[n] : answer'[n][k] = c
             \/ Rank(L, Newer, c) > Read'
    <2>1. CASE \E n \in DOMAIN answer : \E k \in DOMAIN answer[n] : answer[n][k] = c
        BY <1>5, <2>1
    <2>2. CASE Rank(L, Newer, c) > Read
        <3>1. PICK m \in 1 .. Cardinality(L) : list[m] = c
            BY <1>3, <1>4, SortedHits DEF Ordering
        <3>2. Rank(L, Newer, c) = m
            BY <1>3, <1>4, <3>1, RankIsPlace
        <3>3. CASE m > Read + PageSize
            BY <1>7, <3>2, <3>3
        <3>4. CASE ~(m > Read + PageSize)
            <4>1. m - Read \in 1 .. PageSize /\ Read + (m - Read) = m /\ m <= Cardinality(L)
                BY <1>3, <1>6, <2>2, <3>2, <3>4
            <4>2. m - Read \in DOMAIN answer'[last]
                BY <1>5, <4>1
            <4>3. answer'[last][m - Read] = c
                BY <1>5, <3>1, <4>1, <4>2
            <4> QED
                BY <1>7, <4>2, <4>3
        <3> QED
            BY <3>3, <3>4
    <2> QED
        BY <1>1, <1>9, <2>1, <2>2 DEF OldChecksToCome
<1>10. \A c : Rank(Listed', Newer', c) = Rank(L, Newer, c)
    BY <1>8
<1>11. \A c \in Listed' : c.at < request'.at =>
          \/ \E n \in DOMAIN answer' : \E k \in DOMAIN answer'[n] : answer'[n][k] = c
          \/ Rank(Listed', Newer', c) > Read'
    BY <1>8, <1>9, <1>10, Zenon
<1> QED
    BY <1>11, Zenon DEF OldChecksToCome, Rank

-----------------------------------------------------------------------------
(* The lists, step by step.                                                *)

LEMMA InitLists == Init => ListingInv
<1> SUFFICES ASSUME Init PROVE ListingInv
    OBVIOUS
<1>1. request.kind = None /\ None \notin Lists /\ None # "checkHistory"
    BY DEF Init, Idle, None, Lists
<1>2. status \in [Sites -> Statuses] /\ ChecksApart
    <2>1. CASE Unseeded
        BY <2>1 DEF Unseeded, Statuses, ChecksApart
    <2>2. CASE Seeded
        <3>1. PICK s \in DemoSites, failed \in SeedDraws, final \in Finals :
                  /\ checks = SeedChecks(s, failed, final)
                  /\ status = [x \in Sites |-> IF x = s THEN SeedStatus(final) ELSE "UNKNOWN"]
            BY <2>2, Zenon DEF Seeded
        <3>2. SeedStatus(final) \in Statuses /\ "UNKNOWN" \in Statuses
            BY DEF SeedStatus, StatusAfter, Statuses
        <3>3. status \in [Sites -> Statuses]
            BY <3>1, <3>2
        <3>4. ChecksApart
            BY <3>1 DEF SeedChecks, ChecksApart
        <3> QED
            BY <3>3, <3>4
    <2> QED
        BY <2>1, <2>2 DEF Init
<1> QED
    BY <1>1, <1>2 DEF ListingInv, ListsInOrder, Asking

LEMMA SitesStay == ASSUME UNCHANGED <<existing, status, answer>>, SitesInPlace PROVE SitesInPlace'
<1>1. MoreUrgent' = MoreUrgent
    BY DEF MoreUrgent
<1>2. \A x : Rank(existing', MoreUrgent', x) = Rank(existing, MoreUrgent, x)
    BY <1>1
<1>3. \A n \in DOMAIN answer', k \in 1 .. PageSize :
          /\ k \in DOMAIN answer'[n] <=> Place(<<n, k>>) <= Cardinality(existing')
          /\ k \in DOMAIN answer'[n] =>
                answer'[n][k] \in existing' /\ Rank(existing', MoreUrgent', answer'[n][k]) = Place(<<n, k>>)
    BY <1>2, Zenon DEF SitesInPlace
<1> QED
    BY <1>3, Zenon DEF SitesInPlace, Rank, Place

LEMMA OngoingStays == ASSUME UNCHANGED <<incidents, answer>>, OngoingInFront PROVE OngoingInFront'
<1>1. Active' = Active
    BY DEF Active
<1> QED
    BY <1>1, Zenon DEF OngoingInFront, Place

\* Checks that come are not old ones, and push the others towards the end; others may go
\* with their site.
LEMMA ChecksCome ==
    ASSUME Ordered, Ordered', request.at <= now, request.kind = "checkHistory",
           PagesTyped, OldChecksToCome, NEW s, request.match = {s}, UNCHANGED <<request, answer>>, IsFiniteSet(checks'),
           \A c \in checks' : c \in checks \/ c.at = now,
           (\A c \in checks : c.site = s => c \in checks') \/ (\A c \in checks' : c.site # s)
    PROVE  OldChecksToCome'
<1> DEFINE L == {c \in checks : c.site = s}
           M == {c \in checks' : c.site = s}
<1>1. Listed = L /\ Listed' = M
    BY DEF Listed
<1>2. Newer = NewerIn(checks) /\ Newer' = NewerIn(checks')
    BY DEF Newer, NewerIn
<1>3. /\ now \in Nat /\ request.at \in Nat
      /\ \A c \in checks : c.at \in Nat
      /\ \A c \in checks' : c.at \in Nat
    BY DEF Ordered, HistoryTyped
<1>4. IsFiniteSet(M)
    BY FS_Subset
<1>5. L \in SUBSET checks /\ M \in SUBSET checks'
    OBVIOUS
<1>6. ASSUME NEW c \in M, c.at < request.at
      PROVE  \/ \E n \in DOMAIN answer : \E k \in DOMAIN answer[n] : answer[n][k] = c
             \/ Rank(M, NewerIn(checks'), c) > Read
    <2>1. c \in L /\ L \subseteq M
        BY <1>3, <1>6
    <2> DEFINE U == NotOlder(L, c)
               V == NotOlder(M, c)
    <2>2. U \subseteq V
        BY <2>1 DEF NotOlder
    <2>3. IsFiniteSet(V)
        BY <1>4, FS_Subset DEF NotOlder
    <2> HIDE DEF L, M
    <2>4. Rank(L, Newer, c) = Cardinality(U)
        BY <1>2, <1>3, <1>5, <2>1, RankOfCheck
    <2>5. Rank(M, NewerIn(checks'), c) = Cardinality(V)
        BY <1>3, <1>5, <1>6, RankOfCheck
    <2> HIDE DEF U, V
    <2>6. Cardinality(U) <= Cardinality(V) /\ Cardinality(U) \in Nat /\ Cardinality(V) \in Nat
        BY <2>2, <2>3, FS_Subset, FS_CardinalityType
    <2>7. \/ \E n \in DOMAIN answer : \E k \in DOMAIN answer[n] : answer[n][k] = c
          \/ Cardinality(U) > Read
        BY <1>1, <1>6, <2>1, <2>4 DEF OldChecksToCome
    <2>8. Read \in Nat
        BY ReadIs DEF PagesTyped
    <2> QED
        BY <2>5, <2>6, <2>7, <2>8
<1> HIDE DEF L, M
<1>7. Read' = Read /\ answer' = answer /\ request' = request
    BY DEF Read
<1>8. \A c \in Listed' : c.at < request'.at =>
          \/ \E n \in DOMAIN answer' : \E k \in DOMAIN answer'[n] : answer'[n][k] = c
          \/ Rank(Listed', Newer', c) > Read'
    BY <1>1, <1>2, <1>6, <1>7, Zenon
<1> QED
    BY <1>8, Zenon DEF OldChecksToCome, Rank

LEMMA ListsStay ==
    ASSUME ListsInOrder, UNCHANGED <<existing, status, checks, incidents, request, answer, writes>>
    PROVE  ListsInOrder'
<1>1. Asking(Lists)' = Asking(Lists) /\ Quiet' = Quiet
    BY DEF Asking, Quiet
<1>2. PagesTyped => PagesTyped'
    BY DEF PagesTyped
<1>3. OldChecksToCome => OldChecksToCome'
    <2>1. Listed' = Listed /\ Newer' = Newer /\ Read' = Read
        BY DEF Listed, Newer, Read
    <2>2. \A c : Rank(Listed', Newer', c) = Rank(Listed, Newer, c)
        BY <2>1
    <2>3. ASSUME OldChecksToCome
          PROVE  \A c \in Listed' : c.at < request'.at =>
                     \/ \E n \in DOMAIN answer' : \E k \in DOMAIN answer'[n] : answer'[n][k] = c
                     \/ Rank(Listed', Newer', c) > Read'
        BY <2>1, <2>2, <2>3, Zenon DEF OldChecksToCome
    <2> QED
        BY <2>3, Zenon DEF OldChecksToCome, Rank
<1>4. (SitesInPlace => SitesInPlace') /\ (OngoingInFront => OngoingInFront')
    BY SitesStay, OngoingStays
<1> QED
    BY <1>1, <1>2, <1>3, <1>4, Zenon DEF ListsInOrder

\* A write while a list is read: only of the checks something is still promised.
LEMMA ListsWritten ==
    ASSUME Ordered, Ordered', ListingInv, request' = request, answer' = answer,
           writes' = IF request = Idle THEN 0 ELSE writes + 1, IsFiniteSet(checks'),
           \A c \in checks' : c \in checks \/ c.at = now,
           \A s \in Sites : \/ \A c \in checks : c.site = s => c \in checks'
                            \/ \A c \in checks' : c.site # s
    PROVE  ListsInOrder'
<1> SUFFICES ASSUME Asking(Lists)'
             PROVE  /\ PagesTyped'
                    /\ ~(Quiet')
                    /\ request'.kind = "checkHistory" => OldChecksToCome'
    BY Zenon DEF ListsInOrder
<1>1. Asking(Lists) /\ request.kind \in Lists
    BY Zenon DEF Asking
<1>2. request.kind # None
    BY <1>1 DEF Lists, None
<1>3. ~(Quiet')
    <2>1. request # Idle
        BY <1>2 DEF Idle
    <2>2. writes \in Nat
        BY DEF Ordered, HistoryTyped
    <2> QED
        BY <2>1, <2>2 DEF Quiet
<1>4. PagesTyped /\ (request.kind = "checkHistory" => OldChecksToCome)
    BY <1>1, Zenon DEF ListingInv, ListsInOrder
<1>5. PagesTyped'
    BY <1>4 DEF PagesTyped
<1>6. ASSUME request.kind = "checkHistory" PROVE OldChecksToCome'
    <2>1. PICK s \in Sites : request.match = {s}
        BY <1>6, Zenon DEF ListingInv
    <2>2. request.at <= now
        BY <1>2, Zenon DEF ListingInv
    <2>3. (\A c \in checks : c.site = s => c \in checks') \/ (\A c \in checks' : c.site # s)
        OBVIOUS
    <2> QED
        BY <1>4, <1>6, <2>1, <2>2, <2>3, ChecksCome
<1> QED
    BY <1>3, <1>5, <1>6

LEMMA PageInOrder ==
    ASSUME Ordered, ListingInv, ListPage
    PROVE  ListsInOrder'
<1>1. /\ request.kind \in Lists /\ Asking(Lists) /\ Read < Cardinality(Listed)
      /\ UNCHANGED <<existing, status, checks, incidents, request, writes>>
    BY Zenon DEF ListPage, Asking, history
<1>2. PICK list \in SortedLists : answer' = Append(answer, Take(SubSeq(list, Read + 1, Len(list)), PageSize))
    BY Zenon DEF ListPage
<1>3. /\ PagesTyped
      /\ request.kind = "listSites" /\ Quiet => SitesInPlace
      /\ request.kind = "listIncidents" /\ Quiet => OngoingInFront
      /\ request.kind = "checkHistory" => OldChecksToCome
    BY <1>1, Zenon DEF ListingInv, ListsInOrder
<1>4. Quiet' = Quiet
    BY <1>1 DEF Quiet
<1>5. /\ existing \subseteq Sites /\ IsFiniteSet(existing) /\ IsFiniteSet(incidents) /\ IsFiniteSet(checks)
      /\ now \in Nat /\ checks \subseteq [site : Sites, at : 0 .. now, outcome : Outcomes]
      /\ incidents \subseteq Row /\ existing \subseteq Row
    <2>1. existing \subseteq Sites /\ IsFiniteSet(existing)
        BY AnalyticsAssumption, FS_Subset DEF Ordered, HistoryTyped
    <2> QED
        BY <2>1, ChecksFinite DEF Ordered, HistoryTyped, Row
<1>6. CASE request.kind = "listSites"
    <2>1. Listed = existing /\ SortedLists = Orders(existing, MoreUrgent)
        BY <1>6 DEF Listed, SortedLists
    <2>2. status \in [Sites -> Statuses]
        BY DEF ListingInv
    <2>3. list \in SortedOf(existing, MoreUrgent) /\ Read < Cardinality(existing)
        <3>1. \A x \in existing : <<x, x>> \notin MoreUrgent
            BY <1>5, <2>2, MoreUrgentOrders DEF Ordering
        <3>2. Orders(existing, MoreUrgent) = SortedOf(existing, MoreUrgent)
            BY <1>5, <3>1, OrdersAre
        <3> QED
            BY <1>1, <1>2, <2>1, <3>2
    <2>4. PagesTyped'
        BY <1>2, <1>3, <1>5, <2>3, TypedPage
    <2>5. SitesInPlace => SitesInPlace'
        BY <1>1, <1>2, <1>3, <2>2, <2>3, SitesPage DEF Ordered
    <2> QED
        BY <1>1, <1>3, <1>4, <1>6, <2>4, <2>5 DEF ListsInOrder
<1>7. CASE request.kind = "listIncidents"
    <2>1. Listed = incidents /\ SortedLists = Orders(incidents, ActiveThenNewer)
        BY <1>7 DEF Listed, SortedLists
    <2>2. list \in SortedOf(incidents, ActiveThenNewer) /\ Read < Cardinality(incidents)
        <3>1. \A i \in incidents : i.start \in Nat
            BY DEF Ordered, HistoryTyped
        <3>2. \A x \in incidents : <<x, x>> \notin ActiveThenNewer
            BY <3>1, IncidentsIrreflexive
        <3>3. Orders(incidents, ActiveThenNewer) = SortedOf(incidents, ActiveThenNewer)
            BY <1>5, <3>2, OrdersAre
        <3> QED
            BY <1>1, <1>2, <2>1, <3>3
    <2>3. PagesTyped'
        BY <1>2, <1>3, <1>5, <2>2, TypedPage
    <2>4. OngoingInFront => OngoingInFront'
        BY <1>1, <1>2, <1>3, <2>2, OngoingPage DEF Ordered
    <2> QED
        BY <1>1, <1>3, <1>4, <1>7, <2>3, <2>4 DEF ListsInOrder
<1>8. CASE request.kind = "checkHistory"
    <2>1. PICK s \in Sites : request.match = {s}
        BY <1>8, Zenon DEF ListingInv
    <2> DEFINE L == {c \in checks : c.site = s}
    <2>2. Listed = L /\ SortedLists = Orders(Listed, Newer)
        BY <1>8, <2>1, ListedChecks DEF SortedLists
    <2>3. IsFiniteSet(L) /\ Ordering(L, Newer) /\ L \subseteq Row
        <3>1. IsFiniteSet(L)
            BY <1>5, FS_Subset
        <3>2. Ordering(L, Newer)
            BY <1>5, NewerOrders DEF ListingInv
        <3>3. L \subseteq Row
            BY <1>5 DEF Row
        <3> HIDE DEF L
        <3> QED
            BY <3>1, <3>2, <3>3
    <2> HIDE DEF L
    <2>4. list \in SortedOf(L, Newer) /\ Read < Cardinality(L)
        <3>1. \A x \in L : <<x, x>> \notin Newer
            BY <2>3 DEF Ordering
        <3>2. Orders(L, Newer) = SortedOf(L, Newer)
            BY <2>3, <3>1, OrdersAre
        <3> QED
            BY <1>1, <1>2, <2>2, <3>2
    <2>5. PagesTyped'
        BY <1>2, <1>3, <2>3, <2>4, TypedPage
    <2>6. OldChecksToCome'
        BY <1>1, <1>2, <1>3, <1>8, <2>1, <2>2, <2>4, ChecksPage DEF ListingInv
    <2> QED
        BY <1>1, <1>8, <2>5, <2>6 DEF ListsInOrder
<1> QED
    BY <1>1, <1>6, <1>7, <1>8 DEF Lists

LEMMA AskedLists ==
    ASSUME Ordered, ListingInv, NEW k, NEW m, NEW r, Asked(k, m, r),
           k = "checkHistory" => \E s \in Sites : m = {s}
    PROVE  ListingInv'
<1>1. /\ request' = [kind |-> k, match |-> m, range |-> r, at |-> now]
      /\ answer' = << >> /\ UNCHANGED <<now, existing, status, failures, checks, incidents>>
    BY Zenon DEF Asked, history
<1>2. request'.kind = k /\ request'.match = m /\ request'.at = now
    BY <1>1
<1>3. now \in Nat /\ \A c \in checks : c.at \in Nat
    BY DEF Ordered, HistoryTyped
<1>4. PagesTyped' /\ SitesInPlace' /\ OngoingInFront'
    <2>1. << >> \in Seq(Seq(Row)) /\ DOMAIN << >> = {}
        BY EmptySeq
    <2> QED
        BY <1>1, <2>1 DEF PagesTyped, SitesInPlace, OngoingInFront
<1>5. k = "checkHistory" => OldChecksToCome'
    <2> SUFFICES ASSUME k = "checkHistory", NEW c \in Listed'
                 PROVE  Rank(Listed', Newer', c) > Read'
        BY Zenon DEF OldChecksToCome, Rank
    <2>1. Listed' = {d \in checks : d.site \in m}
        BY <1>1, <1>2 DEF Listed
    <2>2. c \in checks /\ IsFiniteSet(Listed')
        BY <2>1, ChecksFinite, FS_Subset
    <2>3. <<c, c>> \notin Newer'
        BY <1>1, <1>3, <2>2 DEF Newer
    <2>4. Rank(Listed', Newer', c) \in 1 .. Cardinality(Listed')
        BY <2>2, <2>3, RankInside
    <2>5. Read' = 0
        BY <1>1, AnalyticsAssumption DEF Read
    <2>6. Cardinality(Listed') \in Nat
        BY <2>2, FS_CardinalityType
    <2> QED
        BY <2>4, <2>5, <2>6
<1>6. ListsInOrder'
    BY <1>2, <1>4, <1>5, Zenon DEF ListsInOrder
<1>7. status' \in [Sites -> Statuses] /\ ChecksApart'
    BY <1>1 DEF ListingInv, ChecksApart
<1>8. now' = now /\ now <= now
    BY <1>1, <1>3
<1> QED
    BY <1>2, <1>6, <1>7, <1>8 DEF ListingInv

LEMMA ListingKept == Ordered /\ Ordered' /\ ListingInv /\ [Next]_vars => ListingInv'
<1> SUFFICES ASSUME Ordered, Ordered', ListingInv, [Next]_vars PROVE ListingInv'
    OBVIOUS
<1>1. /\ now \in Nat /\ request.at \in Nat /\ IsFiniteSet(checks)
      /\ checks \subseteq [site : Sites, at : 0 .. now, outcome : Outcomes]
    BY ChecksFinite DEF Ordered, HistoryTyped
<1>2. /\ status \in [Sites -> Statuses] /\ ChecksApart /\ ListsInOrder
      /\ request.kind # None => request.at <= now
      /\ request.kind = "checkHistory" => \E s \in Sites : request.match = {s}
    BY DEF ListingInv
<1>3. CASE Tick \/ UNCHANGED vars
    <2>1. /\ UNCHANGED <<existing, status, checks, incidents, request, answer, writes>>
          /\ now' = now + 1 \/ now' = now
        BY <1>3 DEF Tick, vars, history
    <2>2. ListsInOrder'
        BY <1>2, <2>1, ListsStay
    <2>3. request.kind # None => request.at <= now'
        BY <1>1, <1>2, <2>1
    <2>4. ChecksApart'
        BY <1>2, <2>1 DEF ChecksApart
    <2> QED
        BY <1>2, <2>1, <2>2, <2>3, <2>4 DEF ListingInv
<1>4. ASSUME NEW c \in Checkers, NEW o \in Probed, Record(c, o) PROVE ListingInv'
    <2> DEFINE s   == check[c].site
               new == [site |-> s, at |-> now, outcome |-> o]
    <2>1. /\ checks' = checks \union {new} /\ UNCHANGED <<now, status, request, answer>>
          /\ writes' = IF request = Idle THEN 0 ELSE writes + 1
          /\ \A d \in checks : d.site # s \/ d.at # now
        BY <1>4, Zenon DEF Record, Writing
    <2>2. new.at = now /\ new.site = s
        OBVIOUS
    <2> HIDE DEF new, s
    <2>3. IsFiniteSet(checks')
        BY <1>1, <2>1, FS_AddElement
    <2>4. ListsInOrder'
        BY <2>1, <2>2, <2>3, ListsWritten
    <2>5. ChecksApart'
        BY <1>2, <2>1, <2>2 DEF ChecksApart
    <2> QED
        BY <1>2, <2>1, <2>4, <2>5 DEF ListingInv
<1>10. ASSUME NEW c \in Checkers, Resolve(c) \/ Open(c) \/ Update(c) PROVE ListingInv'
    <2>1. /\ checks' = checks /\ UNCHANGED <<now, request, answer>>
          /\ writes' = IF request = Idle THEN 0 ELSE writes + 1
        BY <1>10, Zenon DEF Resolve, Open, Update, Writing
    <2>2. status' \in [Sites -> Statuses]
        <3>1. CASE Resolve(c) \/ Open(c)
            BY <1>2, <3>1 DEF Resolve, Open
        <3>2. CASE Update(c)
            BY <1>2, <3>2 DEF Update, StatusAfter, Statuses
        <3> QED
            BY <1>10, <3>1, <3>2
    <2>3. ListsInOrder'
        BY <1>1, <2>1, ListsWritten
    <2>4. ChecksApart'
        BY <1>2, <2>1 DEF ChecksApart
    <2> QED
        BY <1>2, <2>1, <2>2, <2>3, <2>4 DEF ListingInv
<1>11. ASSUME NEW c \in Checkers,
              (\E s \in Sites : Snapshot(c, s)) \/ FindsIncident(c) \/ FindsNone(c) \/ Interrupted(c)
       PROVE  ListingInv'
    <2>1. UNCHANGED <<now, existing, status, checks, incidents, request, answer, writes>>
        BY <1>11, Zenon DEF Snapshot, FindsIncident, FindsNone, Interrupted, history
    <2>2. ListsInOrder'
        BY <1>2, <2>1, ListsStay
    <2>3. ChecksApart'
        BY <1>2, <2>1 DEF ChecksApart
    <2> QED
        BY <1>2, <2>1, <2>2, <2>3 DEF ListingInv
<1>5. ASSUME NEW s \in Sites, DeleteSite(s) \/ DeleteChecks(s) \/ DeleteIncidents(s) PROVE ListingInv'
    <2>1. /\ checks' = checks \/ checks' = {c \in checks : c.site # s}
          /\ UNCHANGED <<now, status, request, answer>>
          /\ writes' = IF request = Idle THEN 0 ELSE writes + 1
        BY <1>5, Zenon DEF DeleteSite, DeleteChecks, DeleteIncidents, Writing
    <2>2. checks' \subseteq checks /\ IsFiniteSet(checks')
        BY <1>1, <2>1, FS_Subset
    <2>3. \A x \in Sites : \/ \A c \in checks : c.site = x => c \in checks'
                           \/ \A c \in checks' : c.site # x
        BY <2>1
    <2>4. ListsInOrder'
        BY <2>1, <2>2, <2>3, ListsWritten
    <2>5. ChecksApart'
        BY <1>2, <2>2 DEF ChecksApart
    <2> QED
        BY <1>2, <2>1, <2>4, <2>5 DEF ListingInv
<1>6. ASSUME NEW s \in Sites, (\E r \in Ranges : SiteAnalytics(s, r)) \/ ChecksList(s) PROVE ListingInv'
    <2>1. \E k, r : Asked(k, {s}, r)
        BY <1>6, Zenon DEF SiteAnalytics, ChecksList
    <2> QED
        BY <2>1, AskedLists
<1>7. CASE (\E r \in Ranges : PlatformAnalytics(r)) \/ DashboardStats \/ SitesList \/ IncidentsList
    <2>1. \E k \in {"platform", "dashboard", "listSites", "listIncidents"} : \E r : Asked(k, Sites, r)
        BY <1>7, Zenon DEF PlatformAnalytics, DashboardStats, SitesList, IncidentsList
    <2> QED
        BY <2>1, AskedLists
<1>8. ASSUME NEW q, Query(q) PROVE ListingInv'
    <2>1. request.kind \in DOMAIN Queries /\ UNCHANGED <<now, status, checks, request>>
        BY <1>8, Zenon DEF Query, history
    <2>2. ~Asking(Lists)'
        BY <2>1 DEF Queries, Lists, Asking
    <2>3. ListsInOrder'
        BY <2>2, Zenon DEF ListsInOrder
    <2>4. ChecksApart'
        BY <1>2, <2>1 DEF ChecksApart
    <2> QED
        BY <1>2, <2>1, <2>3, <2>4 DEF ListingInv
<1>9. CASE ListPage
    <2>1. ListsInOrder' /\ UNCHANGED <<now, status, checks, request>>
        BY <1>9, PageInOrder, Zenon DEF ListPage, history
    <2>2. ChecksApart'
        BY <1>2, <2>1 DEF ChecksApart
    <2> QED
        BY <1>2, <2>1, <2>2 DEF ListingInv
<1> QED
    BY <1>3, <1>4, <1>5, <1>6, <1>7, <1>8, <1>9, <1>10, <1>11, Zenon DEF Next, CheckStep

-----------------------------------------------------------------------------
(* All pages together.                                                     *)

LEMMA PlacesApart ==
    ASSUME NEW size \in Nat \ {0}, NEW n \in Nat, NEW m \in Nat, NEW k \in 1 .. size, NEW l \in 1 .. size,
           (n - 1) * size + k = (m - 1) * size + l
    PROVE  n = m /\ k = l
<1>1. ASSUME NEW a \in Nat, NEW b \in Nat, a < b, NEW x \in 1 .. size, NEW y \in 1 .. size
      PROVE  (a - 1) * size + x # (b - 1) * size + y
    <2>1. size * a <= size * (b - 1)
        <3>1. size \in Nat /\ a \in Int /\ b - 1 \in Int /\ a <= b - 1
            BY <1>1
        <3> QED
            BY <3>1, TimesMonotone
    <2>2. (a - 1) * size = size * a - size
        OBVIOUS
    <2>3. (b - 1) * size = size * (b - 1)
        OBVIOUS
    <2> DEFINE A == size * a
               B == size * (b - 1)
    <2>4. A \in Int /\ B \in Int
        OBVIOUS
    <2> HIDE DEF A, B
    <2>5. (a - 1) * size = A - size /\ (b - 1) * size = B /\ A <= B
        BY <2>1, <2>2, <2>3 DEF A, B
    <2>6. A - size + x # B + y
        BY <2>4, <2>5
    <2> QED
        BY <2>5, <2>6
<1>2. n = m
    <2>1. ~(n < m) /\ ~(m < n)
        BY <1>1
    <2> QED
        BY <2>1
<1>3. (n - 1) * size \in Int
    OBVIOUS
<1> DEFINE A == (n - 1) * size
<1> HIDE DEF A
<1>4. A + k = A + l /\ A \in Int
    BY <1>2, <1>3 DEF A
<1> QED
    BY <1>2, <1>4

LEMMA PlaceFound ==
    ASSUME NEW size \in Nat \ {0}, NEW pages \in Nat, NEW r \in Nat, 1 <= r, r <= pages * size
    PROVE  \E n \in 1 .. pages, k \in 1 .. size : (n - 1) * size + k = r
<1> DEFINE T == {n \in Nat : r <= n * size}
<1>1. pages \in T /\ T \in SUBSET Nat
    OBVIOUS
<1>2. PICK n \in T : \A m \in T : n <= m
    <2> HIDE DEF T
    <2> QED
        BY <1>1, Least
<1>3. n \in Nat /\ r <= n * size /\ n <= pages
    BY <1>1, <1>2
<1>4. n # 0
    BY <1>3
<1>5. (n - 1) * size < r
    <2>1. n - 1 \in Nat /\ n - 1 \notin T
        BY <1>2, <1>3, <1>4
    <2>2. ~(r <= (n - 1) * size)
        BY <2>1
    <2>3. (n - 1) * size \in Int
        BY <2>1
    <2> QED
        BY <2>2, <2>3
<1>6. n * size = (n - 1) * size + size
    BY <1>3
<1> DEFINE A == (n - 1) * size
<1>7. A \in Int
    BY <1>3
<1> HIDE DEF A, T
<1>8. A < r /\ r <= A + size
    BY <1>3, <1>5, <1>6 DEF A
<1>9. r - A \in 1 .. size /\ A + (r - A) = r
    BY <1>7, <1>8
<1>10. n \in 1 .. pages
    BY <1>3, <1>4
<1> QED
    BY <1>9, <1>10 DEF A

LEMMA RowsAre ==
    ASSUME PagesTyped
    PROVE  /\ \A p \in DOMAIN Rows : /\ p = <<p[1], p[2]>> /\ p[1] \in DOMAIN answer /\ p[1] \in Nat
                                     /\ p[2] \in 1 .. PageSize /\ p[2] \in DOMAIN answer[p[1]]
                                     /\ Rows[p] = answer[p[1]][p[2]]
           /\ \A n \in DOMAIN answer : \A k \in DOMAIN answer[n] :
                 <<n, k>> \in DOMAIN Rows /\ Rows[<<n, k>>] = answer[n][k]
<1>1. \A n \in DOMAIN answer : n \in Nat /\ \A k \in DOMAIN answer[n] : k \in 1 .. PageSize
    <2> SUFFICES ASSUME NEW n \in DOMAIN answer, NEW k \in DOMAIN answer[n] PROVE n \in Nat /\ k \in 1 .. PageSize
        <3>1. DOMAIN answer \subseteq Nat
            BY ReadIs DEF PagesTyped
        <3> QED
            BY <3>1
    <2>1. n \in Nat
        BY ReadIs DEF PagesTyped
    <2>2. answer[n] \in Seq(Row) /\ Len(answer[n]) <= PageSize
        BY ReadIs, ElementOfSeq DEF PagesTyped
    <2>3. DOMAIN answer[n] = 1 .. Len(answer[n]) /\ Len(answer[n]) \in Nat /\ PageSize \in Nat
        BY <2>2, LenProperties, AnalyticsAssumption
    <2> QED
        BY <2>1, <2>2, <2>3
<1> QED
    BY <1>1 DEF Rows

LEMMA SitesWhole ==
    ASSUME Ordered, status \in [Sites -> Statuses], PagesTyped, SitesInPlace, Read >= Cardinality(existing)
    PROVE  IsInjective(Rows) /\ {Rows[p] : p \in DOMAIN Rows} = existing
<1> DEFINE rank(x) == Rank(existing, MoreUrgent, x)
<1>1. IsFiniteSet(existing) /\ existing \subseteq Sites /\ Cardinality(existing) \in Nat
    BY AnalyticsAssumption, FS_Subset, FS_CardinalityType DEF Ordered, HistoryTyped
<1>2. /\ Ordering(existing, MoreUrgent)
      /\ \A x, y, z \in existing : <<x, y>> \in MoreUrgent /\ <<y, z>> \in MoreUrgent => <<x, z>> \in MoreUrgent
    BY <1>1, MoreUrgentOrders
<1>3. \A x, y \in existing : rank(x) = rank(y) => x = y
    BY <1>1, <1>2, RanksDiffer
<1>4. \A x \in existing : rank(x) \in 1 .. Cardinality(existing)
    BY <1>1, <1>2, RankInside DEF Ordering
<1> HIDE DEF rank
<1>5. Len(answer) \in Nat /\ PageSize \in Nat \ {0} /\ DOMAIN answer = 1 .. Len(answer)
    BY ReadIs DEF PagesTyped
<1>6. ASSUME NEW p \in DOMAIN Rows
      PROVE  /\ p = <<p[1], p[2]>> /\ p[1] \in Nat /\ p[2] \in 1 .. PageSize
             /\ Rows[p] \in existing /\ rank(Rows[p]) = (p[1] - 1) * PageSize + p[2]
    BY RowsAre DEF SitesInPlace, Place, rank
<1>7. IsInjective(Rows)
    <2> SUFFICES ASSUME NEW p \in DOMAIN Rows, NEW r \in DOMAIN Rows, Rows[p] = Rows[r] PROVE p = r
        BY DEF IsInjective
    <2>1. (p[1] - 1) * PageSize + p[2] = (r[1] - 1) * PageSize + r[2]
        BY <1>6, Zenon
    <2>2. p[1] \in Nat /\ r[1] \in Nat /\ p[2] \in 1 .. PageSize /\ r[2] \in 1 .. PageSize
        BY <1>6, Zenon
    <2> DEFINE n == p[1]
               m == r[1]
               k == p[2]
               l == r[2]
    <2>3. /\ (n - 1) * PageSize + k = (m - 1) * PageSize + l
          /\ n \in Nat /\ m \in Nat /\ k \in 1 .. PageSize /\ l \in 1 .. PageSize
        BY <2>1, <2>2
    <2> HIDE DEF n, m, k, l
    <2>4. n = m /\ k = l
        BY <1>5, <2>3, PlacesApart
    <2> QED
        BY <1>6, <2>4, Zenon DEF n, m, k, l
<1>8. ASSUME NEW x \in existing PROVE \E p \in DOMAIN Rows : Rows[p] = x
    <2>1. rank(x) \in Nat /\ 1 <= rank(x) /\ rank(x) <= Cardinality(existing)
        BY <1>1, <1>4
    <2>2. rank(x) <= Len(answer) * PageSize
        <3>1. Len(answer) * PageSize \in Int
            BY <1>5
        <3> QED
            BY <1>1, <2>1, <3>1 DEF Read
    <2>3. PICK n \in 1 .. Len(answer), k \in 1 .. PageSize : (n - 1) * PageSize + k = rank(x)
        BY <1>5, <2>1, <2>2, PlaceFound
    <2>4. Place(<<n, k>>) = rank(x)
        BY <2>3 DEF Place
    <2>5. k \in DOMAIN answer[n] /\ answer[n][k] \in existing /\ rank(answer[n][k]) = rank(x)
        BY <1>5, <2>1, <2>4 DEF SitesInPlace, rank
    <2>6. answer[n][k] = x
        BY <1>3, <2>5
    <2> QED
        BY <1>5, <2>5, <2>6, RowsAre
<1> QED
    BY <1>6, <1>7, <1>8

\* What is whole of a list that has been read to its end.
LEMMA ListingIsWhole == Ordered /\ ListingInv => PagesAreWhole
<1> SUFFICES ASSUME Ordered, ListingInv, Asking(Lists), Read >= Cardinality(Listed)
             PROVE  LET shown == {Rows[p] : p \in DOMAIN Rows}
                    IN  /\ request.kind = "listSites" /\ Quiet => IsInjective(Rows) /\ shown = existing
                        /\ request.kind = "checkHistory" => {c \in Listed : c.at < request.at} \subseteq shown
                        /\ request.kind = "listIncidents" /\ Quiet =>
                              \A p, r \in DOMAIN Rows :
                                  Place(p) < Place(r) /\ Rows[r].status = "ACTIVE" => Rows[p].status = "ACTIVE"
    BY Zenon DEF PagesAreWhole
<1>1. /\ PagesTyped
      /\ request.kind = "listSites" /\ Quiet => SitesInPlace
      /\ request.kind = "listIncidents" /\ Quiet => OngoingInFront
      /\ request.kind = "checkHistory" => OldChecksToCome
    BY Zenon DEF ListingInv, ListsInOrder
<1>2. ASSUME request.kind = "listSites", Quiet
      PROVE  IsInjective(Rows) /\ {Rows[p] : p \in DOMAIN Rows} = existing
    <2>1. Read >= Cardinality(existing)
        BY <1>2 DEF Listed
    <2> QED
        BY <1>1, <1>2, <2>1, SitesWhole DEF ListingInv
<1>3. ASSUME request.kind = "checkHistory", NEW c \in Listed, c.at < request.at
      PROVE  \E p \in DOMAIN Rows : Rows[p] = c
    <2>1. IsFiniteSet(Listed) /\ c \in checks
        <3>1. Listed = {d \in checks : d.site \in request.match}
            BY <1>3 DEF Listed
        <3> QED
            BY <1>3, <3>1, ChecksFinite, FS_Subset
    <2>2. <<c, c>> \notin Newer
        BY <2>1 DEF Newer, Ordered, HistoryTyped
    <2>3. Rank(Listed, Newer, c) \in 1 .. Cardinality(Listed) /\ Cardinality(Listed) \in Nat
        BY <1>3, <2>1, <2>2, RankInside, FS_CardinalityType
    <2>4. Read \in Nat
        BY <1>1, ReadIs DEF PagesTyped
    <2>5. ~(Rank(Listed, Newer, c) > Read)
        BY <2>3, <2>4
    <2>6. \E n \in DOMAIN answer : \E k \in DOMAIN answer[n] : answer[n][k] = c
        BY <1>1, <1>3, <2>5 DEF OldChecksToCome
    <2>7. PICK n \in DOMAIN answer : \E k \in DOMAIN answer[n] : answer[n][k] = c
        BY <2>6
    <2>8. PICK k \in DOMAIN answer[n] : answer[n][k] = c
        BY <2>7
    <2>9. <<n, k>> \in DOMAIN Rows /\ Rows[<<n, k>>] = answer[n][k]
        BY <1>1, RowsAre
    <2> QED
        BY <2>8, <2>9, Zenon
<1>4. ASSUME request.kind = "listIncidents", Quiet, NEW p \in DOMAIN Rows, NEW r \in DOMAIN Rows,
             Place(p) < Place(r), Rows[r].status = "ACTIVE"
      PROVE  Rows[p].status = "ACTIVE"
    <2>1. OngoingInFront
        BY <1>1, <1>4
    <2>2. \A x \in DOMAIN Rows : x = <<x[1], x[2]>> /\ (Rows[x].status = "ACTIVE" <=> Place(x) <= Active)
        <3> SUFFICES ASSUME NEW x \in DOMAIN Rows
                     PROVE  x = <<x[1], x[2]>> /\ (Rows[x].status = "ACTIVE" <=> Place(x) <= Active)
            BY Zenon
        <3>1. /\ x = <<x[1], x[2]>> /\ x[1] \in DOMAIN answer /\ x[2] \in DOMAIN answer[x[1]]
              /\ Rows[x] = answer[x[1]][x[2]]
            BY <1>1, RowsAre, Zenon
        <3>2. answer[x[1]][x[2]].status = "ACTIVE" <=> Place(<<x[1], x[2]>>) <= Active
            BY <2>1, <3>1, Zenon DEF OngoingInFront
        <3>3. Place(<<x[1], x[2]>>) = Place(x)
            BY DEF Place
        <3> QED
            BY <3>1, <3>2, <3>3, Zenon
    <2>3. Place(p) \in Int /\ Place(r) \in Int
        BY <1>1, RowsAre, AnalyticsAssumption DEF Place
    <2>4. Active \in Int
        <3>1. IsFiniteSet({i \in incidents : i.status = "ACTIVE"})
            BY FS_Subset DEF Ordered, HistoryTyped
        <3> QED
            BY <3>1, FS_CardinalityType DEF Active
    <2> QED
        BY <1>4, <2>2, <2>3, <2>4
<1> QED
    BY <1>2, <1>3, <1>4

\* The pages of a list, read to the end, neither repeat nor skip a site, leave out no check
\* that was there when the first was asked for, and keep the ongoing incidents in front,
\* for every history, page size and order the lists allow.
THEOREM ListsAreWhole == Spec => []PagesAreWhole
<1>1. Init => ListingInv
    BY InitLists
<1>2. AnalyticsInv => Ordered
    BY InvIsOrdered
<1> QED
    BY <1>1, <1>2, ListingKept, ListingIsWhole, HistoryInOrder, PTL DEF Spec

=============================================================================
