------------------------------- MODULE Analytics -------------------------------
(***************************************************************************)
(* Health history and what is reported of it: the checks and incidents the *)
(* engine or the seed script leaves, the statistics, series and rankings   *)
(* computed from them, and the pages of the lists.                         *)
(*                                                                         *)
(* Checks run side by side, those of one site too, and stop half-way when  *)
(* a call fails or the process dies.  Time is counted in ticks, such that  *)
(* no two checks of a site are stored, or incidents begun, in the same one.*)
(* The queries of one answer run side by side and the history may be       *)
(* written between them; "now" is fixed when the request comes in.         *)
(***************************************************************************)
EXTENDS Integers, FiniteSets, Sequences, SequencesExt, FiniteSetsExt, Functions, TLC

CONSTANTS
    Sites,
    DemoSites,     \* those the seed script may write a history for
    Checkers,      \* the checks that may be under way at once
    Threshold,     \* failureThreshold
    Ranges,        \* lengths of TIME_RANGES
    Windows,       \* those of UPTIME_WINDOWS
    DashboardRange,
    TopN,          \* length of a ranking
    TimelineLength,
    PageSize,
    SeedLength,    \* ticks of history the seed script writes
    Probed,        \* bound: outcomes of the engine's own checks
    Begin,         \* bound: an unseeded history begins at this tick
    End,           \* bound: and ends at this one
    MaxChecks,     \* bound: checks begun
    MaxWrites      \* bound: writes while a request runs

\* A check in time, a slow one, an HTTP 503, no answer at all.
Outcomes == {"fast", "slow", "fault", "lost"}

ASSUME AnalyticsAssumption ==
    /\ IsFiniteSet(Sites) /\ DemoSites \subseteq Sites /\ IsFiniteSet(Windows)
    /\ Ranges \subseteq Nat \ {0} /\ Windows \subseteq Ranges /\ Windows # {}
    /\ DashboardRange \in Ranges
    /\ {Threshold, TopN, TimelineLength, PageSize} \subseteq Nat \ {0}
    /\ {SeedLength, Begin, End, MaxChecks, MaxWrites} \subseteq Nat
    /\ Threshold <= SeedLength
    /\ Probed \subseteq Outcomes

None  == "none"
NoValue == 0 - 1     \* null

Succeeded(o)  == o \in {"fast", "slow"}
StatusCode(o) == IF Succeeded(o) THEN 200 ELSE IF o = "fault" THEN 503 ELSE NoValue
ResponseMs(o) == IF o = "fast" THEN 1 ELSE 4

Statuses == {"ONLINE", "SLOW", "OFFLINE", "PAUSED", "UNKNOWN"}

StatusAfter(o) == IF o = "fast" THEN "ONLINE" ELSE IF o = "slow" THEN "SLOW" ELSE "OFFLINE"

VARIABLES
    now,
    existing,      \* sites that have not been deleted
    status,        \* currentStatus
    failures,      \* consecutiveFailures
    checks,
    incidents,
    check,         \* the check a checker is at, with what it has read
    begun,         \* checks begun
    overtaken,     \* sites a tick passed for, with a check stored and not through
    cut,           \* sites a check of which stopped, stored and not through
    request,       \* what is asked
    answer,        \* the queries that have run, with their results
    writes         \* writes since it was asked

history == <<existing, status, failures, checks, incidents>>
engine  == <<check, begun, overtaken, cut>>
vars == <<now, history, engine, request, answer, writes>>

\* failed is the snapshot's consecutiveFailures, then what the check makes of it; found
\* is when the incident began that a success is about to resolve
NoCheck == [pc |-> "idle", site |-> None, failed |-> 0, outcome |-> None, found |-> NoValue]

Idle == [kind |-> None, match |-> {}, range |-> 0, at |-> 0]

Round(sum, n) == (2 * sum + n) \div (2 * n)     \* Math.round(sum / n)

-----------------------------------------------------------------------------
(* The seed script's history of one site, written in the past of tick      *)
(* SeedLength: the failing ticks are drawn, the last ones set as intended. *)
(* The generator is seeded with constants, and with the numbers it draws   *)
(* every outage is over before the checks that are rewritten.              *)

SeedTicks == 1 .. SeedLength
SeedTail  == SeedLength - Threshold + 1 .. SeedLength
SeedDraws == SUBSET (1 .. SeedLength - Threshold - 1)

\* consecutiveFailures after each tick
SeedRun(failed) ==
    LET run[t \in 0 .. SeedLength] == IF t \in failed THEN run[t - 1] + 1 ELSE 0 IN run

SeedOutcome(failed, final, t) ==
    IF final = "OFFLINE" /\ t \in SeedTail THEN "fault"
    ELSE IF final = "SLOW" /\ t = SeedLength THEN "slow"
    ELSE IF t \in failed THEN "fault" ELSE "fast"

SeedChecks(s, failed, final) ==
    {[site |-> s, at |-> t, outcome |-> SeedOutcome(failed, final, t)] : t \in SeedTicks}

SeedIncidentsOfHistory(s, failed, final) ==     \* bug: no incident for the intended outage
    LET run  == SeedRun(failed)
        ends == {t \in SeedTicks : run[t] = 0 /\ run[t - 1] >= Threshold}
    IN  {[site |-> s, status |-> "RESOLVED",
          start |-> t - run[t - 1] + Threshold - 1, end |-> t] : t \in ends}

\* An outage starts at its Threshold-th failure and is over at the next success; the
\* intended one starts with the first check that is rewritten.
SeedIncidents(s, failed, final) ==
    LET run  == SeedRun(failed)
        ends == {t \in SeedTicks : run[t] = 0 /\ run[t - 1] >= Threshold}
    IN  {[site |-> s, status |-> "RESOLVED",
          start |-> t - run[t - 1] + Threshold - 1, end |-> t] : t \in ends}
        \union IF final = "OFFLINE"
               THEN {[site |-> s, status |-> "ACTIVE", start |-> SeedLength - Threshold + 1,
                      end |-> NoValue]}
               ELSE {}

\* The demo site that is paused has no final state set, nor has one that is left as drawn.
Finals == {None, "OFFLINE", "SLOW", "PAUSED"}

SeedStatus(final) ==
    IF final = "PAUSED" THEN "PAUSED"
    ELSE StatusAfter(SeedOutcome({}, final, SeedLength))

\* seed: one site of the demo account
Seeded ==
    \E s \in DemoSites, failed \in SeedDraws, final \in Finals :
        /\ now = SeedLength
        /\ existing = {s}
        /\ checks = SeedChecks(s, failed, final)
        /\ incidents = SeedIncidents(s, failed, final)
        /\ failures = [x \in Sites |-> IF x = s /\ final = "OFFLINE" THEN Threshold ELSE 0]
        /\ status = [x \in Sites |-> IF x = s THEN SeedStatus(final) ELSE "UNKNOWN"]

Unseeded ==
    /\ now = Begin
    /\ existing = Sites
    /\ checks = {}
    /\ incidents = {}
    /\ failures = [x \in Sites |-> 0]
    /\ status = [x \in Sites |-> "UNKNOWN"]

Init ==
    /\ Seeded \/ Unseeded
    /\ check = [c \in Checkers |-> NoCheck]
    /\ begun = 0
    /\ overtaken = {} /\ cut = {}
    /\ request = Idle
    /\ answer = << >>
    /\ writes = 0

-----------------------------------------------------------------------------
(* The history goes on.                                                    *)

Writing ==
    /\ writes < MaxWrites
    /\ writes' = IF request = Idle THEN 0 ELSE writes + 1
    /\ UNCHANGED <<request, answer>>

Stored(c) == check[c].pc \in {"find", "resolve", "open", "update"}
HalfWay   == {check[c].site : c \in {d \in Checkers : Stored(d)}}

Tick ==
    /\ now < End
    /\ now' = now + 1
    /\ overtaken' = overtaken \union HalfWay
    /\ UNCHANGED <<history, check, begun, cut, request, answer, writes>>

ActiveOf(s) == {i \in incidents : i.site = s /\ i.status = "ACTIVE"}

-----------------------------------------------------------------------------
(* checkSite, await by await.  A paused site is checked by hand only.      *)

\* findDueSites or runManualCheck reads the site, and the probe runs
Snapshot(c, s) ==
    /\ check[c] = NoCheck
    /\ s \in existing
    /\ begun < MaxChecks
    /\ begun' = begun + 1
    /\ check' = [check EXCEPT ![c] = [NoCheck EXCEPT !.pc = "probe", !.site = s, !.failed = failures[s]]]
    /\ UNCHANGED <<now, history, overtaken, cut, request, answer, writes>>

BelowOrAtThreshold(n) == n <= Threshold      \* bug: one failure late

BelowThreshold(n) == n < Threshold

\* The probe is answered and stored; a failure below the threshold looks for no incident.
Record(c, o) ==
    LET s == check[c].site
        n == IF Succeeded(o) THEN 0 ELSE check[c].failed + 1
    IN  /\ check[c].pc = "probe"
        /\ \A d \in checks : d.site # s \/ d.at # now
        /\ Writing
        /\ checks' = checks \union {[site |-> s, at |-> now, outcome |-> o]}
        /\ check' = [check EXCEPT ![c].outcome = o, ![c].failed = n,
                        ![c].pc = IF ~Succeeded(o) /\ BelowThreshold(n) THEN "update" ELSE "find"]
        /\ UNCHANGED <<now, existing, status, failures, incidents, begun, overtaken, cut>>

Goes(c, pc, found) ==
    /\ check' = [check EXCEPT ![c].pc = pc, ![c].found = found]
    /\ UNCHANGED <<begun, overtaken, cut>>

\* a failure is counted against the incident, a success resolves it
FindsIncident(c) ==
    /\ check[c].pc = "find"
    /\ \E i \in ActiveOf(check[c].site) :
          IF Succeeded(check[c].outcome) THEN Goes(c, "resolve", i.start) ELSE Goes(c, "update", NoValue)
    /\ UNCHANGED <<now, history, request, answer, writes>>

FindsNone(c) ==
    /\ check[c].pc = "find"
    /\ ActiveOf(check[c].site) = {}
    /\ Goes(c, IF Succeeded(check[c].outcome) THEN "update" ELSE "open", NoValue)
    /\ UNCHANGED <<now, history, request, answer, writes>>

\* The incident as it was read is saved resolved, now, whatever has become of it.
Resolve(c) ==
    LET mine == {i \in incidents : i.site = check[c].site /\ i.start = check[c].found}
    IN  /\ check[c].pc = "resolve"
        /\ mine # {}
        /\ Writing
        /\ incidents' = (incidents \ mine)
                            \union {[i EXCEPT !.status = "RESOLVED", !.end = now] : i \in mine}
        /\ Goes(c, "update", NoValue)
        /\ UNCHANGED <<now, existing, status, failures, checks>>

\* the unique index lets one opener through, the other one uses its incident
Open(c) ==
    LET s == check[c].site
    IN  /\ check[c].pc = "open"
        /\ \A i \in incidents : i.site = s /\ i.start = now => i.status = "ACTIVE"
        /\ Writing
        /\ incidents' = IF ActiveOf(s) # {} THEN incidents
                        ELSE incidents \union {[site |-> s, status |-> "ACTIVE", start |-> now,
                                                end |-> NoValue]}
        /\ Goes(c, "update", NoValue)
        /\ UNCHANGED <<now, existing, status, failures, checks>>

\* Site.updateOne: what the check made of its own snapshot
Update(c) ==
    LET s == check[c].site
    IN  /\ check[c].pc = "update"
        /\ Writing
        /\ IF s \in existing
           THEN /\ status' = [status EXCEPT ![s] = StatusAfter(check[c].outcome)]
                /\ failures' = [failures EXCEPT ![s] = check[c].failed]
           ELSE UNCHANGED <<status, failures>>
        /\ check' = [check EXCEPT ![c] = NoCheck]
        /\ UNCHANGED <<now, existing, checks, incidents, begun, overtaken, cut>>

\* A call is rejected and the catch contains it, or the process dies.
Interrupted(c) ==
    /\ check[c] # NoCheck
    /\ check' = [check EXCEPT ![c] = NoCheck]
    /\ cut' = cut \union IF Stored(c) THEN {check[c].site} ELSE {}
    /\ UNCHANGED <<now, history, begun, overtaken, request, answer, writes>>

CheckStep(c) ==
    \/ \E s \in Sites : Snapshot(c, s)
    \/ \E o \in Probed : Record(c, o)
    \/ FindsIncident(c) \/ FindsNone(c) \/ Resolve(c) \/ Open(c) \/ Update(c) \/ Interrupted(c)

-----------------------------------------------------------------------------

\* deleteSite: the site first, then what belongs to it, collection by collection
DeleteSite(s) ==
    /\ s \in existing
    /\ Writing
    /\ existing' = existing \ {s}
    /\ UNCHANGED <<now, status, failures, checks, incidents, engine>>

DeleteChecks(s) ==
    /\ s \notin existing
    /\ \E c \in checks : c.site = s
    /\ Writing
    /\ checks' = {c \in checks : c.site # s}
    /\ UNCHANGED <<now, existing, status, failures, incidents, engine>>

DeleteIncidents(s) ==
    /\ s \notin existing
    /\ \E i \in incidents : i.site = s
    /\ Writing
    /\ incidents' = {i \in incidents : i.site # s}
    /\ UNCHANGED <<now, existing, status, failures, checks, engine>>

-----------------------------------------------------------------------------
(* The queries: match is the set of sites, at the time of the request.     *)

RangeStart(range, at) == at - range

InRange(match, range, at) ==
    {c \in checks : c.site \in match /\ c.at >= RangeStart(range, at)}

Successful(C) == {c \in C : Succeeded(c.outcome)}
Ms(c)         == ResponseMs(c.outcome)
Time(C)       == SumFunction([c \in C |-> Ms(c)])
Average(C)    == IF C = {} THEN NoValue ELSE Round(Time(C), Cardinality(C))

\* round2: in hundredths of a percent
Uptime(C) ==
    IF C = {} THEN NoValue ELSE Round(10000 * Cardinality(Successful(C)), Cardinality(C))

\* the widest window bounds the scan
CalculateUptimeWindows(match, at) ==
    LET scan == InRange(match, Max(Windows), at)
    IN  [w \in Windows |-> Uptime({c \in scan : c.at >= RangeStart(w, at)})]

\* $dateTrunc: about two points to a range
BinSize(range) == (range + 1) \div 2

GetResponseTimeSeries(match, range, at) ==
    LET good     == Successful(InRange(match, range, at))
        Bin(c)   == c.at \div BinSize(range)
        Point(b) == LET C == {c \in good : Bin(c) = b}
                    IN  [avg |-> Average(C), min |-> Min({Ms(c) : c \in C}),
                         max |-> Max({Ms(c) : c \in C}), count |-> Cardinality(C)]
    IN  [b \in {Bin(c) : c \in good} |-> Point(b)]

GetStatusDistribution(match, range, at) ==
    LET C == InRange(match, range, at)
    IN  [code \in {StatusCode(c.outcome) : c \in C} |->
            Cardinality({c \in C : StatusCode(c.outcome) = code})]

Larger(x, y) == IF x > y THEN x ELSE y

DowntimeUnclipped(match, range, at) ==      \* bug: an outage counts from its start
    LET from     == RangeStart(range, at)
        found    == {i \in incidents : /\ i.site \in match
                                       /\ i.status = "ACTIVE" \/ i.end >= from}
        Lasted(i) == Larger(0, (IF i.status = "ACTIVE" THEN at ELSE i.end) - i.start)
    IN  SumFunction([i \in found |-> Lasted(i)])

GetDowntime(match, range, at) ==
    LET from     == RangeStart(range, at)
        found    == {i \in incidents : /\ i.site \in match
                                       /\ i.status = "ACTIVE" \/ i.end >= from}
        Lasted(i) == Larger(0, (IF i.status = "ACTIVE" THEN at ELSE i.end)
                                   - Larger(i.start, from))
    IN  SumFunction([i \in found |-> Lasted(i)])

SiteStatsWithLost(match, range, at) ==      \* bug: failed checks count as answered in no time
    LET C == InRange(match, range, at)
        M == {IF Succeeded(c.outcome) THEN Ms(c) ELSE 0 : c \in C}
    IN  [totalChecks |-> Cardinality(C), failedChecks |-> Cardinality(C \ Successful(C)),
         uptime |-> IF C = {} THEN 0 ELSE Uptime(C),
         avg |-> IF C = {} THEN NoValue ELSE Round(Time(Successful(C)), Cardinality(C)),
         min |-> IF M = {} THEN NoValue ELSE Min(M),
         max |-> IF M = {} THEN NoValue ELSE Max(M)]

\* without a check the uptime is 0, not null
GetSiteStats(match, range, at) ==
    LET C == InRange(match, range, at)
        M == {Ms(c) : c \in Successful(C)}
    IN  [totalChecks  |-> Cardinality(C),
         failedChecks |-> Cardinality(C \ Successful(C)),
         uptime       |-> IF C = {} THEN 0 ELSE Uptime(C),
         avg          |-> Average(Successful(C)),
         min          |-> IF M = {} THEN NoValue ELSE Min(M),
         max          |-> IF M = {} THEN NoValue ELSE Max(M)]

Take(seq, n) == SubSeq(seq, 1, IF Len(seq) < n THEN Len(seq) ELSE n)

\* oldest first, the newest TimelineLength; whatever the range
GetTimeline(s) ==
    LET mine      == {c \in checks : c.site = s}
        newest[n \in 1 .. Cardinality(mine)] ==
            CHOOSE c \in mine : Cardinality({d \in mine : d.at >= c.at}) = n
    IN  Reverse(Take(newest, TimelineLength))

\* the first of the rows sorted by their value, the largest first; ties fall as they come
Ranking(R) ==
    LET sorted == {q \in SetToSeqs(R) : \A m, n \in DOMAIN q : m < n => q[m].value >= q[n].value}
    IN  Take(CHOOSE q \in sorted : TRUE, TopN)

\* of the sites that still exist
GetSiteRankings(range, at) ==
    LET Of(s)  == InRange({s}, range, at)
        rows   == {s \in existing : Of(s) # {}}
        Avg(s) == Average(Successful(Of(s)))
        Bad(s) == Cardinality(Of(s) \ Successful(Of(s)))
        Up(s)  == Uptime(Of(s))
    IN  [mostReliable |-> Ranking({[site |-> s, value |-> Up(s)] : s \in rows}),
         slowest      |-> Ranking({[site |-> s, value |-> Avg(s)] : s \in {x \in rows : Avg(x) # NoValue}}),
         mostFailing  |-> Ranking({[site |-> s, value |-> Bad(s)] : s \in {x \in rows : Bad(x) > 0}})]

IncidentsSince(range, at) ==
    Cardinality({i \in incidents : i.start >= RangeStart(range, at)})

Active == Cardinality({i \in incidents : i.status = "ACTIVE"})

CountSites == [st \in Statuses |-> Cardinality({s \in existing : status[s] = st})]

-----------------------------------------------------------------------------
(* The requests: getSiteAnalytics, getPlatformAnalytics, getDashboardStats. *)

Queries ==
    [site      |-> <<"stats", "downtime", "uptime", "series", "distribution", "timeline">>,
     platform  |-> <<"stats", "downtime", "uptime", "series", "distribution", "rankings",
                     "sites", "incidents">>,
     dashboard |-> <<"sites", "uptime", "series", "active", "avg">>]

Asked(kind, match, range) ==
    /\ request = Idle
    /\ request' = [kind |-> kind, match |-> match, range |-> range, at |-> now]
    /\ answer' = << >>
    /\ writes' = 0
    /\ UNCHANGED <<now, history, engine>>

\* the controller looks the site up first
SiteAnalytics(s, range)  == s \in existing /\ Asked("site", {s}, range)
PlatformAnalytics(range) == Asked("platform", Sites, range)
DashboardStats           == Asked("dashboard", Sites, DashboardRange)

Result(q) ==
    LET m == request.match
        r == request.range
        t == request.at
    IN  CASE q = "stats"        -> GetSiteStats(m, r, t)
          [] q = "downtime"     -> GetDowntime(m, r, t)
          [] q = "uptime"       -> CalculateUptimeWindows(m, t)
          [] q = "series"       -> GetResponseTimeSeries(m, r, t)
          [] q = "distribution" -> GetStatusDistribution(m, r, t)
          [] q = "timeline"     -> GetTimeline(CHOOSE s \in m : TRUE)
          [] q = "rankings"     -> GetSiteRankings(r, t)
          [] q = "sites"        -> CountSites
          [] q = "incidents"    -> IncidentsSince(r, t)
          [] q = "active"       -> Active
          [] q = "avg"          -> Average(Successful(InRange(m, r, t)))

\* Promise.all, in the order the queries are sent: no property tells apart which of two
\* read the history first
Query(q) ==
    /\ request.kind \in DOMAIN Queries
    /\ LET n == Cardinality(DOMAIN answer) + 1
       IN  n <= Len(Queries[request.kind]) /\ q = Queries[request.kind][n]
    /\ answer' = [x \in DOMAIN answer \union {q} |-> IF x = q THEN Result(q) ELSE answer[x]]
    /\ UNCHANGED <<now, history, engine, request, writes>>

-----------------------------------------------------------------------------
(* The lists, a page at a time: listSites by status, listIncidents, and    *)
(* siteHealthHistory, newest first as notifications and sweeps are.        *)

Lists == {"listSites", "listIncidents", "checkHistory"}

SitesList     == Asked("listSites", Sites, DashboardRange)
IncidentsList == Asked("listIncidents", Sites, DashboardRange)
ChecksList(s) == s \in existing /\ Asked("checkHistory", {s}, DashboardRange)

\* STATUS_SEVERITY, and _id: how a site ranks when sorted by status
Severity == [OFFLINE |-> 0, SLOW |-> 1, UNKNOWN |-> 2, ONLINE |-> 4, PAUSED |-> 5]
Id(s)    == CHOOSE n \in 1 .. Cardinality(Sites) : SetToSeq(Sites)[n] = s

MoreUrgentOnly ==      \* bug: no tie-breaker
    {p \in existing \X existing : Severity[status[p[1]]] < Severity[status[p[2]]]}

\* which of two comes before the other in a list
MoreUrgent ==
    {p \in existing \X existing :
        \/ Severity[status[p[1]]] < Severity[status[p[2]]]
        \/ Severity[status[p[1]]] = Severity[status[p[2]]] /\ Id(p[1]) < Id(p[2])}

\* without _id: incidents of one status and start come in any order
ActiveThenNewer ==
    {p \in incidents \X incidents :
        \/ p[1].status = "ACTIVE" /\ p[2].status # "ACTIVE"
        \/ p[1].status = p[2].status /\ p[1].start > p[2].start}

Newer == {p \in checks \X checks : p[1].at > p[2].at}

Orders(S, before) ==
    LET Lasts(T)  == {x \in T : \A y \in T : <<x, y>> \notin before}
        orders[T \in SUBSET S] ==
            IF T = {} THEN {<< >>}
            ELSE UNION {{Append(q, x) : q \in orders[T \ {x}]} : x \in Lasts(T)}
    IN  orders[S]

Listed ==
    CASE request.kind = "listSites"     -> existing
      [] request.kind = "listIncidents" -> incidents
      [] request.kind = "checkHistory"  -> {c \in checks : c.site \in request.match}

SortedLists ==
    CASE request.kind = "listSites"     -> Orders(Listed, MoreUrgent)
      [] request.kind = "listIncidents" -> Orders(Listed, ActiveThenNewer)
      [] request.kind = "checkHistory"  -> Orders(Listed, Newer)

Read == Len(answer) * PageSize

\* $skip and $limit, of the list as it is by then
ListPage ==
    /\ request.kind \in Lists
    /\ Read < Cardinality(Listed)
    /\ \E list \in SortedLists :
          answer' = Append(answer, Take(SubSeq(list, Read + 1, Len(list)), PageSize))
    /\ UNCHANGED <<now, history, engine, request, writes>>

Next ==
    \/ Tick
    \/ \E c \in Checkers : CheckStep(c)
    \/ \E s \in Sites : \/ DeleteSite(s) \/ DeleteChecks(s) \/ DeleteIncidents(s)
                        \/ \E r \in Ranges : SiteAnalytics(s, r)
                        \/ ChecksList(s)
    \/ \E r \in Ranges : PlatformAnalytics(r)
    \/ DashboardStats \/ SitesList \/ IncidentsList
    \/ \E q \in UNION {ToSet(Queries[k]) : k \in DOMAIN Queries} : Query(q)
    \/ ListPage

Spec == Init /\ [][Next]_vars

-----------------------------------------------------------------------------

Has(q)  == q \in DOMAIN answer
Quiet   == writes = 0
Asking(kinds) == request.kind \in kinds

OverBy(i, t) == i.status = "RESOLVED" /\ i.end <= t

IncidentsOf(s) == {i \in incidents : i.site = s}

\* A check an incident is about: the failure it begins at, a success it covers, one it ends at.
StartsAtFailure(i) == \E c \in checks : c.site = i.site /\ ~Succeeded(c.outcome) /\ c.at = i.start
Covers(i, c) ==
    c.site = i.site /\ Succeeded(c.outcome) /\ ~(c.at < i.start) /\ ~OverBy(i, c.at)
EndsAtSuccess(i) ==
    i.status = "RESOLVED" => \E c \in checks : c.site = i.site /\ Succeeded(c.outcome) /\ c.at = i.end

\* Sites whose checks, once stored, all came to their end within the tick.
Undisturbed == existing \ (overtaken \union cut)

\* ticks of the request's range during which an incident of a matching site was open
DownTicks ==
    LET Down(s, t) == \E i \in incidents : i.site = s /\ i.start <= t /\ ~OverBy(i, t)
    IN  {p \in request.match \X (RangeStart(request.range, request.at) .. request.at - 1) :
            Down(p[1], p[2])}

\* The engine's incidents and the seed's follow the checks: for a site that exists, with no
\* check half-way, and none that was once cut short, or overtaken by the next tick, between
\* its being stored and its update of the site, no incidents overlap, none covers a
\* successful check, each runs until the success that ends it, and where the last Threshold
\* checks failed one is open (monitoring.service.ts:85-140, incident.service.ts:62-152,
\* seed.ts:249-277 and 304-318).
IncidentsFollowChecks ==
    \A s \in Undisturbed \ HalfWay :
        /\ \A i \in IncidentsOf(s) :
              /\ StartsAtFailure(i) /\ EndsAtSuccess(i)
              /\ \A c \in checks : ~Covers(i, c)
              /\ \A j \in IncidentsOf(s) : i = j \/ OverBy(i, j.start) \/ OverBy(j, i.start)
        /\ failures[s] >= Threshold => ActiveOf(s) # {}

\* "Clip to the window so a long outage that began before it does not report more
\* downtime than the window contains" (analytics.service.ts:215-216): the downtime is the
\* time in the range during which an incident was open.  Checks cut short leave it exact;
\* one overtaken, that saves an incident resolved again, may move its end into the next.
DowntimeIsExact ==
    Asking({"site", "platform"}) /\ Quiet /\ Has("downtime") /\ request.match \cap overtaken = {}
        => answer["downtime"] = Cardinality(DownTicks)

\* The queries of one answer agree on a history that was not written meanwhile: counts add
\* up, one uptime is shown whichever query it is taken from, averages lie between the
\* extremes, and the rankings are of the sites that make up the totals
\* (analytics.service.ts:302-329, 425-532).
AnswersAgree ==
    Asking({"site", "platform"}) /\ Quiet /\ DOMAIN answer = ToSet(Queries[request.kind]) =>
        LET stats  == answer["stats"]
            series == answer["series"]
            shares == answer["distribution"]
            uptime == answer["uptime"]
        IN  /\ SumFunction(shares) = stats.totalChecks
            /\ SumFunction([b \in DOMAIN series |-> series[b].count])
                  = stats.totalChecks - stats.failedChecks
            /\ request.range \in Windows =>
                  IF stats.totalChecks = 0 THEN uptime[request.range] = NoValue
                                           ELSE uptime[request.range] = stats.uptime
            /\ \A v, w \in Windows : v <= w /\ uptime[w] = NoValue => uptime[v] = NoValue
            /\ stats.avg \in stats.min .. stats.max
            /\ \A b \in DOMAIN series : /\ series[b].avg \in series[b].min .. series[b].max
                                        /\ series[b].min >= stats.min
                                        /\ series[b].max <= stats.max
            /\ (request.kind = "platform" /\ \A c \in checks : c.site \in existing) =>
                  LET top == answer["rankings"]
                  IN  /\ (top.mostReliable = << >>) = (stats.totalChecks = 0)
                      /\ (top.mostFailing = << >>) = (stats.failedChecks = 0)
                      /\ (top.slowest = << >>) = (stats.avg = NoValue)
                      /\ top.mostReliable # << >> => top.mostReliable[1].value >= stats.uptime
                      /\ top.slowest # << >> => /\ top.slowest[1].value >= stats.avg
                                                /\ top.slowest[1].value <= stats.max

\* What has been shown: row k of page n, at <<n, k>>
Rows ==
    LET places == {p \in (DOMAIN answer) \X (1 .. PageSize) : p[2] \in DOMAIN answer[p[1]]}
    IN  [p \in places |-> answer[p[1]][p[2]]]

Place(p) == (p[1] - 1) * PageSize + p[2]

\* "_id is the tie-breaker so paging cannot repeat or skip a row when several sites share
\* a sort value" (site.service.ts:187-189).  The other lists are sorted by time alone:
\* checks that arrive meanwhile push rows to a later page, so none is skipped, and
\* incidents keep the ongoing ones in front.
PagesAreWhole ==
    Asking(Lists) /\ Read >= Cardinality(Listed) =>
        LET shown == {Rows[p] : p \in DOMAIN Rows}
        IN  /\ request.kind = "listSites" /\ Quiet => IsInjective(Rows) /\ shown = existing
            /\ request.kind = "checkHistory" => {c \in Listed : c.at < request.at} \subseteq shown
            /\ request.kind = "listIncidents" /\ Quiet =>
                  \A p, r \in DOMAIN Rows :
                      Place(p) < Place(r) /\ Rows[r].status = "ACTIVE" => Rows[p].status = "ACTIVE"

-----------------------------------------------------------------------------
(* The inductive invariant of the history, and of the downtime of it.      *)

HistoryTyped ==
    /\ now \in Nat
    /\ existing \subseteq Sites
    /\ failures \in [Sites -> Nat]
    /\ checks \subseteq [site : Sites, at : 0 .. now, outcome : Outcomes]
    /\ IsFiniteSet(incidents)
    /\ incidents \subseteq [site : Sites, status : {"ACTIVE", "RESOLVED"}, start : Nat, end : Int]
    /\ writes \in Nat
    /\ request.match \subseteq Sites /\ request.range \in Nat /\ request.at \in Nat
    /\ request.kind = "platform" => request.match = Sites

UnderWay ==
    [pc : {"probe", "find", "resolve", "open", "update"}, site : Sites, failed : Nat,
     outcome : Outcomes \union {None}, found : Int]

EngineTyped ==
    /\ check \in [Checkers -> {NoCheck} \union UnderWay]
    /\ \A c \in Checkers : Stored(c) => check[c].outcome \in Outcomes

\* No incident starts, or ends, after a moment.
KnownBy(t) ==
    \A i \in incidents : i.start <= t /\ (i.status = "RESOLVED" => i.start <= i.end /\ i.end <= t)

\* The incidents of a site begin at different times, and those of one whose checks are not
\* overtaken come one after the other, deleted or not.
IncidentsApart ==
    \A i, j \in incidents : i.site = j.site =>
        /\ i.start = j.start => i = j
        /\ i = j \/ OverBy(i, j.start) \/ OverBy(j, i.start) \/ i.site \in overtaken

\* Until the next tick the incident a check is about to resolve is the last one, but for
\* what is opened meanwhile, and for incidents deleted.
FoundIsLast ==
    \A c \in Checkers : check[c].pc = "resolve" /\ check[c].site \notin overtaken =>
        \/ \A i \in IncidentsOf(check[c].site) : i.start = now
        \/ /\ \E i \in IncidentsOf(check[c].site) : i.start = check[c].found
           /\ \A i \in IncidentsOf(check[c].site) :
                 i.start = check[c].found \/ OverBy(i, check[c].found) \/ i.start = now

\* An undisturbed site has one stored check in hand; what it has found, and has still to do.
OneInHand ==
    \A c, d \in Checkers :
        Stored(c) /\ Stored(d) /\ check[c].site = check[d].site /\ check[c].site \in Undisturbed => c = d

CheckInHand ==
    \A c \in Checkers : Stored(c) /\ check[c].site \in Undisturbed =>
        LET x    == check[c]
            good == Succeeded(x.outcome)
            down == ActiveOf(x.site) # {}
        IN  /\ {d \in checks : d.site = x.site /\ d.at = now}
                  = {[site |-> x.site, at |-> now, outcome |-> x.outcome]}
            /\ good => x.failed = 0 /\ x.pc # "open"
            /\ ~good => (BelowThreshold(x.failed) => x.pc = "update")
            /\ x.pc = "resolve" => good /\ \E i \in ActiveOf(x.site) : i.start = x.found
            /\ x.pc = "update" => IF good THEN ~down ELSE BelowThreshold(x.failed) \/ down

\* A successful check of a site is at one of these steps.
Answering(s, pcs) ==
    \E c \in Checkers : check[c].site = s /\ check[c].pc \in pcs /\ Succeeded(check[c].outcome)

\* Incidents follow the checks but for the one in hand.
FollowsSoFar ==
    \A s \in Undisturbed :
        /\ \A i \in IncidentsOf(s) :
              /\ StartsAtFailure(i) /\ EndsAtSuccess(i)
              /\ \A c \in checks : Covers(i, c) => c.at = now /\ Answering(s, {"find", "resolve"})
        /\ failures[s] >= Threshold => ActiveOf(s) # {} \/ Answering(s, {"update"})

\* A history nobody has written since it was asked about is that of the request's moment,
\* and what was read from it is still what would be read now.
AnsweredOf ==
    request.kind # None /\ Quiet =>
        /\ KnownBy(request.at)
        /\ Asking({"site", "platform"}) => \A q \in DOMAIN answer : answer[q] = Result(q)

AnalyticsInv ==
    /\ HistoryTyped /\ EngineTyped
    /\ KnownBy(now)
    /\ IncidentsApart
    /\ FoundIsLast
    /\ OneInHand
    /\ CheckInHand
    /\ FollowsSoFar
    /\ AnsweredOf

-----------------------------------------------------------------------------
(* The inductive invariant of the lists.                                   *)

\* A site is checked once at a moment.
ChecksApart == \A c, d \in checks : c.site = d.site /\ c.at = d.at => c = d

\* How far down a list that is sorted an element stands.
Rank(S, before, x) == Cardinality({y \in S : <<x, y>> \notin before})

\* A list nobody writes to has each row in its place, and nothing in the places after it.
SitesInPlace ==
    \A n \in DOMAIN answer, k \in 1 .. PageSize :
        /\ k \in DOMAIN answer[n] <=> Place(<<n, k>>) <= Cardinality(existing)
        /\ k \in DOMAIN answer[n] =>
              answer[n][k] \in existing /\ Rank(existing, MoreUrgent, answer[n][k]) = Place(<<n, k>>)

OngoingInFront ==
    \A n \in DOMAIN answer : \A k \in DOMAIN answer[n] :
        answer[n][k].status = "ACTIVE" <=> Place(<<n, k>>) <= Active

\* A check that was there has been shown or is still to come.
OldChecksToCome ==
    \A c \in Listed : c.at < request.at =>
        \/ \E n \in DOMAIN answer : \E k \in DOMAIN answer[n] : answer[n][k] = c
        \/ Rank(Listed, Newer, c) > Read

Row == Sites \union [site : Sites, at : Nat, outcome : Outcomes]
         \union [site : Sites, status : {"ACTIVE", "RESOLVED"}, start : Nat, end : Int]

PagesTyped ==
    /\ answer \in Seq(Seq(Row))
    /\ \A n \in DOMAIN answer : Len(answer[n]) <= PageSize

ListsInOrder ==
    Asking(Lists) =>
        /\ PagesTyped
        /\ request.kind = "listSites" /\ Quiet => SitesInPlace
        /\ request.kind = "listIncidents" /\ Quiet => OngoingInFront
        /\ request.kind = "checkHistory" => OldChecksToCome

ListingInv ==
    /\ status \in [Sites -> Statuses]
    /\ ChecksApart
    /\ request.kind # None => request.at <= now
    /\ request.kind = "checkHistory" => \E s \in Sites : request.match = {s}
    /\ ListsInOrder

=============================================================================
