---------------------------- MODULE SiteMonitoring ----------------------------
(***************************************************************************)
(* The monitoring engine: checkSite (monitoring.service.ts) with           *)
(* handleFailedCheck, handleSuccessfulCheck and openIncident               *)
(* (incident.service.ts), run by sweeps and by "Check Now", while users    *)
(* edit, pause, resume and delete the same sites (site.service.ts).        *)
(*                                                                         *)
(* Every await is a step boundary: a check carries a snapshot of its site  *)
(* from the moment it was queued to its last write, and anything may       *)
(* happen to the database in between.  Documents are single-document       *)
(* atomic, as MongoDB makes them.                                          *)
(***************************************************************************)
EXTENDS Naturals, FiniteSets

CONSTANTS Sites,
          Sweepers,      \* sweeps that can be in flight at once; one sweep checks a site once
          Manuals,       \* "Check Now" requests that can be in flight at once
          Editors,       \* PATCH /sites/:id requests that can be in flight at once
          MaxIncidents,  \* bound: incidents over a behaviour
          Thresholds,    \* failureThreshold values users choose
          FailureCap,    \* bound: failure counters saturate here, above every threshold
          UniqueIndex,   \* one_active_incident_per_site exists in the database
          MayDelete,     \* whether users delete sites
          MaxFlips,      \* bound: times a target goes down or comes back
          MaxFaults      \* bound: failed database calls and process crashes

ASSUME MonitoringAssumption ==
    /\ MaxIncidents \in Nat /\ MaxFlips \in Nat /\ MaxFaults \in Nat
    /\ FailureCap \in Nat
    /\ IsFiniteSet(Sweepers) /\ IsFiniteSet(Manuals)
    /\ Sites # {}
    /\ Thresholds # {} /\ Thresholds \subseteq 1 .. FailureCap
    /\ UniqueIndex \in BOOLEAN /\ MayDelete \in BOOLEAN

Checks     == Sweepers \union Manuals
Ids        == 1 .. MaxIncidents
NoIncident == 0
Collections == {"checks", "incidents", "notifications"}

VARIABLES
    \* the database
    site,       \* the sites collection
    incident,   \* the incidents collection
    stored,     \* sites with a document in healthchecks
    noted,      \* sites with a document in notifications
    \* requests and checks in flight
    check,      \* per check: where checkSite is, and its locals
    edit,       \* per editor: where updateSite is, and its locals
    cascade,    \* per site: the deleteMany calls deleteSite still has out
    \* the world, and what happened in it
    target,     \* whether each site's server answers
    streak,     \* failed health checks recorded since the last successful one
    alerts,     \* SITE_DOWN and SITE_UP notifications created per incident
    flips, faults

vars == <<site, incident, stored, noted, check, edit, cascade, target, streak, alerts, flips, faults>>

db    == <<site, incident, stored, noted>>
world == <<target, streak, alerts, flips, faults>>

Cap(n) == IF n > FailureCap THEN FailureCap ELSE n

Site ==
    [phase : {"absent", "live", "deleted"}, enabled : BOOLEAN,
     status : {"UNKNOWN", "ONLINE", "OFFLINE", "PAUSED"},
     failures : 0 .. FailureCap, threshold : Thresholds, active : Ids \union {NoIncident}]

Incident ==
    [status : {"none", "ACTIVE", "RESOLVED", "deleted"}, site : Sites, failed : 0 .. FailureCap]

Check ==
    [pc : {"idle", "probe", "record", "find", "resolve", "count", "open", "reuse", "notify", "update"},
     site : Sites, failures : 0 .. FailureCap, threshold : Thresholds, success : BOOLEAN,
     doc : Ids \union {NoIncident}, failed : 0 .. FailureCap, changed : BOOLEAN]

\* the paths of a site document that updateSite may write
Editable ==
    [enabled : BOOLEAN, threshold : Thresholds, status : {"UNKNOWN", "ONLINE", "OFFLINE", "PAUSED"}]

Edit ==
    [pc : {"idle", "save"}, site : Sites, monitoring : {"pause", "resume", "keep"},
     threshold : Thresholds, read : Editable]

TypeOK ==
    /\ site \in [Sites -> Site]
    /\ incident \in [Ids -> Incident]
    /\ stored \subseteq Sites
    /\ noted \subseteq Sites
    /\ check \in [Checks -> Check]
    /\ edit \in [Editors -> Edit]
    /\ cascade \in [Sites -> SUBSET Collections]
    /\ target \in [Sites -> {"up", "down"}]
    /\ streak \in [Sites -> 0 .. FailureCap]
    /\ alerts \in [Ids -> [down : Nat, up : Nat]]
    /\ flips \in 0 .. MaxFlips
    /\ faults \in 0 .. MaxFaults

AnySite == CHOOSE s \in Sites : TRUE
AnyThreshold == CHOOSE n \in Thresholds : TRUE

NoSite == [phase |-> "absent", enabled |-> FALSE, status |-> "UNKNOWN", failures |-> 0,
           threshold |-> AnyThreshold, active |-> NoIncident]

Idle == [pc |-> "idle", site |-> AnySite, failures |-> 0, threshold |-> AnyThreshold,
         success |-> FALSE, doc |-> NoIncident, failed |-> 0, changed |-> FALSE]

NoEdit == [pc |-> "idle", site |-> AnySite, monitoring |-> "keep", threshold |-> AnyThreshold,
           read |-> [enabled |-> FALSE, threshold |-> AnyThreshold, status |-> "UNKNOWN"]]

Init ==
    /\ site = [s \in Sites |-> NoSite]
    /\ incident = [i \in Ids |-> [status |-> "none", site |-> AnySite, failed |-> 0]]
    /\ stored = {} /\ noted = {}
    /\ check = [c \in Checks |-> Idle]
    /\ edit = [e \in Editors |-> NoEdit]
    /\ cascade = [s \in Sites |-> {}]
    /\ target = [s \in Sites |-> "up"]
    /\ streak = [s \in Sites |-> 0]
    /\ alerts = [i \in Ids |-> [down |-> 0, up |-> 0]]
    /\ flips = 0 /\ faults = 0

ActiveFor(s) == {i \in Ids : incident[i].status = "ACTIVE" /\ incident[i].site = s}

-----------------------------------------------------------------------------
(* The user's requests: createSite, updateSite, deleteSite.                *)

\* Site.create; the status says at once whether the site is monitored
CreateSite(s, enabled, n) ==
    /\ site[s].phase = "absent"
    /\ site' = [site EXCEPT ![s] = [NoSite EXCEPT
                    !.phase = "live", !.enabled = enabled, !.threshold = n,
                    !.status = IF enabled THEN "UNKNOWN" ELSE "PAUSED"]]
    /\ UNCHANGED <<incident, stored, noted, check, edit, cascade, world>>

\* updateSite up to the awaits of assertSiteUrlsAllowed: the document as read
EditRead(e, s, monitoring, n) ==
    /\ edit[e].pc = "idle"
    /\ site[s].phase = "live"
    /\ edit' = [edit EXCEPT ![e] = [pc |-> "save", site |-> s, monitoring |-> monitoring,
                                    threshold |-> n,
                                    read |-> [enabled |-> site[s].enabled,
                                              threshold |-> site[s].threshold,
                                              status |-> site[s].status]]]
    /\ UNCHANGED <<db, check, cascade, world>>

Edited(d, monitoring, n) ==       \* the document after Object.assign and the status rule
    [d EXCEPT
        !.enabled = CASE monitoring = "pause" -> FALSE
                      [] monitoring = "resume" -> TRUE
                      [] OTHER -> @,
        !.threshold = n,
        !.status = IF monitoring = "pause" THEN "PAUSED"
                   ELSE IF monitoring = "resume" /\ @ = "PAUSED" THEN "UNKNOWN"
                   ELSE @]

\* site.save() sends only the paths that differ from the document as read, and
\* fails with DocumentNotFoundError when the site is gone.
EditSave(e) ==
    LET s    == edit[e].site
        read == edit[e].read
        new  == Edited(read, edit[e].monitoring, edit[e].threshold)
        Merge(now, was, is) == IF is = was THEN now ELSE is
    IN  /\ edit[e].pc = "save"
        /\ site' = IF site[s].phase # "live" THEN site
                   ELSE [site EXCEPT
                           ![s].enabled   = Merge(@, read.enabled, new.enabled),
                           ![s].threshold = Merge(@, read.threshold, new.threshold),
                           ![s].status    = Merge(@, read.status, new.status)]
        /\ edit' = [edit EXCEPT ![e] = NoEdit]
        /\ UNCHANGED <<incident, stored, noted, check, cascade, world>>

\* findOneAndDelete; the three deleteMany calls go out together
DeleteSite(s) ==
    /\ MayDelete
    /\ site[s].phase = "live"
    /\ site' = [site EXCEPT ![s].phase = "deleted"]
    /\ cascade' = [cascade EXCEPT ![s] = Collections]
    /\ UNCHANGED <<incident, stored, noted, check, edit, world>>

DeleteMany(s, kind) ==
    /\ kind \in cascade[s]
    /\ cascade' = [cascade EXCEPT ![s] = @ \ {kind}]
    /\ stored' = IF kind = "checks" THEN stored \ {s} ELSE stored
    /\ noted' = IF kind = "notifications" THEN noted \ {s} ELSE noted
    /\ incident' = IF kind # "incidents" THEN incident
                   ELSE [i \in Ids |-> IF incident[i].status # "none" /\ incident[i].site = s
                                       THEN [incident[i] EXCEPT !.status = "deleted"]
                                       ELSE incident[i]]
    /\ UNCHANGED <<site, check, edit, world>>
-----------------------------------------------------------------------------
(* checkSite, one step per await.                                          *)

Queue(c, s) ==       \* the lean document checkSite is called with
    check' = [check EXCEPT ![c] = [Idle EXCEPT
        !.pc = "probe", !.site = s, !.failures = site[s].failures, !.threshold = site[s].threshold]]

\* findDueSites puts the site in a sweep
SweepSnapshot(c, s) ==
    /\ c \in Sweepers
    /\ check[c].pc = "idle"
    /\ site[s].phase = "live" /\ site[s].enabled
    /\ Queue(c, s)
    /\ UNCHANGED <<db, edit, cascade, world>>

\* runManualCheck: any site of the user's, paused or not
ManualSnapshot(c, s) ==
    /\ c \in Manuals
    /\ check[c].pc = "idle"
    /\ site[s].phase = "live"
    /\ Queue(c, s)
    /\ UNCHANGED <<db, edit, cascade, world>>

Goto(c, pc) == check' = [check EXCEPT ![c].pc = pc]
Finish(c)   == check' = [check EXCEPT ![c] = Idle]

\* runHealthCheck answers with what the target does at some moment of the wait
Probe(c) ==
    /\ check[c].pc = "probe"
    /\ check' = [check EXCEPT ![c].pc = "record", ![c].success = target[check[c].site] = "up"]
    /\ UNCHANGED <<db, edit, cascade, world>>

ConsecutiveNoReset(c) ==      \* bug: a success leaves the counter alone
    IF check[c].success THEN check[c].failures ELSE Cap(check[c].failures + 1)

\* consecutiveFailures, from the snapshot
Consecutive(c) == IF check[c].success THEN 0 ELSE Cap(check[c].failures + 1)

\* HealthCheck.create, then the part of handleFailedCheck before its first await
Record(c) ==
    LET s == check[c].site
        belowThreshold == ~check[c].success /\ Consecutive(c) < check[c].threshold
    IN  /\ check[c].pc = "record"
        /\ stored' = stored \union {s}
        /\ streak' = [streak EXCEPT ![s] = IF check[c].success THEN 0 ELSE Cap(@ + 1)]
        /\ Goto(c, IF belowThreshold THEN "update" ELSE "find")
        /\ UNCHANGED <<site, incident, noted, edit, cascade, target, alerts, flips, faults>>

FindByPointer(c) ==           \* bug: trusts activeIncidentId instead of asking the collection
    LET i == site[check[c].site].active
    IN  /\ check[c].pc = "find"
        /\ IF i = NoIncident THEN Goto(c, IF check[c].success THEN "update" ELSE "open")
           ELSE check' = [check EXCEPT ![c].pc = IF check[c].success THEN "resolve" ELSE "count",
                                       ![c].doc = i, ![c].failed = incident[i].failed]
        /\ UNCHANGED <<db, edit, cascade, world>>

\* Incident.findOne({ siteId, status: ACTIVE })
Find(c) ==
    LET open == ActiveFor(check[c].site)
    IN  /\ check[c].pc = "find"
        /\ \/ /\ open = {}
              /\ Goto(c, IF check[c].success THEN "update" ELSE "open")
           \/ \E i \in open :
                check' = [check EXCEPT ![c].pc = IF check[c].success THEN "resolve" ELSE "count",
                                       ![c].doc = i, ![c].failed = incident[i].failed]
        /\ UNCHANGED <<db, edit, cascade, world>>

ResolveUpsert(c) ==           \* bug: an upsert, which brings a purged incident back
    /\ check[c].pc = "resolve"
    /\ incident' = [incident EXCEPT ![check[c].doc].status = "RESOLVED"]
    /\ Goto(c, "notify")
    /\ UNCHANGED <<site, stored, noted, edit, cascade, world>>

\* incident.save() with status, resolvedAt and durationSeconds; a document that
\* the cascade removed makes save throw, and checkSite's catch ends the check
Resolve(c) ==
    LET i == check[c].doc
    IN  /\ check[c].pc = "resolve"
        /\ \/ /\ incident[i].status = "deleted"
              /\ Finish(c)
              /\ UNCHANGED incident
           \/ /\ incident[i].status # "deleted"
              /\ incident' = [incident EXCEPT ![i].status = "RESOLVED"]
              /\ Goto(c, "notify")
        /\ UNCHANGED <<site, stored, noted, edit, cascade, world>>

CountAndNotify(c) ==          \* bug: every failure of an open incident is announced
    /\ check[c].pc = "count"
    /\ incident' = [incident EXCEPT ![check[c].doc].failed = Cap(check[c].failed + 1)]
    /\ Goto(c, "notify")
    /\ UNCHANGED <<site, stored, noted, edit, cascade, world>>

\* existing.failedChecks += 1; save() sends failedChecks alone
Count(c) ==
    LET i == check[c].doc
    IN  /\ check[c].pc = "count"
        /\ \/ /\ incident[i].status = "deleted"
              /\ Finish(c)
              /\ UNCHANGED incident
           \/ /\ incident[i].status # "deleted"
              /\ incident' = [incident EXCEPT ![i].failed = Cap(check[c].failed + 1)]
              /\ Goto(c, "update")
        /\ UNCHANGED <<site, stored, noted, edit, cascade, world>>

Fresh(i) == incident[i].status = "none" /\ \A j \in 1 .. i - 1 : incident[j].status # "none"

OpenNew(c, failed) ==
    \E i \in Ids :
        /\ Fresh(i)
        /\ incident' = [incident EXCEPT ![i] =
                          [status |-> "ACTIVE", site |-> check[c].site, failed |-> failed]]
        /\ check' = [check EXCEPT ![c].pc = "notify", ![c].doc = i]

OpenFromOne(c) ==             \* bug: failedChecks is left to its schema default
    /\ check[c].pc = "open"
    /\ OpenNew(c, 1)
    /\ UNCHANGED <<site, stored, noted, edit, cascade, world>>

\* Incident.create; with the index in place a second ACTIVE document is refused
\* with error 11000, and openIncident looks up the winner's
Open(c) ==
    LET s == check[c].site
    IN  /\ check[c].pc = "open"
        /\ \/ /\ UniqueIndex /\ ActiveFor(s) # {}
              /\ Goto(c, "reuse")
              /\ UNCHANGED incident
           \/ /\ ~UniqueIndex \/ ActiveFor(s) = {}
              /\ OpenNew(c, Consecutive(c))
        /\ UNCHANGED <<site, stored, noted, edit, cascade, world>>

\* The loser of the race goes on with the winner's incident, as if it had opened it.
Reuse(c) ==
    LET open == ActiveFor(check[c].site)
    IN  /\ check[c].pc = "reuse"
        /\ \/ open = {} /\ Goto(c, "update")
           \/ \E i \in open : check' = [check EXCEPT ![c].pc = "notify", ![c].doc = i]
        /\ UNCHANGED <<db, edit, cascade, world>>

AnnounceOnce(c) ==   \* bug: a site that has a notification gets no other
    LET i == check[c].doc
    IN  /\ noted' = noted \union {check[c].site}
        /\ alerts' = IF check[c].site \in noted THEN alerts
                     ELSE IF check[c].success THEN [alerts EXCEPT ![i].up = @ + 1]
                     ELSE [alerts EXCEPT ![i].down = @ + 1]

\* Notification.create in notify(), for a user who keeps onDown and onUp on, as they are
\* at first; with either off the same calls return and nobody is told
Announce(c) ==
    LET i == check[c].doc
    IN  /\ alerts' = IF check[c].success THEN [alerts EXCEPT ![i].up = @ + 1]
                     ELSE [alerts EXCEPT ![i].down = @ + 1]
        /\ noted' = noted \union {check[c].site}

\* await notify(...); the transition now says opened or resolved
Notify(c) ==
    /\ check[c].pc = "notify"
    /\ Announce(c)
    /\ check' = [check EXCEPT ![c].pc = "update", ![c].changed = TRUE]
    /\ UNCHANGED <<site, incident, stored, edit, cascade, target, streak, flips, faults>>

UpdateKeepsPointer(c) ==      \* bug: activeIncidentId survives the resolution
    LET s == check[c].site
    IN  /\ check[c].pc = "update"
        /\ site' = IF site[s].phase # "live" THEN site
                   ELSE [site EXCEPT
                           ![s].status   = IF check[c].success THEN "ONLINE" ELSE "OFFLINE",
                           ![s].failures = Consecutive(c),
                           ![s].active   = IF check[c].changed THEN check[c].doc ELSE @]
        /\ Finish(c)
        /\ UNCHANGED <<incident, stored, noted, edit, cascade, world>>

UpdateOnTransition(c) ==      \* bug: consecutiveFailures is written with a transition only
    LET s == check[c].site
    IN  /\ check[c].pc = "update"
        /\ site' = IF site[s].phase # "live" \/ ~check[c].changed THEN site
                   ELSE [site EXCEPT
                           ![s].status   = IF check[c].success THEN "ONLINE" ELSE "OFFLINE",
                           ![s].failures = Consecutive(c),
                           ![s].active   = IF check[c].success THEN NoIncident ELSE check[c].doc]
        /\ Finish(c)
        /\ UNCHANGED <<incident, stored, noted, edit, cascade, world>>

\* Site.updateOne with everything the check concluded; no document, no effect
Update(c) ==
    LET s == check[c].site
    IN  /\ check[c].pc = "update"
        /\ site' = IF site[s].phase # "live" THEN site
                   ELSE [site EXCEPT
                           ![s].status   = IF check[c].success THEN "ONLINE" ELSE "OFFLINE",
                           ![s].failures = Consecutive(c),
                           ![s].active   = IF ~check[c].changed THEN @
                                           ELSE IF check[c].success THEN NoIncident
                                           ELSE check[c].doc]
        /\ Finish(c)
        /\ UNCHANGED <<incident, stored, noted, edit, cascade, world>>

CheckStep(c) ==
    \/ Probe(c) \/ Record(c) \/ Find(c) \/ Resolve(c) \/ Count(c)
    \/ Open(c) \/ Reuse(c) \/ Notify(c) \/ Update(c)

-----------------------------------------------------------------------------
(* What goes wrong around the engine.                                      *)

Fault == faults < MaxFaults /\ faults' = faults + 1

\* A database call throws: the catch of checkSite writes lastCheckedAt at most,
\* and the rest of the check is not done.
CallFails(c) ==
    /\ Fault
    /\ check[c].pc \notin {"idle", "probe"}
    /\ Finish(c)
    /\ UNCHANGED <<db, edit, cascade, target, streak, alerts, flips>>

\* notify() throws after its document is stored: the channel lookup failed
NotifyFails(c) ==
    /\ Fault
    /\ check[c].pc = "notify"
    /\ Announce(c)
    /\ Finish(c)
    /\ UNCHANGED <<site, incident, stored, edit, cascade, target, streak, flips>>

\* One of deleteSite's deleteMany calls fails; nothing repeats it.
DeleteManyFails(s, kind) ==
    /\ Fault
    /\ kind \in cascade[s]
    /\ cascade' = [cascade EXCEPT ![s] = @ \ {kind}]
    /\ UNCHANGED <<db, check, edit, target, streak, alerts, flips>>

\* The process dies and is restarted: whatever was in flight is forgotten.
Crash ==
    /\ Fault
    /\ check' = [c \in Checks |-> Idle]
    /\ edit' = [e \in Editors |-> NoEdit]
    /\ cascade' = [s \in Sites |-> {}]
    /\ UNCHANGED <<db, target, streak, alerts, flips>>

\* The monitored server goes down or comes back.
Flip(s) ==
    /\ flips < MaxFlips
    /\ flips' = flips + 1
    /\ target' = [target EXCEPT ![s] = IF @ = "up" THEN "down" ELSE "up"]
    /\ UNCHANGED <<db, check, edit, cascade, streak, alerts, faults>>

UserRequest ==
    \/ \E s \in Sites, enabled \in BOOLEAN, n \in Thresholds : CreateSite(s, enabled, n)
    \/ \E e \in Editors, s \in Sites, m \in {"pause", "resume", "keep"}, n \in Thresholds :
          EditRead(e, s, m, n)
    \/ \E e \in Editors : EditSave(e)
    \/ \E s \in Sites : DeleteSite(s)

Next ==
    \/ UserRequest
    \/ \E s \in Sites, kind \in Collections : DeleteMany(s, kind) \/ DeleteManyFails(s, kind)
    \/ \E c \in Checks, s \in Sites : SweepSnapshot(c, s) \/ ManualSnapshot(c, s)
    \/ \E c \in Checks : CheckStep(c) \/ CallFails(c) \/ NotifyFails(c)
    \/ Crash
    \/ \E s \in Sites : Flip(s)

Spec == Init /\ [][Next]_vars

\* The event loop runs every continuation whose await has settled, and a sweep
\* takes up a monitored site again and again (shown of the scheduler in
\* SweepScheduler).  Nobody owes the system a user request.
FairSpec ==
    /\ Spec
    /\ \A c \in Checks : WF_vars(CheckStep(c))
    /\ \A c \in Sweepers, s \in Sites : WF_vars(SweepSnapshot(c, s))

-----------------------------------------------------------------------------
(* Properties that hold whatever races, fails or crashes *)

\* "At most one incident per site can be active at a time, enforced by a partial
\* unique index" (MONITORING.md:102-103; Incident.ts:69-83), a manual check racing
\* a sweep, a crash or a failed call included.
AtMostOneActive == \A s \in Sites : \A i, j \in ActiveFor(s) : i = j

\* An incident that has been resolved is never open again: a check that loaded it
\* while it was open and saves its failedChecks afterwards must not revive it.
ResolvedIsFinal ==
    [][\A i \in Ids : incident[i].status = "RESOLVED" => incident'[i].status \in {"RESOLVED", "deleted"}]_vars

\* Nobody is told that a site is back while its incident is still open, even
\* when the call that should have resolved it failed.
UpOnlyAfterResolve ==
    \A i \in Ids : alerts[i].up > 0 => incident[i].status \in {"RESOLVED", "deleted"}

\* What a check holds in its hands, the part of the invariant the proofs need:
\* the incident it loaded or created exists and belongs to the site it checks, and
\* it is about to announce a recovery only if that incident is resolved.
InHand ==
    \A c \in Checks :
        /\ check[c].pc \in {"resolve", "count", "notify"} =>
              /\ check[c].doc \in Ids
              /\ incident[check[c].doc].status # "none"
              /\ incident[check[c].doc].site = check[c].site
        /\ check[c].pc = "notify" /\ check[c].success =>
              incident[check[c].doc].status \in {"RESOLVED", "deleted"}
        /\ check[c].pc = "open" => ~check[c].success
        /\ check[c].pc = "reuse" => ~check[c].success

\* Documents are purged only of sites that are gone.
PurgeAfterDelete == \A s \in Sites : cascade[s] # {} => site[s].phase = "deleted"

\* The inductive invariant.
MonitoringInv ==
    /\ TypeOK
    /\ InHand
    /\ PurgeAfterDelete
    /\ UpOnlyAfterResolve
    /\ UniqueIndex => AtMostOneActive

\* A site that stays up, monitored and existing does not keep an open incident:
\* resolution looks the incident up, and does not trust activeIncidentId, which a
\* failed or overtaken update can leave wrong for good.
RecoveryResolves ==
    \A s \in Sites :
        <>[](site[s].phase = "live" /\ site[s].enabled /\ target[s] = "up") => <>[](ActiveFor(s) = {})

\* A site that stays down, monitored and existing gets an incident: the failures
\* that racing checks overwrite are made up for by later ones.
OutageOpensIncident ==
    \A s \in Sites :
        <>[](site[s].phase = "live" /\ site[s].enabled /\ target[s] = "down") => <>[](ActiveFor(s) # {})

\* The engine implements the incident lifecycle.
Lifecycle == INSTANCE IncidentLifecycle WITH
    status <- [i \in Ids |-> incident[i].status],
    owner  <- [i \in Ids |-> incident[i].site],
    gone   <- {s \in Sites : site[s].phase = "deleted"}

ImplementsLifecycle == Lifecycle!Spec

-----------------------------------------------------------------------------
(* Properties of checks that do not fail *)

Quiet(s) == \A c \in Checks : check[c].pc # "idle" => check[c].site # s

\* Where no call has failed, and once no check of a site is in flight, every
\* incident opened for it has been announced, and its recovery has been announced
\* exactly if it is resolved, even when two checks raced for it.  (Users who have
\* onDown and onUp on, see Announce.)
AnnouncedWhenQuiet ==
    \A i \in Ids :
        /\ faults = 0
        /\ incident[i].status \in {"ACTIVE", "RESOLVED"}
        /\ Quiet(incident[i].site)
        =>
            /\ alerts[i].down > 0
            /\ incident[i].status = "RESOLVED" <=> alerts[i].up > 0

Announcing(i, success) ==
    \E c \in Checks : check[c].pc = "notify" /\ check[c].doc = i /\ check[c].success = success

\* Its inductive invariant: an announcement that is owed is on its way.
AlertsAreOwed ==
    /\ \A c \in Checks : check[c].pc = "resolve" => check[c].success
    /\ faults = 0 => \A i \in Ids :
          /\ incident[i].status \in {"ACTIVE", "RESOLVED"} => alerts[i].down > 0 \/ Announcing(i, FALSE)
          /\ incident[i].status = "RESOLVED" => alerts[i].up > 0 \/ Announcing(i, TRUE)

\* "The loser reuses the incident the winner created" (MONITORING.md:105-106) and announces
\* it once more (incident.service.ts:94-104), and an incident may be resolved, and its
\* recovery announced, by every check that had loaded it.  However checks race and fail, and
\* with or without the index, neither announcement is made more often than checks can be
\* in flight at once.
AnnouncementsBounded ==
    \A i \in Ids : alerts[i].down <= Cardinality(Checks) /\ alerts[i].up <= Cardinality(Checks)

\* The checks that may still announce an incident as it stands: those at its
\* announcement, and while it is open those that would adopt it.
MayTellDown(i) ==
    {c \in Checks :
        \/ check[c].pc = "notify" /\ check[c].doc = i /\ ~check[c].success
        \/ /\ check[c].pc \in {"open", "reuse"}
           /\ incident[i].status = "ACTIVE" /\ incident[i].site = check[c].site}

\* The checks that may still announce its recovery, once it is resolved.
MayTellUp(i) ==
    {c \in Checks : check[c].pc \in {"resolve", "notify"} /\ check[c].doc = i /\ check[c].success}

\* Its inductive invariant: every announcement made has used up a check that could make it.
TellersAreBounded ==
    \A i \in Ids :
        /\ incident[i].status = "none" => alerts[i].down = 0
        /\ alerts[i].down + Cardinality(MayTellDown(i)) <= Cardinality(Checks)
        /\ alerts[i].up + Cardinality(MayTellUp(i)) <= Cardinality(Checks)

-----------------------------------------------------------------------------
(* Properties of checks that do not overlap either *)

\* "An incident opens only after failureThreshold consecutive failures"
\* (MONITORING.md:88): the health check history ends in that many failures.
OpensOnConsecutiveFailures ==
    [][\A c \in Checks :
          check[c].pc = "open" /\ check'[c].pc = "notify" => streak[check[c].site] >= check[c].threshold]_vars

\* Between checks the cached fields of a site agree with the collections they
\* summarise: consecutiveFailures with the check history, activeIncidentId with
\* the open incident.
CacheAgrees ==
    \A s \in Sites :
        site[s].phase = "live" /\ Quiet(s) =>
            /\ site[s].failures = streak[s]
            /\ ActiveFor(s) = IF site[s].active = NoIncident THEN {} ELSE {site[s].active}

\* "While an incident is open, further failures increment its failedChecks"
\* (MONITORING.md:97): between checks it counts the whole outage.
FailuresAreCounted ==
    \A s \in Sites : Quiet(s) => \A i \in ActiveFor(s) : incident[i].failed = streak[s]

\* "An opening incident emits SITE_DOWN; a resolving one emits SITE_UP"
\* (MONITORING.md:135): one of each, and never the recovery first.
OneAlertPerTransition ==
    \A i \in Ids : alerts[i].up <= alerts[i].down /\ alerts[i].down <= 1

-----------------------------------------------------------------------------
(* The invariant of checks that neither fail nor overlap.  No state of its *)
(* own records the past: the theorems take Alone as a hypothesis on every  *)
(* state of a behaviour, and the index plays no part in them.              *)

Alone ==
    /\ faults = 0
    /\ \A c, d \in Checks :
          check[c].pc # "idle" /\ check[d].pc # "idle" /\ check[c].site = check[d].site => c = d

Pointer(s) == IF site[s].active = NoIncident THEN {} ELSE {site[s].active}

\* What a check counts is the history, before and after it adds to it, and it goes
\* on to an incident only with the failures its snapshot asks for.
CountsTheHistory(c) ==
    LET x == check[c]
    IN  x.pc # "idle" =>
            /\ site[x.site].phase # "absent"
            /\ x.pc \in {"probe", "record"} => x.failures = streak[x.site]
            /\ x.pc \notin {"probe", "record"} => streak[x.site] = Consecutive(c)
            /\ x.pc \in {"find", "count", "open", "notify"} /\ ~x.success =>
                  streak[x.site] >= x.threshold

\* What a check holds is the one open incident of its site, and what it goes by is
\* what the pointer says, until its update makes the pointer follow.
HoldsTheIncident(c) ==
    LET x     == check[c]
        open  == ActiveFor(x.site)
        live  == site[x.site].phase = "live"
        holds == \/ x.pc \in {"resolve", "count"}
                 \/ x.pc = "notify" /\ ~x.success
                 \/ x.pc = "update" /\ ~x.success /\ x.changed
    IN  /\ x.pc # "reuse"
        /\ x.pc = "resolve" => x.success
        /\ x.pc = "count" => ~x.success
        /\ x.changed => x.pc = "update"
        /\ x.pc = "open" \/ (x.pc \in {"notify", "update"} /\ x.success) => open = {}
        /\ holds => open \subseteq {x.doc} /\ (live => x.doc \in open)
        /\ \/ x.pc \in {"probe", "record", "find", "resolve", "count"}
           \/ x.pc = "update" /\ ~x.changed
           => open \subseteq Pointer(x.site) /\ (live => open = Pointer(x.site))

AbsentIsBlank == \A s \in Sites : site[s].phase = "absent" => streak[s] = 0 /\ ActiveFor(s) = {}

CacheInv ==
    /\ AbsentIsBlank
    /\ CacheAgrees
    /\ \A c \in Checks : CountsTheHistory(c) /\ HoldsTheIncident(c)

\* An incident that was not announced will be by the check that opened it, and
\* whoever resolves it has found it announced.
AlertsInTurn ==
    /\ OneAlertPerTransition
    /\ \A i \in Ids : incident[i].status = "none" => alerts[i].down = 0
    /\ \A c \in Checks :
          /\ check[c].pc = "notify" /\ ~check[c].success => alerts[check[c].doc].down = 0
          /\ check[c].pc = "resolve" \/ (check[c].pc = "notify" /\ check[c].success) =>
                alerts[check[c].doc].down = 1 /\ alerts[check[c].doc].up = 0

\* What the check at work on a site still has to do for the result it stored: a
\* success is looked up and resolved, a failure that reached the threshold opens an
\* incident or joins one, and what was opened or resolved is announced.
DutyOf(x) ==
    IF x.pc = "notify" THEN IF x.success THEN "tellRecovery" ELSE "tellOutage"
    ELSE IF x.success /\ x.pc \in {"find", "resolve"} THEN "recover"
    ELSE IF ~x.success /\ x.pc \in {"find", "open"} THEN "open"
    ELSE "none"

AtWork(s) == {c \in Checks : check[c].pc # "idle" /\ check[c].site = s}
Duty(s)   == IF AtWork(s) = {} THEN "none" ELSE DutyOf(check[CHOOSE c \in AtWork(s) : TRUE])

Response == INSTANCE OutageResponse WITH
    status  <- [i \in Ids |-> incident[i].status],
    owner   <- [i \in Ids |-> incident[i].site],
    told    <- alerts,
    duty    <- [s \in Sites |-> Duty(s)],
    gone    <- {s \in Sites : site[s].phase = "deleted"},
    Longest <- FailureCap

\* "An incident opens only after failureThreshold consecutive failures"
\* (MONITORING.md:88), further ones join it, "one success closes the incident"
\* (MONITORING.md:98), and "an opening incident emits SITE_DOWN; a resolving one emits
\* SITE_UP" (MONITORING.md:135), all before the next result is stored.
ImplementsResponse == Response!Spec

\* No threshold is raised while its site is being checked or has an open incident:
\* the failures that stay below the new one would not be counted.
NoRaise ==
    \A s \in Sites :
        site[s].phase = "live" /\ site'[s].threshold > site[s].threshold => Quiet(s) /\ ActiveFor(s) = {}

\* The count of an open incident, as the check at work on it has left it.
CountOf(c) ==
    LET x == check[c]
    IN  /\ x.pc # "idle" /\ site[x.site].phase = "live" => site[x.site].threshold <= x.threshold
        /\ \A i \in ActiveFor(x.site) :
              /\ x.pc \in {"probe", "record"} =>
                    incident[i].failed = streak[x.site] /\ x.threshold <= incident[i].failed
              /\ x.pc \in {"find", "count"} /\ ~x.success =>
                    Cap(incident[i].failed + 1) = streak[x.site]
              /\ x.pc = "count" => x.failed = incident[i].failed
              /\ x.pc \in {"notify", "update"} => incident[i].failed = streak[x.site]

CountInv ==
    /\ FailuresAreCounted
    /\ \A s \in Sites : site[s].phase = "live" =>
          \A i \in ActiveFor(s) : site[s].threshold <= incident[i].failed
    /\ \A c \in Checks : CountOf(c)

=============================================================================
