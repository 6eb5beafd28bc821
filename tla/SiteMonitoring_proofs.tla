------------------------- MODULE SiteMonitoring_proofs -------------------------
(***************************************************************************)
(* MonitoringInv is inductive for any number of sites, checks, editors and *)
(* incidents.  The steps are grouped by what they write: the incidents     *)
(* collection, the alerts, or neither.                                     *)
(***************************************************************************)
EXTENDS SiteMonitoring, FiniteSetTheorems, TLAPS

LEMMA Choices == AnySite \in Sites /\ AnyThreshold \in Thresholds
BY MonitoringAssumption DEF AnySite, AnyThreshold

LEMMA CapType == \A n \in Nat : Cap(n) \in 0 .. FailureCap
BY MonitoringAssumption DEF Cap

LEMMA IdleTypes == NoSite \in Site /\ Idle \in Check /\ NoEdit \in Edit
BY Choices, MonitoringAssumption DEF NoSite, Idle, NoEdit, Site, Check, Edit, Editable

\* The engine starts in the invariant.
LEMMA InitInv == Init => MonitoringInv
<1> SUFFICES ASSUME Init PROVE MonitoringInv
    OBVIOUS
<1>1. TypeOK
    BY IdleTypes, Choices, MonitoringAssumption DEF Init, TypeOK, Incident
<1>2. InHand
    BY DEF Init, InHand, Idle
<1>3. PurgeAfterDelete /\ UpOnlyAfterResolve
    BY DEF Init, PurgeAfterDelete, UpOnlyAfterResolve
<1>4. AtMostOneActive
    BY DEF Init, AtMostOneActive, ActiveFor
<1> QED
    BY <1>1, <1>2, <1>3, <1>4 DEF MonitoringInv

-----------------------------------------------------------------------------
(* Type correctness, one lemma per group of actions.                       *)

LEMMA TypeUser ==
    ASSUME TypeOK, UserRequest PROVE TypeOK'
<1>1. ASSUME NEW s \in Sites, NEW enabled \in BOOLEAN, NEW n \in Thresholds,
             CreateSite(s, enabled, n)
      PROVE  TypeOK'
    BY <1>1, IdleTypes, MonitoringAssumption
    DEF TypeOK, CreateSite, world, Site, NoSite
<1>2. ASSUME NEW e \in Editors, NEW s \in Sites, NEW m \in {"pause", "resume", "keep"},
             NEW n \in Thresholds, EditRead(e, s, m, n)
      PROVE  TypeOK'
    BY <1>2 DEF TypeOK, EditRead, db, world, Site, Edit, Editable
<1>3. ASSUME NEW e \in Editors, EditSave(e) PROVE TypeOK'
    <2> DEFINE s == edit[e].site
               new == Edited(edit[e].read, edit[e].monitoring, edit[e].threshold)
    <2>1. s \in Sites /\ edit[e] \in Edit /\ site[s] \in Site
        BY DEF TypeOK, Edit
    <2>2. new \in Editable
        BY <2>1 DEF Edited, Edit, Editable
    <2>3. site' \in [Sites -> Site]
        BY <1>3, <2>1, <2>2 DEF EditSave, TypeOK, Site, Edit, Editable
    <2> QED
        BY <1>3, <2>3, IdleTypes DEF EditSave, TypeOK, world
<1>4. ASSUME NEW s \in Sites, DeleteSite(s) PROVE TypeOK'
    BY <1>4, SMTT(30) DEF TypeOK, DeleteSite, world, Site, Collections
<1> QED
    BY <1>1, <1>2, <1>3, <1>4 DEF UserRequest

LEMMA TypePurge ==
    ASSUME TypeOK, NEW s \in Sites, NEW kind \in Collections, DeleteMany(s, kind)
    PROVE  TypeOK'
<1>1. incident' \in [Ids -> Incident]
    BY DEF TypeOK, DeleteMany, Incident
<1>2. cascade' \in [Sites -> SUBSET Collections]
    BY DEF TypeOK, DeleteMany
<1>3. stored' \subseteq Sites /\ noted' \subseteq Sites
    BY DEF TypeOK, DeleteMany
<1> QED
    BY <1>1, <1>2, <1>3 DEF TypeOK, DeleteMany, world

LEMMA TypeSnapshot ==
    ASSUME TypeOK, NEW c \in Checks, NEW s \in Sites, SweepSnapshot(c, s) \/ ManualSnapshot(c, s)
    PROVE  TypeOK'
<1> DEFINE new == [Idle EXCEPT !.pc = "probe", !.site = s, !.failures = site[s].failures,
                               !.threshold = site[s].threshold]
<1>1. new \in Check
    BY IdleTypes DEF TypeOK, Idle, Check, Site
<1>2. check' = [check EXCEPT ![c] = new]
    BY DEF SweepSnapshot, ManualSnapshot, Queue
<1> HIDE DEF new
<1>3. check' \in [Checks -> Check]
    BY <1>1, <1>2 DEF TypeOK
<1> QED
    BY <1>3 DEF TypeOK, SweepSnapshot, ManualSnapshot, db, world

\* Moving a check, or ending it, keeps its type.
LEMMA GotoType ==
    ASSUME TypeOK, NEW c \in Checks,
           NEW pc \in {"record", "find", "resolve", "count", "open", "reuse", "notify", "update"},
           Goto(c, pc)
    PROVE  check' \in [Checks -> Check]
<1>1. check' = [check EXCEPT ![c].pc = pc] /\ check[c] \in Check
    BY DEF TypeOK, Goto
<1>2. [check[c] EXCEPT !.pc = pc] \in Check
    BY <1>1 DEF Check
<1> QED
    BY <1>1, <1>2 DEF TypeOK

LEMMA FinishType ==
    ASSUME TypeOK, NEW c \in Checks, Finish(c) PROVE check' \in [Checks -> Check]
BY IdleTypes DEF TypeOK, Finish

LEMMA TypeStep ==
    ASSUME TypeOK, NEW c \in Checks, CheckStep(c), InHand PROVE TypeOK'
<1>1. check[c] \in Check /\ check[c].site \in Sites /\ check[c].failures \in Nat
    BY MonitoringAssumption DEF TypeOK, Check
<1>2. Consecutive(c) \in 0 .. FailureCap
    BY <1>1, CapType, MonitoringAssumption DEF Consecutive
<1>3. CASE Probe(c)
    <2> DEFINE up == target[check[c].site] = "up"
    <2>1. up \in BOOLEAN
        OBVIOUS
    <2>2. check' = [check EXCEPT ![c].pc = "record", ![c].success = up]
        BY <1>3 DEF Probe
    <2> HIDE DEF up
    <2>3. check' \in [Checks -> Check]
        BY <1>1, <2>1, <2>2 DEF TypeOK, Check
    <2> QED
        BY <1>3, <2>3 DEF TypeOK, Probe, db, world
<1>4. CASE Record(c)
    <2>1. check' \in [Checks -> Check]
        BY <1>4, GotoType DEF Record
    <2>2. streak' \in [Sites -> 0 .. FailureCap]
        <3>1. streak[check[c].site] \in Nat
            BY <1>1, MonitoringAssumption DEF TypeOK
        <3>2. Cap(streak[check[c].site] + 1) \in 0 .. FailureCap /\ 0 \in 0 .. FailureCap
            BY <3>1, CapType, MonitoringAssumption
        <3> QED
            BY <1>1, <1>4, <3>2 DEF TypeOK, Record
    <2> QED
        BY <1>1, <1>4, <2>1, <2>2 DEF TypeOK, Record
<1>5. CASE Find(c)
    <2>1. check' \in [Checks -> Check]
        <3>1. CASE Goto(c, IF check[c].success THEN "update" ELSE "open")
            BY <3>1, GotoType
        <3>2. ASSUME NEW i \in ActiveFor(check[c].site),
                     check' = [check EXCEPT ![c].pc = IF check[c].success THEN "resolve" ELSE "count",
                                            ![c].doc = i, ![c].failed = incident[i].failed]
              PROVE  check' \in [Checks -> Check]
            <4>1. i \in Ids /\ incident[i].failed \in 0 .. FailureCap
                BY DEF ActiveFor, TypeOK, Incident
            <4> QED
                BY <1>1, <3>2, <4>1 DEF TypeOK, Check
        <3> QED
            BY <1>5, <3>1, <3>2 DEF Find
    <2> QED
        BY <1>5, <2>1 DEF TypeOK, Find, db, world
<1>6. CASE Resolve(c)
    <2>1. check' \in [Checks -> Check]
        BY <1>6, GotoType, FinishType DEF Resolve
    <2>2. incident' \in [Ids -> Incident]
        <3>1. check[c].doc \in Ids
            BY <1>6 DEF InHand, Resolve
        <3> QED
            BY <1>6, <3>1 DEF TypeOK, Resolve, Incident
    <2> QED
        BY <1>6, <2>1, <2>2 DEF TypeOK, Resolve, world
<1>7. CASE Count(c)
    <2>1. check' \in [Checks -> Check]
        BY <1>7, GotoType, FinishType DEF Count
    <2>2. Cap(check[c].failed + 1) \in 0 .. FailureCap
        <3>1. check[c].failed + 1 \in Nat
            BY <1>1, MonitoringAssumption DEF Check
        <3> QED
            BY <3>1, CapType
    <2>3. incident' \in [Ids -> Incident]
        BY <1>7, <2>2, SMTT(30) DEF TypeOK, Count, Incident
    <2> QED
        BY <1>7, <2>1, <2>3 DEF TypeOK, Count, world
<1>8. CASE Open(c)
    <2>1. CASE OpenNew(c, Consecutive(c))
        <3>1. PICK i \in Ids :
                /\ incident' = [incident EXCEPT ![i] = [status |-> "ACTIVE", site |-> check[c].site,
                                                        failed |-> Consecutive(c)]]
                /\ check' = [check EXCEPT ![c].pc = "notify", ![c].doc = i]
            BY <2>1 DEF OpenNew
        <3>2. incident' \in [Ids -> Incident]
            BY <1>1, <1>2, <3>1 DEF TypeOK, Incident
        <3>3. check' \in [Checks -> Check]
            BY <1>1, <3>1 DEF TypeOK, Check
        <3> QED
            BY <1>8, <3>2, <3>3 DEF TypeOK, Open, world
    <2>2. CASE Goto(c, "reuse") /\ UNCHANGED incident
        BY <1>8, <2>2, GotoType DEF TypeOK, Open, world
    <2> QED
        BY <1>8, <2>1, <2>2 DEF Open
<1>9. CASE Reuse(c)
    <2>1. check' \in [Checks -> Check]
        <3>1. ASSUME NEW i \in ActiveFor(check[c].site),
                     check' = [check EXCEPT ![c].pc = "notify", ![c].doc = i]
              PROVE  check' \in [Checks -> Check]
            BY <1>1, <3>1 DEF TypeOK, Check, ActiveFor
        <3> QED
            BY <1>9, <3>1, GotoType DEF Reuse
    <2> QED
        BY <1>9, <2>1 DEF TypeOK, Reuse, db, world
<1>10. CASE Notify(c)
    <2>1. check[c].doc \in Ids
        BY <1>10 DEF InHand, Notify
    <2>2. alerts' \in [Ids -> [down : Nat, up : Nat]]
        BY <1>10, <2>1 DEF TypeOK, Notify, Announce
    <2>3. check' \in [Checks -> Check]
        BY <1>1, <1>10 DEF TypeOK, Notify, Check
    <2> QED
        BY <1>1, <1>10, <2>2, <2>3 DEF TypeOK, Notify, Announce
<1>11. CASE Update(c)
    <2>1. site' \in [Sites -> Site]
        <3> DEFINE s == check[c].site
                   status == IF check[c].success THEN "ONLINE" ELSE "OFFLINE"
                   active == IF ~check[c].changed THEN site[s].active
                             ELSE IF check[c].success THEN NoIncident ELSE check[c].doc
                   new == [site[s] EXCEPT !.status = status, !.failures = Consecutive(c),
                                          !.active = active]
        <3>1. active \in Ids \union {NoIncident} /\ site[s] \in Site
            BY <1>1 DEF TypeOK, Site, Check
        <3>2. new \in Site
            BY <1>2, <3>1 DEF Site
        <3>3. site' = site \/ site' = [site EXCEPT ![s] = new]
            BY <1>1, <1>11 DEF Update, TypeOK
        <3> HIDE DEF new
        <3> QED
            BY <3>2, <3>3 DEF TypeOK
    <2>2. check' \in [Checks -> Check]
        BY <1>11, FinishType DEF Update
    <2> QED
        BY <1>11, <2>1, <2>2 DEF TypeOK, Update, world
<1> QED
    BY <1>3, <1>4, <1>5, <1>6, <1>7, <1>8, <1>9, <1>10, <1>11 DEF CheckStep

LEMMA TypeFault ==
    ASSUME TypeOK, InHand,
           \/ \E c \in Checks : CallFails(c) \/ NotifyFails(c)
           \/ \E s \in Sites, kind \in Collections : DeleteManyFails(s, kind)
           \/ Crash
           \/ \E s \in Sites : Flip(s)
    PROVE  TypeOK'
<1>1. ASSUME NEW c \in Checks, CallFails(c) PROVE TypeOK'
    BY <1>1, IdleTypes, MonitoringAssumption DEF TypeOK, CallFails, Fault, Finish, db
<1>2. ASSUME NEW c \in Checks, NotifyFails(c) PROVE TypeOK'
    <2>1. check[c].doc \in Ids /\ check[c].site \in Sites
        BY <1>2 DEF InHand, NotifyFails, TypeOK, Check
    <2>2. alerts' \in [Ids -> [down : Nat, up : Nat]]
        BY <1>2, <2>1 DEF TypeOK, NotifyFails, Announce
    <2> QED
        BY <1>2, <2>1, <2>2, IdleTypes, MonitoringAssumption
        DEF TypeOK, NotifyFails, Announce, Fault, Finish
<1>3. ASSUME NEW s \in Sites, NEW kind \in Collections, DeleteManyFails(s, kind) PROVE TypeOK'
    BY <1>3, MonitoringAssumption DEF TypeOK, DeleteManyFails, Fault, db
<1>4. CASE Crash
    BY <1>4, IdleTypes, MonitoringAssumption DEF TypeOK, Crash, Fault, db
<1>5. ASSUME NEW s \in Sites, Flip(s) PROVE TypeOK'
    BY <1>5, MonitoringAssumption DEF TypeOK, Flip, db
<1> QED
    BY <1>1, <1>2, <1>3, <1>4, <1>5
-----------------------------------------------------------------------------
(* What a step may do to the incidents collection.                         *)

Closed == {"RESOLVED", "deleted"}

\* No incident disappears without trace, changes hands, or is open again.
Kept ==
    \A i \in Ids :
        /\ incident[i].status # "none" =>
              incident'[i].status # "none" /\ incident'[i].site = incident[i].site
        /\ incident[i].status \in Closed => incident'[i].status \in Closed

\* No incident is opened.
NoneOpened ==
    \A i \in Ids : incident'[i].status = "ACTIVE" =>
        incident[i].status = "ACTIVE" /\ incident'[i].site = incident[i].site

\* The one incident that Open creates did not exist.
Opened(c, i) ==
    /\ incident[i].status = "none"
    /\ incident' = [incident EXCEPT ![i] = [status |-> "ACTIVE", site |-> check[c].site,
                                            failed |-> Consecutive(c)]]

LEMMA PurgeKeeps ==
    ASSUME TypeOK, NEW s \in Sites, NEW kind \in Collections, DeleteMany(s, kind)
    PROVE  Kept /\ NoneOpened
<1>1. CASE kind # "incidents"
    BY <1>1 DEF DeleteMany, Kept, NoneOpened
<1>2. CASE kind = "incidents"
    BY <1>2 DEF DeleteMany, Kept, NoneOpened, TypeOK, Incident, Closed
<1> QED
    BY <1>1, <1>2

LEMMA ResolveKeeps ==
    ASSUME TypeOK, InHand, NEW c \in Checks, Resolve(c) PROVE Kept /\ NoneOpened
<1>1. check[c].doc \in Ids /\ incident[check[c].doc].status # "none"
    BY DEF InHand, Resolve
<1> QED
    BY <1>1, SMTT(30) DEF Resolve, Kept, NoneOpened, TypeOK, Incident, Closed

LEMMA CountKeeps ==
    ASSUME TypeOK, InHand, NEW c \in Checks, Count(c) PROVE Kept /\ NoneOpened
<1>1. check[c].doc \in Ids
    BY DEF InHand, Count
<1> QED
    <2>1. CASE UNCHANGED incident
        BY <2>1 DEF Kept, NoneOpened
    <2>2. ASSUME NEW n, incident' = [incident EXCEPT ![check[c].doc].failed = n]
          PROVE  Kept /\ NoneOpened
        BY <1>1, <2>2 DEF Kept, NoneOpened, TypeOK, Incident, Closed
    <2> QED
        BY <2>1, <2>2 DEF Count

LEMMA OpenKeeps ==
    ASSUME TypeOK, NEW c \in Checks, Open(c)
    PROVE  /\ Kept
           /\ \/ NoneOpened
              \/ /\ ~UniqueIndex \/ ActiveFor(check[c].site) = {}
                 /\ \E i \in Ids : Opened(c, i)
<1>1. CASE UNCHANGED incident
    BY <1>1 DEF Kept, NoneOpened
<1>2. CASE OpenNew(c, Consecutive(c)) /\ (~UniqueIndex \/ ActiveFor(check[c].site) = {})
    <2>1. PICK i \in Ids : Opened(c, i)
        BY <1>2 DEF OpenNew, Fresh, Opened
    <2>2. Kept
        BY <2>1 DEF Opened, Kept, TypeOK, Closed
    <2> QED
        BY <1>2, <2>1, <2>2
<1> QED
    BY <1>1, <1>2 DEF Open

\* Every other action leaves the collection alone.
LEMMA IncidentWriters ==
    ASSUME Next
    PROVE  \/ UNCHANGED incident
           \/ \E s \in Sites, kind \in Collections : DeleteMany(s, kind)
           \/ \E c \in Checks : Resolve(c) \/ Count(c) \/ Open(c)
<1>1. UserRequest => UNCHANGED incident
    BY DEF UserRequest, CreateSite, EditRead, EditSave, DeleteSite, db
<1>2. ASSUME NEW c \in Checks, NEW s \in Sites, SweepSnapshot(c, s) \/ ManualSnapshot(c, s)
      PROVE  UNCHANGED incident
    BY <1>2 DEF SweepSnapshot, ManualSnapshot, db
<1>3. ASSUME NEW c \in Checks, CheckStep(c)
      PROVE  UNCHANGED incident \/ Resolve(c) \/ Count(c) \/ Open(c)
    BY <1>3 DEF CheckStep, Probe, Record, Find, Reuse, Notify, Update, db
<1>4. ASSUME NEW c \in Checks, CallFails(c) \/ NotifyFails(c) PROVE UNCHANGED incident
    BY <1>4 DEF CallFails, NotifyFails, db
<1>5. (\E s \in Sites, kind \in Collections : DeleteManyFails(s, kind)) => UNCHANGED incident
    BY DEF DeleteManyFails, db
<1>6. Crash \/ (\E s \in Sites : Flip(s)) => UNCHANGED incident
    BY DEF Crash, Flip, db
<1> QED
    BY <1>1, <1>2, <1>3, <1>4, <1>5, <1>6 DEF Next

LEMMA IncidentStep ==
    ASSUME TypeOK, InHand, Next
    PROVE  /\ Kept
           /\ \/ NoneOpened
              \/ \E c \in Checks, i \in Ids :
                    /\ ~UniqueIndex \/ ActiveFor(check[c].site) = {}
                    /\ Opened(c, i)
<1>1. UNCHANGED incident => Kept /\ NoneOpened
    BY DEF Kept, NoneOpened
<1>2. ASSUME NEW c \in Checks, Open(c)
      PROVE  /\ Kept
             /\ \/ NoneOpened
                \/ \E d \in Checks, i \in Ids :
                      /\ ~UniqueIndex \/ ActiveFor(check[d].site) = {}
                      /\ Opened(d, i)
    BY <1>2, OpenKeeps
<1> QED
    BY <1>1, <1>2, IncidentWriters, PurgeKeeps, ResolveKeeps, CountKeeps

-----------------------------------------------------------------------------
(* The parts of the invariant.                                             *)

HandOf(k, inc) ==    \* InHand of one check
    /\ k.pc \in {"resolve", "count", "notify"} =>
          /\ k.doc \in Ids
          /\ inc[k.doc].status # "none"
          /\ inc[k.doc].site = k.site
    /\ k.pc = "notify" /\ k.success => inc[k.doc].status \in Closed
    /\ k.pc = "open" => ~k.success
    /\ k.pc = "reuse" => ~k.success

LEMMA HandUnfold == InHand <=> \A c \in Checks : HandOf(check[c], incident)
BY DEF InHand, HandOf, Closed

\* What a check that does not move holds stays good while incidents are kept.
LEMMA HandKept ==
    ASSUME NEW k, HandOf(k, incident), Kept PROVE HandOf(k, incident')
BY DEF HandOf, Kept

LEMMA IdleHand == HandOf(Idle, incident') /\ \A k : k.pc \in {"probe", "record", "find", "update"} => HandOf(k, incident')
BY DEF HandOf, Idle

\* A step of one check puts that check in the hand it should hold.
LEMMA MoveHand ==
    ASSUME TypeOK, InHand, Kept, NEW c \in Checks, CheckStep(c)
    PROVE  HandOf(check'[c], incident')
<1>1. check[c] \in Check /\ HandOf(check[c], incident) /\ HandOf(check[c], incident')
    BY HandUnfold, HandKept DEF TypeOK
<1>2. CASE Probe(c)
    <2>1. PICK up : check' = [check EXCEPT ![c].pc = "record", ![c].success = up]
        BY <1>2 DEF Probe
    <2>2. check'[c].pc = "record"
        BY <1>1, <2>1 DEF TypeOK, Check
    <2> QED
        BY <2>2, IdleHand
<1>3. CASE Record(c)
    BY <1>1, <1>3, IdleHand DEF Record, Goto, TypeOK, Check
<1>4. CASE Find(c)
    <2>1. CASE Goto(c, IF check[c].success THEN "update" ELSE "open")
        BY <1>1, <2>1 DEF Goto, TypeOK, Check, HandOf
    <2>2. ASSUME NEW i \in ActiveFor(check[c].site),
                 check' = [check EXCEPT ![c].pc = IF check[c].success THEN "resolve" ELSE "count",
                                        ![c].doc = i, ![c].failed = incident[i].failed]
          PROVE  HandOf(check'[c], incident')
        <3>1. i \in Ids /\ incident[i].status = "ACTIVE" /\ incident[i].site = check[c].site
            BY DEF ActiveFor
        <3>2. incident'[i].status # "none" /\ incident'[i].site = check[c].site
            BY <3>1 DEF Kept
        <3> QED
            BY <1>1, <2>2, <3>1, <3>2 DEF TypeOK, Check, HandOf
    <2> QED
        BY <1>4, <2>1, <2>2 DEF Find
<1>5. CASE Resolve(c)
    <2>1. CASE Finish(c)
        BY <2>1, IdleHand DEF Finish, TypeOK
    <2>2. CASE incident' = [incident EXCEPT ![check[c].doc].status = "RESOLVED"] /\ Goto(c, "notify")
        BY <1>1, <1>5, <2>2 DEF Resolve, Goto, TypeOK, Check, Incident, HandOf, Closed
    <2> QED
        BY <1>5, <2>1, <2>2 DEF Resolve
<1>6. CASE Count(c)
    BY <1>1, <1>6, IdleHand DEF Count, Goto, Finish, TypeOK, Check
<1>7. CASE Open(c)
    <2>1. ~check[c].success
        BY <1>1, <1>7 DEF Open, HandOf
    <2>2. CASE Goto(c, "reuse")
        BY <1>1, <2>1, <2>2 DEF Goto, TypeOK, Check, HandOf
    <2>3. CASE OpenNew(c, Consecutive(c))
        <3>1. PICK i \in Ids :
                /\ incident' = [incident EXCEPT ![i] = [status |-> "ACTIVE", site |-> check[c].site,
                                                        failed |-> Consecutive(c)]]
                /\ check' = [check EXCEPT ![c].pc = "notify", ![c].doc = i]
            BY <2>3 DEF OpenNew
        <3> QED
            BY <1>1, <2>1, <3>1 DEF TypeOK, Check, HandOf
    <2> QED
        BY <1>7, <2>2, <2>3 DEF Open
<1>8. CASE Reuse(c)
    <2>1. ~check[c].success
        BY <1>1, <1>8 DEF Reuse, HandOf
    <2>2. CASE Goto(c, "update")
        BY <1>1, <2>2, IdleHand DEF Goto, TypeOK, Check
    <2>3. ASSUME NEW i \in ActiveFor(check[c].site),
                 check' = [check EXCEPT ![c].pc = "notify", ![c].doc = i]
          PROVE  HandOf(check'[c], incident')
        <3>1. i \in Ids /\ incident[i].status = "ACTIVE" /\ incident[i].site = check[c].site
            BY DEF ActiveFor
        <3>2. incident'[i].status # "none" /\ incident'[i].site = check[c].site
            BY <3>1 DEF Kept
        <3> QED
            BY <1>1, <2>1, <2>3, <3>1, <3>2 DEF TypeOK, Check, HandOf
    <2> QED
        BY <1>8, <2>2, <2>3 DEF Reuse
<1>9. CASE Notify(c)
    <2>1. check'[c].pc = "update"
        BY <1>1, <1>9 DEF Notify, TypeOK, Check
    <2> QED
        BY <2>1, IdleHand
<1>10. CASE Update(c)
    BY <1>10, IdleHand DEF Update, Finish, TypeOK
<1> QED
    BY <1>2, <1>3, <1>4, <1>5, <1>6, <1>7, <1>8, <1>9, <1>10 DEF CheckStep

\* A step of one check leaves the others where they are.
LEMMA OthersStay ==
    ASSUME TypeOK, NEW c \in Checks, NEW d \in Checks, d # c,
           CheckStep(c) \/ CallFails(c) \/ NotifyFails(c)
    PROVE  check'[d] = check[d]
BY DEF TypeOK, CheckStep, CallFails, NotifyFails, Probe, Record, Find, Resolve, Count, Open,
       OpenNew, Reuse, Notify, Update, Goto, Finish

LEMMA InHandStep ==
    ASSUME TypeOK, InHand, Next PROVE InHand'
<1>1. Kept
    BY IncidentStep
<1>2. \A d \in Checks : HandOf(check[d], incident')
    BY <1>1, HandUnfold, HandKept
<1>3. SUFFICES ASSUME NEW d \in Checks PROVE HandOf(check'[d], incident')
    BY DEF InHand, HandOf, Closed
<1>4. ASSUME UNCHANGED check PROVE HandOf(check'[d], incident')
    BY <1>2, <1>4
<1>5. ASSUME UserRequest \/ \E s \in Sites, kind \in Collections :
                DeleteMany(s, kind) \/ DeleteManyFails(s, kind)
      PROVE  HandOf(check'[d], incident')
    BY <1>4, <1>5 DEF UserRequest, CreateSite, EditRead, EditSave, DeleteSite, DeleteMany, DeleteManyFails
<1>6. ASSUME NEW c \in Checks, NEW s \in Sites, SweepSnapshot(c, s) \/ ManualSnapshot(c, s)
      PROVE  HandOf(check'[d], incident')
    <2>1. d # c => check'[d] = check[d]
        BY <1>6 DEF SweepSnapshot, ManualSnapshot, Queue, TypeOK
    <2>2. d = c => check'[d].pc = "probe"
        BY <1>6 DEF SweepSnapshot, ManualSnapshot, Queue, TypeOK, Idle
    <2> QED
        BY <1>2, <2>1, <2>2, IdleHand
<1>7. ASSUME NEW c \in Checks, CheckStep(c) PROVE HandOf(check'[d], incident')
    BY <1>1, <1>2, <1>7, OthersStay, MoveHand
<1>8. ASSUME NEW c \in Checks, CallFails(c) \/ NotifyFails(c) PROVE HandOf(check'[d], incident')
    <2>1. check'[c] = Idle
        BY <1>8 DEF CallFails, NotifyFails, Finish, TypeOK
    <2> QED
        BY <1>2, <1>8, <2>1, OthersStay, IdleHand
<1>9. ASSUME Crash PROVE HandOf(check'[d], incident')
    BY <1>9, IdleHand DEF Crash
<1>10. ASSUME NEW s \in Sites, Flip(s) PROVE HandOf(check'[d], incident')
    BY <1>4, <1>10 DEF Flip
<1> QED
    BY <1>5, <1>6, <1>7, <1>8, <1>9, <1>10 DEF Next

LEMMA TypeNext ==
    ASSUME TypeOK, InHand, Next PROVE TypeOK'
BY TypeUser, TypePurge, TypeSnapshot, TypeStep, TypeFault DEF Next

\* Only the deletion of a site sets its cascade off, and no site comes back.
LEMMA PurgeStep ==
    ASSUME TypeOK, PurgeAfterDelete, Next PROVE PurgeAfterDelete'
<1>1. ASSUME NEW s \in Sites, DeleteSite(s) PROVE PurgeAfterDelete'
    BY <1>1 DEF DeleteSite, PurgeAfterDelete, TypeOK, Site
<1>2. ASSUME NEW s \in Sites, NEW enabled \in BOOLEAN, NEW n \in Thresholds,
             CreateSite(s, enabled, n)
      PROVE  PurgeAfterDelete'
    BY <1>2 DEF CreateSite, PurgeAfterDelete, TypeOK
<1>3. ASSUME \A s \in Sites : /\ site'[s].phase = site[s].phase
                              /\ cascade'[s] \subseteq cascade[s]
      PROVE  PurgeAfterDelete'
    BY <1>3 DEF PurgeAfterDelete
<1>4. ASSUME UNCHANGED <<site, cascade>> PROVE PurgeAfterDelete'
    BY <1>3, <1>4
<1>5. ASSUME NEW e \in Editors, EditSave(e) PROVE PurgeAfterDelete'
    <2>1. \A s \in Sites : site'[s].phase = site[s].phase
        BY <1>5 DEF EditSave, TypeOK, Site
    <2> QED
        BY <1>3, <1>5, <2>1 DEF EditSave
<1>6. ASSUME NEW c \in Checks, CheckStep(c) PROVE PurgeAfterDelete'
    <2>1. CASE Update(c)
        <3>1. \A s \in Sites : site'[s].phase = site[s].phase
            BY <2>1 DEF Update, TypeOK, Site
        <3> QED
            BY <1>3, <2>1, <3>1 DEF Update
    <2>2. CASE UNCHANGED <<site, cascade>>
        BY <1>4, <2>2
    <2> QED
        BY <1>6, <2>1, <2>2
        DEF CheckStep, Probe, Record, Find, Resolve, Count, Open, Reuse, Notify, db
<1>7. ASSUME NEW s \in Sites, NEW kind \in Collections,
             DeleteMany(s, kind) \/ DeleteManyFails(s, kind)
      PROVE  PurgeAfterDelete'
    BY <1>3, <1>7 DEF DeleteMany, DeleteManyFails, TypeOK, db
<1>8. Crash => PurgeAfterDelete'
    BY DEF Crash, PurgeAfterDelete
<1> QED
    BY <1>1, <1>2, <1>4, <1>5, <1>6, <1>7, <1>8
    DEF Next, UserRequest, EditRead, SweepSnapshot, ManualSnapshot, CallFails, NotifyFails, Flip, db

\* A recovery is announced by a check that holds a resolved incident, and a
\* resolved incident stays closed.
LEMMA UpStep ==
    ASSUME TypeOK, InHand, UpOnlyAfterResolve, Next PROVE UpOnlyAfterResolve'
<1>1. Kept
    BY IncidentStep
<1>2. ASSUME UNCHANGED alerts PROVE UpOnlyAfterResolve'
    BY <1>1, <1>2 DEF UpOnlyAfterResolve, Kept, Closed
<1>3. ASSUME NEW c \in Checks, check[c].pc = "notify", Announce(c) PROVE UpOnlyAfterResolve'
    <2>1. check[c].doc \in Ids
          /\ (check[c].success => incident[check[c].doc].status \in Closed)
        BY <1>3 DEF InHand, Closed
    <2>2. \A i \in Ids : alerts'[i].up > 0 =>
             alerts[i].up > 0 \/ (i = check[c].doc /\ check[c].success)
        BY <1>3, <2>1 DEF Announce, TypeOK
    <2> QED
        BY <1>1, <2>1, <2>2 DEF UpOnlyAfterResolve, Kept, Closed
<1>4. ASSUME NEW c \in Checks, CheckStep(c) PROVE UpOnlyAfterResolve'
    BY <1>2, <1>3, <1>4 DEF CheckStep, Notify, Probe, Record, Find, Resolve, Count, Open, Reuse,
                            Update, world
<1>5. ASSUME NEW c \in Checks, CallFails(c) \/ NotifyFails(c) PROVE UpOnlyAfterResolve'
    BY <1>2, <1>3, <1>5 DEF CallFails, NotifyFails
<1>6. UserRequest => UNCHANGED alerts
    BY DEF UserRequest, CreateSite, EditRead, EditSave, DeleteSite, world
<1> QED
    BY <1>2, <1>4, <1>5, <1>6
    DEF Next, DeleteMany, DeleteManyFails, SweepSnapshot, ManualSnapshot, Crash, Flip, world

\* The index refuses a second open incident; nothing else opens one.
LEMMA OneActiveStep ==
    ASSUME TypeOK, InHand, UniqueIndex, AtMostOneActive, Next PROVE AtMostOneActive'
<1>1. CASE NoneOpened
    BY <1>1 DEF NoneOpened, AtMostOneActive, ActiveFor
<1>2. ASSUME NEW c \in Checks, NEW i \in Ids, ActiveFor(check[c].site) = {}, Opened(c, i)
      PROVE  AtMostOneActive'
    <2>1. \A j \in Ids : j # i => incident'[j] = incident[j]
        BY <1>2 DEF Opened, TypeOK
    <2>2. incident'[i].site = check[c].site
        BY <1>2 DEF Opened, TypeOK
    <2> QED
        BY <1>2, <2>1, <2>2 DEF AtMostOneActive, ActiveFor
<1> QED
    BY <1>1, <1>2, IncidentStep

-----------------------------------------------------------------------------
(* The theorems.                                                           *)

\* The inductive invariant holds of every behaviour: any number of sweeps,
\* manual checks, edits, crashes and failed calls.
THEOREM Monitoring == Spec => []MonitoringInv
<1>1. MonitoringInv /\ [Next]_vars => MonitoringInv'
    <2> SUFFICES ASSUME MonitoringInv, [Next]_vars PROVE MonitoringInv'
        OBVIOUS
    <2>1. CASE UNCHANGED vars
        BY <2>1 DEF vars, MonitoringInv, TypeOK, InHand, PurgeAfterDelete, UpOnlyAfterResolve,
                    AtMostOneActive, ActiveFor
    <2>2. CASE Next
        <3>1. TypeOK' /\ InHand'
            BY <2>2, TypeNext, InHandStep DEF MonitoringInv
        <3>2. PurgeAfterDelete' /\ UpOnlyAfterResolve'
            BY <2>2, PurgeStep, UpStep DEF MonitoringInv
        <3>3. UniqueIndex => AtMostOneActive'
            BY <2>2, OneActiveStep DEF MonitoringInv
        <3> QED
            BY <3>1, <3>2, <3>3 DEF MonitoringInv
    <2> QED
        BY <2>1, <2>2
<1> QED
    BY <1>1, InitInv, PTL DEF Spec

\* "At most one incident per site can be active at a time" (MONITORING.md:102),
\* given the partial unique index (Incident.ts:76-83).
THEOREM OneActiveIncident ==
    ASSUME UniqueIndex PROVE Spec => []AtMostOneActive
<1>1. MonitoringInv => AtMostOneActive
    BY DEF MonitoringInv
<1> QED
    BY <1>1, Monitoring, PTL

\* No recovery is announced for an incident that is still open.
THEOREM RecoveryIsResolved == Spec => []UpOnlyAfterResolve
<1>1. MonitoringInv => UpOnlyAfterResolve
    BY DEF MonitoringInv
<1> QED
    BY <1>1, Monitoring, PTL

\* A resolved incident is never open again.
THEOREM ResolvedStaysResolved == Spec => ResolvedIsFinal
<1>1. MonitoringInv /\ [Next]_vars =>
        [\A i \in Ids : incident[i].status = "RESOLVED" =>
             incident'[i].status \in {"RESOLVED", "deleted"}]_vars
    BY IncidentStep DEF MonitoringInv, Kept, Closed
<1> QED
    BY <1>1, Monitoring, PTL DEF Spec, ResolvedIsFinal

-----------------------------------------------------------------------------
(* Refinement: the engine implements IncidentLifecycle.                    *)

Status == [i \in Ids |-> incident[i].status]
Owner  == [i \in Ids |-> incident[i].site]
Gone   == {s \in Sites : site[s].phase = "deleted"}

\* Only DeleteSite adds to the sites that are gone.
LEMMA GoneStep ==
    ASSUME TypeOK, Next, ~ \E s \in Sites : DeleteSite(s) PROVE Gone' = Gone
<1>1. ASSUME \A s \in Sites : site'[s].phase = "deleted" <=> site[s].phase = "deleted"
      PROVE  Gone' = Gone
    BY <1>1 DEF Gone
<1>2. ASSUME UNCHANGED site PROVE Gone' = Gone
    BY <1>2 DEF Gone
<1>3. ASSUME NEW s \in Sites, NEW enabled \in BOOLEAN, NEW n \in Thresholds,
             CreateSite(s, enabled, n)
      PROVE  Gone' = Gone
    <2>1. site[s].phase = "absent" /\ site'[s].phase = "live"
        BY <1>3 DEF CreateSite, TypeOK, NoSite
    <2>2. \A r \in Sites : r # s => site'[r] = site[r]
        BY <1>3 DEF CreateSite, TypeOK
    <2> QED
        BY <1>1, <2>1, <2>2
<1>4. ASSUME NEW e \in Editors, EditSave(e) PROVE Gone' = Gone
    BY <1>1, <1>4, ZenonT(60) DEF EditSave, TypeOK, Site
<1>5. ASSUME NEW c \in Checks, CheckStep(c) PROVE Gone' = Gone
    <2>1. Update(c) => Gone' = Gone
        BY <1>1 DEF Update, TypeOK, Site
    <2> QED
        BY <1>2, <1>5, <2>1 DEF CheckStep, Probe, Record, Find, Resolve, Count, Open, Reuse, Notify, db
<1> QED
    BY <1>2, <1>3, <1>4, <1>5
    DEF Next, UserRequest, EditRead, DeleteMany, DeleteManyFails, SweepSnapshot, ManualSnapshot,
        CallFails, NotifyFails, Crash, Flip, db

LEMMA LifecycleStep ==
    ASSUME MonitoringInv, UniqueIndex, Next
    PROVE  Lifecycle!Next \/ UNCHANGED <<Status, Owner, Gone>>
<1> USE DEF Status, Owner, Gone
<1>1. TypeOK /\ InHand /\ PurgeAfterDelete
    BY DEF MonitoringInv
<1>2. ASSUME NEW s \in Sites, DeleteSite(s) PROVE Lifecycle!DeleteSite(s)
    BY <1>1, <1>2 DEF DeleteSite, Lifecycle!DeleteSite, TypeOK, Site
<1>3. ASSUME NEW s \in Sites, NEW kind \in Collections, DeleteMany(s, kind)
      PROVE  Lifecycle!Purge(s) \/ UNCHANGED <<Status, Owner, Gone>>
    <2>1. s \in Gone /\ Gone' = Gone
        BY <1>1, <1>3 DEF DeleteMany, PurgeAfterDelete
    <2>2. CASE kind = "incidents"
        BY <1>1, <1>3, <2>1, <2>2 DEF DeleteMany, Lifecycle!Purge, TypeOK, Incident
    <2> QED
        BY <1>3, <2>1, <2>2 DEF DeleteMany
<1>4. ASSUME NEW c \in Checks, Resolve(c)
      PROVE  (\E i \in Ids : Lifecycle!Resolve(i)) \/ UNCHANGED <<Status, Owner, Gone>>
    <2>1. PICK i \in Ids : i = check[c].doc /\ incident[i].status # "none" /\ UNCHANGED site
        BY <1>1, <1>4 DEF InHand, Resolve
    <2>2. CASE incident[i].status = "ACTIVE"
        <3>1. incident' = [incident EXCEPT ![i].status = "RESOLVED"]
            BY <1>4, <2>1, <2>2 DEF Resolve
        <3>2. /\ Status' = [Status EXCEPT ![i] = "RESOLVED"]
              /\ Owner' = Owner /\ Gone' = Gone /\ Status[i] = "ACTIVE"
            BY <1>1, <2>1, <2>2, <3>1 DEF TypeOK, Incident
        <3>3. Lifecycle!Resolve(i)
            BY <3>2 DEF Lifecycle!Resolve
        <3> QED
            BY <3>3
    <2>3. CASE incident[i].status # "ACTIVE"
        BY <1>1, <1>4, <2>1, <2>3 DEF Resolve, TypeOK, Incident
    <2> QED
        BY <2>2, <2>3
<1>5. ASSUME NEW c \in Checks, Count(c) PROVE UNCHANGED <<Status, Owner, Gone>>
    <2>1. UNCHANGED site /\ check[c].doc \in Ids
        BY <1>1, <1>5 DEF InHand, Count
    <2>2. ASSUME NEW n, incident' = [incident EXCEPT ![check[c].doc].failed = n]
          PROVE  UNCHANGED <<Status, Owner>>
        BY <1>1, <2>1, <2>2 DEF TypeOK, Incident
    <2> QED
        BY <1>5, <2>1, <2>2 DEF Count
<1>6. ASSUME NEW c \in Checks, Open(c)
      PROVE  (\E i \in Ids, s \in Sites : Lifecycle!Open(i, s)) \/ UNCHANGED <<Status, Owner, Gone>>
    <2>1. UNCHANGED site /\ check[c].site \in Sites
        BY <1>1, <1>6 DEF Open, TypeOK, Check
    <2>s. PICK s \in Sites : s = check[c].site
        BY <2>1
    <2>2. ASSUME NEW i \in Ids, ActiveFor(s) = {}, Opened(c, i)
          PROVE  \E j \in Ids, r \in Sites : Lifecycle!Open(j, r)
        <3>1. Lifecycle!Open(i, s)
            BY <1>1, <2>1, <2>s, <2>2 DEF Opened, ActiveFor, Lifecycle!Open, Lifecycle!OpenFor, TypeOK, Incident
        <3> QED
            BY <3>1
    <2>3. UNCHANGED incident \/ \E i \in Ids : ActiveFor(s) = {} /\ Opened(c, i)
        BY <1>6, <2>s DEF Open, OpenNew, Fresh, Opened
    <2>4. UNCHANGED incident => UNCHANGED <<Status, Owner, Gone>>
        BY <2>1
    <2> HIDE DEF Status, Owner, Gone
    <2> QED
        BY <2>1, <2>2, <2>3, <2>4
<1>7. (~ \E s \in Sites : DeleteSite(s)) => UNCHANGED Gone
    BY <1>1, GoneStep
<1> QED
    BY <1>2, <1>3, <1>4, <1>5, <1>6, <1>7, IncidentWriters DEF Lifecycle!Next

\* The races, crashes and failed calls of the engine never show through: every
\* step opens an incident for a site that has none open, resolves an open one,
\* removes those of a deleted site, or changes no incident.
THEOREM EngineImplementsLifecycle ==
    ASSUME UniqueIndex PROVE Spec => ImplementsLifecycle
<1>1. Init => Lifecycle!Init
    BY Choices DEF Init, Lifecycle!Init, NoSite
<1>2. MonitoringInv /\ [Next]_vars => [Lifecycle!Next]_(Lifecycle!vars)
    BY LifecycleStep DEF vars, Lifecycle!vars, Status, Owner, Gone
<1> QED
    BY <1>1, <1>2, Monitoring, PTL DEF Spec, ImplementsLifecycle, Lifecycle!Spec

-----------------------------------------------------------------------------
(* Where a step takes a check, field by field.                             *)

Stays(c) ==
    /\ check'[c].site = check[c].site /\ check'[c].failures = check[c].failures
    /\ check'[c].threshold = check[c].threshold

Same(c) == Stays(c) /\ check'[c].success = check[c].success /\ check'[c].changed = check[c].changed

LEMMA ProbeMoves ==
    ASSUME TypeOK, NEW c \in Checks, Probe(c)
    PROVE  Stays(c) /\ check'[c].changed = check[c].changed /\ check'[c].pc = "record"
<1> DEFINE up == target[check[c].site] = "up"
<1>1. check' = [check EXCEPT ![c].pc = "record", ![c].success = up] /\ check[c] \in Check
    BY DEF Probe, TypeOK
<1> HIDE DEF up
<1> QED
    BY <1>1 DEF TypeOK, Check, Stays

LEMMA GotoMoves ==
    ASSUME TypeOK, NEW c \in Checks, NEW pc, Goto(c, pc)
    PROVE  /\ check'[c].pc = pc /\ Same(c)
           /\ check'[c].doc = check[c].doc /\ check'[c].failed = check[c].failed
<1>1. check[c] \in Check
    BY DEF TypeOK
<1> QED
    BY <1>1 DEF Goto, TypeOK, Check, Stays, Same

LEMMA FinishMoves ==
    ASSUME TypeOK, NEW c \in Checks, Finish(c)
    PROVE  check'[c].pc = "idle" /\ ~check'[c].changed /\ check'[c] = Idle
BY DEF Finish, TypeOK, Idle

LEMMA RecordMoves ==
    ASSUME TypeOK, NEW c \in Checks, Record(c)
    PROVE  /\ Same(c)
           /\ check'[c].pc = IF ~check[c].success /\ Consecutive(c) < check[c].threshold
                             THEN "update" ELSE "find"
<1> DEFINE pc == IF ~check[c].success /\ Consecutive(c) < check[c].threshold THEN "update" ELSE "find"
<1>1. Goto(c, pc)
    BY DEF Record
<1> HIDE DEF pc
<1>2. Same(c) /\ check'[c].pc = pc
    BY <1>1, GotoMoves
<1> QED
    BY <1>2 DEF pc

LEMMA FindMoves ==
    ASSUME TypeOK, NEW c \in Checks, Find(c)
    PROVE  /\ Same(c)
           /\ \/ ActiveFor(check[c].site) = {} /\ check'[c].pc = IF check[c].success THEN "update" ELSE "open"
              \/ /\ check'[c].doc \in ActiveFor(check[c].site)
                 /\ check'[c].pc = IF check[c].success THEN "resolve" ELSE "count"
                 /\ check'[c].failed = incident[check'[c].doc].failed
<1>1. check[c] \in Check
    BY DEF TypeOK
<1>2. ASSUME NEW pc, Goto(c, pc) PROVE Same(c) /\ check'[c].pc = pc
    BY <1>2, GotoMoves
<1>3. ASSUME NEW i \in ActiveFor(check[c].site), NEW pc,
             check' = [check EXCEPT ![c].pc = pc, ![c].doc = i, ![c].failed = incident[i].failed]
      PROVE  /\ Same(c) /\ check'[c].pc = pc /\ check'[c].doc = i
             /\ check'[c].failed = incident[i].failed
    BY <1>1, <1>3 DEF TypeOK, Check, Stays, Same
<1> QED
    BY <1>2, <1>3 DEF Find

LEMMA ResolveMoves ==
    ASSUME TypeOK, NEW c \in Checks, Resolve(c)
    PROVE  \/ /\ incident[check[c].doc].status = "deleted" /\ UNCHANGED incident
              /\ check'[c].pc = "idle" /\ ~check'[c].changed
           \/ /\ incident' = [incident EXCEPT ![check[c].doc].status = "RESOLVED"]
              /\ Same(c) /\ check'[c].pc = "notify" /\ check'[c].doc = check[c].doc
BY GotoMoves, FinishMoves DEF Resolve

LEMMA CountMoves ==
    ASSUME TypeOK, NEW c \in Checks, Count(c)
    PROVE  \/ /\ incident[check[c].doc].status = "deleted" /\ UNCHANGED incident
              /\ check'[c].pc = "idle" /\ ~check'[c].changed
           \/ /\ incident' = [incident EXCEPT ![check[c].doc].failed = Cap(check[c].failed + 1)]
              /\ Same(c) /\ check'[c].pc = "update" /\ check'[c].doc = check[c].doc
BY GotoMoves, FinishMoves DEF Count

LEMMA OpenMoves ==
    ASSUME TypeOK, NEW c \in Checks, Open(c)
    PROVE  /\ Same(c)
           /\ \/ UniqueIndex /\ ActiveFor(check[c].site) # {} /\ UNCHANGED incident /\ check'[c].pc = "reuse"
              \/ check'[c].pc = "notify" /\ check'[c].doc \in Ids /\ Opened(c, check'[c].doc)
<1>1. check[c] \in Check
    BY DEF TypeOK
<1>2. CASE Goto(c, "reuse")
    BY <1>2, GotoMoves DEF Open, OpenNew, TypeOK, Check
<1>3. CASE OpenNew(c, Consecutive(c))
    <2>1. PICK i \in Ids : Opened(c, i) /\ check' = [check EXCEPT ![c].pc = "notify", ![c].doc = i]
        BY <1>3 DEF OpenNew, Fresh, Opened
    <2>2. Same(c) /\ check'[c].pc = "notify" /\ check'[c].doc = i
        BY <1>1, <2>1 DEF TypeOK, Check, Stays, Same
    <2> QED
        BY <2>1, <2>2
<1> QED
    BY <1>2, <1>3 DEF Open

LEMMA ReuseMoves ==
    ASSUME TypeOK, NEW c \in Checks, Reuse(c)
    PROVE  /\ Same(c)
           /\ \/ check'[c].pc = "update"
              \/ check'[c].pc = "notify" /\ check'[c].doc \in ActiveFor(check[c].site)
<1>1. check[c] \in Check
    BY DEF TypeOK
<1>2. ASSUME NEW i \in ActiveFor(check[c].site), check' = [check EXCEPT ![c].pc = "notify", ![c].doc = i]
      PROVE  Same(c) /\ check'[c].pc = "notify" /\ check'[c].doc = i
    BY <1>1, <1>2 DEF TypeOK, Check, Stays, Same
<1> QED
    BY <1>2, GotoMoves DEF Reuse

LEMMA NotifyMoves ==
    ASSUME TypeOK, NEW c \in Checks, Notify(c)
    PROVE  /\ Stays(c) /\ check'[c].success = check[c].success /\ check'[c].changed = TRUE
           /\ check'[c].pc = "update" /\ check'[c].doc = check[c].doc
<1>1. check[c] \in Check
    BY DEF TypeOK
<1> QED
    BY <1>1 DEF Notify, TypeOK, Check, Stays

LEMMA SnapshotMoves ==
    ASSUME TypeOK, NEW c \in Checks, NEW s \in Sites, SweepSnapshot(c, s) \/ ManualSnapshot(c, s)
    PROVE  /\ check[c].pc = "idle" /\ site[s].phase = "live"
           /\ UNCHANGED <<site, incident, streak, alerts, faults>>
           /\ check'[c].pc = "probe" /\ check'[c].site = s /\ check'[c].failures = site[s].failures
           /\ check'[c].threshold = site[s].threshold /\ ~check'[c].changed
           /\ \A d \in Checks : d # c => check'[d] = check[d]
BY DEF SweepSnapshot, ManualSnapshot, Queue, TypeOK, Idle, db, world

\* The steps of a system in which nothing fails.
Undisturbed ==
    \/ UserRequest
    \/ \E s \in Sites, kind \in Collections : DeleteMany(s, kind)
    \/ \E c \in Checks, s \in Sites : SweepSnapshot(c, s) \/ ManualSnapshot(c, s)
    \/ \E c \in Checks : CheckStep(c)
    \/ \E s \in Sites : Flip(s)

LEMMA NoFault ==
    ASSUME TypeOK, Next, faults' = 0 PROVE Undisturbed /\ faults = 0
<1>1. faults \in Nat
    BY MonitoringAssumption DEF TypeOK
<1>2. ~Fault
    BY <1>1 DEF Fault
<1>3. Undisturbed
    BY <1>2 DEF Next, Undisturbed, CallFails, NotifyFails, DeleteManyFails, Crash
<1>4. UserRequest => UNCHANGED faults
    BY DEF UserRequest, CreateSite, EditRead, EditSave, DeleteSite, world
<1>5. \A c \in Checks : CheckStep(c) => UNCHANGED faults
    BY DEF CheckStep, Probe, Record, Find, Resolve, Count, Open, Reuse, Notify, Update, world
<1>6. UNCHANGED faults
    BY <1>3, <1>4, <1>5
    DEF Undisturbed, DeleteMany, SweepSnapshot, ManualSnapshot, Flip, world
<1> QED
    BY <1>3, <1>6

-----------------------------------------------------------------------------
(* What is owed is announced.                                              *)

\* Users, purges, snapshots and targets announce nothing, and disturb no announcement.
LEMMA Bystanders ==
    ASSUME TypeOK, Undisturbed, ~ \E c \in Checks : CheckStep(c)
    PROVE  /\ UNCHANGED <<alerts, streak>>
           /\ \A d \in Checks : check[d].pc # "idle" => check'[d] = check[d]
           /\ \A d \in Checks : check'[d] = check[d] \/ check'[d].pc = "probe"
           /\ \A i \in Ids : /\ incident'[i].status = "ACTIVE" => incident'[i] = incident[i]
                             /\ incident'[i].status = "RESOLVED" => incident'[i] = incident[i]
                             /\ incident'[i].status = "none" => incident'[i] = incident[i]
                             /\ incident'[i].site = incident[i].site
                             /\ incident'[i] = incident[i] \/ incident'[i].status = "deleted"
<1> DEFINE Goal ==
        /\ UNCHANGED <<alerts, streak>>
        /\ \A d \in Checks : check[d].pc # "idle" => check'[d] = check[d]
        /\ \A d \in Checks : check'[d] = check[d] \/ check'[d].pc = "probe"
        /\ \A i \in Ids : /\ incident'[i].status = "ACTIVE" => incident'[i] = incident[i]
                          /\ incident'[i].status = "RESOLVED" => incident'[i] = incident[i]
                          /\ incident'[i].status = "none" => incident'[i] = incident[i]
                          /\ incident'[i].site = incident[i].site
                          /\ incident'[i] = incident[i] \/ incident'[i].status = "deleted"
<1>1. UNCHANGED <<alerts, streak, check, incident>> => Goal
    OBVIOUS
<1>2. UserRequest => Goal
    BY <1>1 DEF UserRequest, CreateSite, EditRead, EditSave, DeleteSite, world, db
<1>3. ASSUME NEW s \in Sites, NEW kind \in Collections, DeleteMany(s, kind) PROVE Goal
    <2>1. UNCHANGED <<alerts, streak, check>>
        BY <1>3 DEF DeleteMany, world
    <2>2. CASE kind # "incidents"
        BY <1>1, <1>3, <2>1, <2>2 DEF DeleteMany
    <2>3. CASE kind = "incidents"
        <3>1. \A i \in Ids : incident'[i] = incident[i]
                             \/ (incident'[i].status = "deleted" /\ incident'[i].site = incident[i].site)
            BY <1>3, <2>3 DEF DeleteMany, TypeOK, Incident
        <3> QED
            BY <2>1, <3>1
    <2> QED
        BY <2>2, <2>3
<1>4. ASSUME NEW c \in Checks, NEW s \in Sites, SweepSnapshot(c, s) \/ ManualSnapshot(c, s) PROVE Goal
    <2>1. /\ check[c].pc = "idle" /\ check'[c].pc = "probe" /\ UNCHANGED <<incident, streak, alerts>>
          /\ \A d \in Checks : d # c => check'[d] = check[d]
        BY <1>4, SnapshotMoves
    <2> QED
        BY <2>1
<1>5. ASSUME NEW s \in Sites, Flip(s) PROVE Goal
    BY <1>1, <1>5 DEF Flip, db
<1> HIDE DEF Goal
<1>6. Goal
    BY <1>2, <1>3, <1>4, <1>5 DEF Undisturbed
<1> QED
    BY <1>6 DEF Goal

\* Whoever is about to resolve an incident has seen the site answer.
LEMMA ResolverSucceeds ==
    ASSUME TypeOK, Next, \A c \in Checks : check[c].pc = "resolve" => check[c].success,
           NEW d \in Checks, check'[d].pc = "resolve"
    PROVE  check'[d].success
<1>1. ASSUME check'[d] = check[d] PROVE check'[d].success
    BY <1>1
<1>2. ASSUME NEW c \in Checks, CheckStep(c) PROVE check'[d].success
    <2>1. CASE d = c
        BY <1>2, <2>1, ProbeMoves, RecordMoves, FindMoves, ResolveMoves, CountMoves, OpenMoves,
           ReuseMoves, NotifyMoves, FinishMoves DEF CheckStep, Update, Same
    <2>2. CASE d # c
        BY <1>1, <1>2, <2>2, OthersStay
    <2> QED
        BY <2>1, <2>2
<1>3. ASSUME NEW c \in Checks, CallFails(c) \/ NotifyFails(c) PROVE check'[d].success
    <2>1. d = c => check'[d].pc = "idle"
        BY <1>3, FinishMoves DEF CallFails, NotifyFails
    <2> QED
        BY <1>1, <1>3, <2>1, OthersStay
<1>4. ASSUME NEW c \in Checks, NEW s \in Sites, SweepSnapshot(c, s) \/ ManualSnapshot(c, s)
      PROVE  check'[d].success
    BY <1>1, <1>4, SnapshotMoves
<1>5. ~Crash
    BY DEF Crash, Idle
<1>6. UserRequest => UNCHANGED check
    BY DEF UserRequest, CreateSite, EditRead, EditSave, DeleteSite
<1> QED
    BY <1>1, <1>2, <1>3, <1>4, <1>5, <1>6 DEF Next, DeleteMany, DeleteManyFails, Flip, db

\* The announcements of one incident.
OwedOf(i) ==
    /\ incident[i].status \in {"ACTIVE", "RESOLVED"} => alerts[i].down > 0 \/ Announcing(i, FALSE)
    /\ incident[i].status = "RESOLVED" => alerts[i].up > 0 \/ Announcing(i, TRUE)

\* An announcement on its way stays so until it is made.
LEMMA AnnouncingStays ==
    ASSUME TypeOK, NEW c \in Checks, CheckStep(c), ~Notify(c), NEW i, NEW b, Announcing(i, b)
    PROVE  Announcing(i, b)'
<1>1. PICK d \in Checks : check[d].pc = "notify" /\ check[d].doc = i /\ check[d].success = b
    BY DEF Announcing
<1>2. check[c].pc # "notify"
    BY DEF CheckStep, Probe, Record, Find, Resolve, Count, Open, Reuse, Update
<1>3. check'[d] = check[d]
    BY <1>1, <1>2, OthersStay
<1> QED
    BY <1>1, <1>3 DEF Announcing

\* notify() makes the announcement of the check, and no other.
LEMMA NotifyAlerts ==
    ASSUME TypeOK, InHand, NEW c \in Checks, Notify(c)
    PROVE  /\ check[c].doc \in Ids /\ UNCHANGED <<incident, site, streak>>
           /\ alerts'[check[c].doc].down =
                  alerts[check[c].doc].down + (IF check[c].success THEN 0 ELSE 1)
           /\ alerts'[check[c].doc].up = alerts[check[c].doc].up + (IF check[c].success THEN 1 ELSE 0)
           /\ \A i \in Ids : i # check[c].doc => alerts'[i] = alerts[i]
<1>1. check[c].doc \in Ids
    BY DEF InHand, Notify
<1>2. alerts[check[c].doc].down \in Nat /\ alerts[check[c].doc].up \in Nat
    BY <1>1 DEF TypeOK
<1>3. UNCHANGED <<incident, site, streak>>
    BY DEF Notify
<1>4. CASE check[c].success
    BY <1>1, <1>2, <1>3, <1>4 DEF Notify, Announce, TypeOK
<1>5. CASE ~check[c].success
    BY <1>1, <1>2, <1>3, <1>5 DEF Notify, Announce, TypeOK
<1> QED
    BY <1>4, <1>5

LEMMA OwedByCheck ==
    ASSUME TypeOK, InHand, AlertsAreOwed, NEW c \in Checks, CheckStep(c),
           NEW i \in Ids, OwedOf(i)
    PROVE  OwedOf(i)'
<1>1. CASE Notify(c)
    <2>1. ASSUME NEW b \in BOOLEAN, Announcing(i, b)
          PROVE  Announcing(i, b)' \/ (i = check[c].doc /\ b = check[c].success)
        <3>1. PICK d \in Checks : check[d].pc = "notify" /\ check[d].doc = i /\ check[d].success = b
            BY <2>1 DEF Announcing
        <3>2. d # c => check'[d] = check[d]
            BY <1>1, OthersStay DEF CheckStep
        <3> QED
            BY <3>1, <3>2 DEF Announcing
    <2>2. alerts[i].down \in Nat /\ alerts[i].up \in Nat
        BY DEF TypeOK
    <2>3. alerts[i].down > 0 \/ (i = check[c].doc /\ ~check[c].success) => alerts'[i].down > 0
        BY <1>1, <2>2, NotifyAlerts
    <2>4. alerts[i].up > 0 \/ (i = check[c].doc /\ check[c].success) => alerts'[i].up > 0
        BY <1>1, <2>2, NotifyAlerts
    <2>5. incident' = incident
        BY <1>1, NotifyAlerts
    <2> QED
        BY <2>1, <2>3, <2>4, <2>5 DEF OwedOf
<1>2. CASE ~Notify(c)
    <2>1. UNCHANGED alerts
        BY <1>2 DEF CheckStep, Probe, Record, Find, Resolve, Count, Open, Reuse, Update, world
    <2>2. \A b \in BOOLEAN : Announcing(i, b) => Announcing(i, b)'
        BY <1>2, AnnouncingStays
    <2>3. ASSUME incident'[i].status \in {"ACTIVE", "RESOLVED"} => incident'[i].status = incident[i].status
          PROVE  OwedOf(i)'
        BY <2>1, <2>2, <2>3 DEF OwedOf
    <2>4. CASE Resolve(c)
        <3>1. CASE i = check[c].doc /\ incident' = [incident EXCEPT ![check[c].doc].status = "RESOLVED"]
            <4>a. incident'[i].status = "RESOLVED"
                BY <3>1 DEF TypeOK, Incident
            <4>1. check'[c].pc = "notify" /\ check'[c].doc = i /\ check'[c].success = check[c].success
                BY <2>4, <3>1, <4>a, ResolveMoves DEF Same
            <4>2. check[c].success /\ incident[i].status # "none"
                BY <2>4, <3>1 DEF AlertsAreOwed, Resolve, InHand
            <4>3. Announcing(i, TRUE)'
                BY <4>1, <4>2 DEF Announcing, TypeOK, Check
            <4>4. incident[i].status \in {"ACTIVE", "RESOLVED"}
                BY <2>4, <3>1, <4>1, <4>2, FinishMoves DEF Resolve, TypeOK, Incident
            <4> QED
                BY <2>1, <2>2, <4>3, <4>4 DEF OwedOf
        <3>2. CASE i # check[c].doc \/ UNCHANGED incident
            BY <2>3, <2>4, <3>2 DEF Resolve, TypeOK
        <3> QED
            BY <2>4, <3>1, <3>2 DEF Resolve
    <2>5. CASE Open(c)
        <3>1. CASE UNCHANGED incident
            BY <2>3, <3>1
        <3>2. CASE check'[c].pc = "notify" /\ check'[c].doc \in Ids /\ Opened(c, check'[c].doc) /\ Same(c)
            <4>1. CASE i = check'[c].doc
                <5>1. ~check'[c].success
                    BY <2>5, <3>2 DEF Open, InHand, Same
                <5>2. Announcing(i, FALSE)'
                    BY <3>2, <4>1, <5>1 DEF Announcing, Same, TypeOK, Check
                <5>3. incident'[i].status = "ACTIVE"
                    BY <3>2, <4>1 DEF Opened, TypeOK
                <5> QED
                    BY <5>2, <5>3 DEF OwedOf
            <4>2. CASE i # check'[c].doc
                BY <2>3, <3>2, <4>2 DEF Opened, TypeOK
            <4> QED
                BY <4>1, <4>2
        <3> QED
            BY <2>5, <3>1, <3>2, OpenMoves
    <2>6. CASE Count(c)
        <3>1. incident'[i].status = incident[i].status
            <4>1. ASSUME NEW n, incident' = [incident EXCEPT ![check[c].doc].failed = n]
                  PROVE  incident'[i].status = incident[i].status
                BY <4>1 DEF TypeOK, Incident
            <4> QED
                BY <2>6, <4>1, CountMoves
        <3> QED
            BY <2>3, <3>1
    <2>7. CASE UNCHANGED incident
        BY <2>3, <2>7
    <2> QED
        BY <1>2, <2>4, <2>5, <2>6, <2>7 DEF CheckStep, Probe, Record, Find, Reuse, Update, db
<1> QED
    BY <1>1, <1>2

LEMMA OwedStep ==
    ASSUME TypeOK, InHand, AlertsAreOwed, Next PROVE AlertsAreOwed'
<1>1. \A d \in Checks : check'[d].pc = "resolve" => check'[d].success
    BY ResolverSucceeds DEF AlertsAreOwed
<1>2. ASSUME faults' = 0, NEW i \in Ids PROVE OwedOf(i)'
    <2>1. Undisturbed /\ OwedOf(i)
        BY <1>2, NoFault DEF AlertsAreOwed, OwedOf
    <2>2. CASE \E c \in Checks : CheckStep(c)
        BY <2>1, <2>2, OwedByCheck
    <2>3. CASE ~ \E c \in Checks : CheckStep(c)
        <3>1. \A b \in BOOLEAN : Announcing(i, b) => Announcing(i, b)'
            BY <2>1, <2>3, Bystanders DEF Announcing
        <3>2. UNCHANGED alerts
            BY <2>1, <2>3, Bystanders
        <3>3. incident'[i].status \in {"ACTIVE", "RESOLVED"} => incident'[i].status = incident[i].status
            BY <2>1, <2>3, Bystanders
        <3> QED
            BY <2>1, <3>1, <3>2, <3>3 DEF OwedOf
    <2> QED
        BY <2>2, <2>3
<1> QED
    BY <1>1, <1>2 DEF AlertsAreOwed, OwedOf

LEMMA OwedInvariant == Spec => []AlertsAreOwed
<1>1. Init => AlertsAreOwed
    <2> SUFFICES ASSUME Init PROVE AlertsAreOwed
        OBVIOUS
    <2>1. \A c \in Checks : check[c].pc = "idle"
        BY DEF Init, Idle
    <2>2. \A i \in Ids : incident[i].status = "none"
        BY DEF Init
    <2> QED
        BY <2>1, <2>2 DEF AlertsAreOwed
<1>2. MonitoringInv /\ AlertsAreOwed /\ [Next]_vars => AlertsAreOwed'
    <2>1. UNCHANGED vars /\ AlertsAreOwed => AlertsAreOwed'
        BY DEF vars, AlertsAreOwed, Announcing
    <2> QED
        BY <2>1, OwedStep DEF MonitoringInv
<1> QED
    BY <1>1, <1>2, Monitoring, PTL DEF Spec

\* Whatever checks race, a site no check is working on has all its incidents
\* announced, and the recovery of exactly those that are resolved, as long as no
\* call has failed.
THEOREM QuietMeansAnnounced == Spec => []AnnouncedWhenQuiet
<1>1. MonitoringInv /\ AlertsAreOwed => AnnouncedWhenQuiet
    <2> SUFFICES ASSUME MonitoringInv, AlertsAreOwed, NEW i \in Ids, faults = 0,
                        incident[i].status \in {"ACTIVE", "RESOLVED"}, Quiet(incident[i].site)
                 PROVE  alerts[i].down > 0 /\ (incident[i].status = "RESOLVED" <=> alerts[i].up > 0)
        BY DEF AnnouncedWhenQuiet
    <2>1. \A b \in BOOLEAN : ~Announcing(i, b)
        BY DEF MonitoringInv, InHand, Announcing, Quiet
    <2>2. alerts[i].down > 0 /\ (incident[i].status = "RESOLVED" => alerts[i].up > 0)
        BY <2>1 DEF AlertsAreOwed
    <2>3. alerts[i].up > 0 => incident[i].status = "RESOLVED"
        BY DEF MonitoringInv, UpOnlyAfterResolve
    <2> QED
        BY <2>2, <2>3
<1> QED
    BY <1>1, Monitoring, OwedInvariant, PTL

-----------------------------------------------------------------------------
(* Checks that neither fail nor overlap: what is cached agrees.            *)
(* A check works on its own site alone; CacheInv is shown for that site,   *)
(* and stands for the others.                                              *)

InFlight(c) == check[c].pc # "idle"

\* CacheAgrees of one site.
AgreesOf(s) ==
    site[s].phase = "live" /\ Quiet(s) => site[s].failures = streak[s] /\ ActiveFor(s) = Pointer(s)

CacheParts ==
    /\ AbsentIsBlank
    /\ \A s \in Sites : AgreesOf(s)
    /\ \A c \in Checks : CountsTheHistory(c) /\ HoldsTheIncident(c)

LEMMA CacheUnfold == CacheInv <=> CacheParts
BY DEF CacheInv, CacheAgrees, AgreesOf, Pointer, CacheParts

LEMMA CacheNext == CacheInv' <=> CacheParts'
BY CacheUnfold, PTL

\* Only what an incident's status and owner say makes it a site's open one.
LEMMA ActiveSame ==
    ASSUME \A i \in Ids : incident'[i].site = incident[i].site /\ incident'[i].status = incident[i].status
    PROVE  \A s \in Sites : ActiveFor(s)' = ActiveFor(s)
BY DEF ActiveFor

\* A check that does not move keeps what it goes by, when its site loses open
\* incidents only by being deleted.
LEMMA CheckKept ==
    ASSUME NEW c \in Checks, check'[c] = check[c], NEW s, s = check[c].site,
           CountsTheHistory(c), HoldsTheIncident(c),
           site'[s].phase = "absent" => site[s].phase = "absent",
           site'[s].phase = "live" => site[s].phase = "live" /\ ActiveFor(s)' = ActiveFor(s),
           site'[s].active = site[s].active, streak'[s] = streak[s],
           ActiveFor(s)' \subseteq ActiveFor(s)
    PROVE  CountsTheHistory(c)' /\ HoldsTheIncident(c)'
<1>1. Consecutive(c)' = Consecutive(c)
    BY DEF Consecutive
<1>2. CountsTheHistory(c)'
    BY <1>1 DEF CountsTheHistory
<1>3. Pointer(s)' = Pointer(s)
    BY DEF Pointer
<1>4. HoldsTheIncident(c)'
    BY <1>3 DEF HoldsTheIncident
<1> QED
    BY <1>2, <1>4

\* A check that is not in flight goes by nothing.
LEMMA IdleHolds ==
    ASSUME NEW c \in Checks, check'[c].pc = "idle", ~check'[c].changed
    PROVE  CountsTheHistory(c)' /\ HoldsTheIncident(c)'
BY DEF CountsTheHistory, HoldsTheIncident

\* Steps that leave the checks and the histories alone.
LEMMA CacheKept ==
    ASSUME TypeOK, CacheInv, UNCHANGED <<check, streak>>,
           \A s \in Sites :
               /\ site'[s].failures = site[s].failures /\ site'[s].active = site[s].active
               /\ site'[s].phase = "absent" <=> site[s].phase = "absent"
               /\ site'[s].phase = "live" => site[s].phase = "live" /\ ActiveFor(s)' = ActiveFor(s)
               /\ ActiveFor(s)' \subseteq ActiveFor(s)
    PROVE  CacheInv'
<1>1. AbsentIsBlank'
    BY DEF CacheInv, AbsentIsBlank
<1>2. \A s \in Sites : AgreesOf(s)'
    BY CacheUnfold DEF CacheParts, AgreesOf, Quiet, Pointer
<1>3. ASSUME NEW c \in Checks PROVE CountsTheHistory(c)' /\ HoldsTheIncident(c)'
    <2>1. check[c].site \in Sites /\ check'[c] = check[c]
        BY DEF TypeOK, Check
    <2> QED
        BY <2>1, CheckKept DEF CacheInv
<1> QED
    BY <1>1, <1>2, <1>3, CacheNext DEF CacheParts

LEMMA EditPhase ==
    ASSUME TypeOK, NEW e \in Editors, EditSave(e)
    PROVE  \A s \in Sites : site'[s].phase = site[s].phase
BY DEF EditSave, TypeOK, Site

LEMMA CacheUser ==
    ASSUME TypeOK, CacheInv, UserRequest PROVE CacheInv'
<1>1. ASSUME NEW r \in Sites, NEW enabled \in BOOLEAN, NEW n \in Thresholds,
             CreateSite(r, enabled, n)
      PROVE  CacheInv'
    <2>1. /\ UNCHANGED <<check, streak, incident>> /\ site[r].phase = "absent"
          /\ site'[r].phase = "live" /\ site'[r].failures = 0 /\ site'[r].active = NoIncident
          /\ \A s \in Sites : s # r => site'[s] = site[s]
        BY <1>1 DEF CreateSite, world, TypeOK, NoSite
    <2>2. \A s \in Sites : ActiveFor(s)' = ActiveFor(s)
        BY <2>1, ActiveSame
    <2>3. AbsentIsBlank'
        BY <2>1, <2>2 DEF CacheInv, AbsentIsBlank
    <2>4. \A s \in Sites : AgreesOf(s)'
        <3>1. streak[r] = 0 /\ ActiveFor(r) = {}
            BY <2>1 DEF CacheInv, AbsentIsBlank
        <3> QED
            BY <2>1, <2>2, <3>1, CacheUnfold DEF CacheParts, AgreesOf, Quiet, Pointer
    <2>5. ASSUME NEW c \in Checks PROVE CountsTheHistory(c)' /\ HoldsTheIncident(c)'
        <3>1. CountsTheHistory(c) /\ HoldsTheIncident(c) /\ check[c].site \in Sites
            BY DEF CacheInv, TypeOK, Check
        <3>2. CASE InFlight(c)
            <4>1. check[c].site # r
                BY <2>1, <3>1, <3>2 DEF CountsTheHistory, InFlight
            <4> QED
                BY <2>1, <2>2, <3>1, <4>1, CheckKept
        <3>3. CASE ~InFlight(c)
            BY <2>1, <3>1, <3>3, IdleHolds DEF InFlight, HoldsTheIncident
        <3> QED
            BY <3>2, <3>3
    <2> QED
        BY <2>3, <2>4, <2>5, CacheNext DEF CacheParts
<1>2. ASSUME UNCHANGED <<check, streak, incident>>,
             \A s \in Sites :
                 /\ site'[s].failures = site[s].failures /\ site'[s].active = site[s].active
                 /\ site'[s].phase = "absent" <=> site[s].phase = "absent"
                 /\ site'[s].phase = "live" => site[s].phase = "live"
      PROVE  CacheInv'
    BY <1>2, ActiveSame, CacheKept
<1>3. ASSUME NEW e \in Editors, EditSave(e) PROVE CacheInv'
    <2>1. \A s \in Sites : site'[s].phase = site[s].phase
        BY <1>3, EditPhase
    <2>2. \A s \in Sites : site'[s].failures = site[s].failures
        BY <1>3 DEF EditSave, TypeOK, Site
    <2>3. \A s \in Sites : site'[s].active = site[s].active
        BY <1>3 DEF EditSave, TypeOK, Site
    <2> QED
        BY <1>2, <1>3, <2>1, <2>2, <2>3 DEF EditSave, world
<1>4. ASSUME NEW s \in Sites, DeleteSite(s) PROVE CacheInv'
    BY <1>2, <1>4 DEF DeleteSite, world, TypeOK, Site
<1>5. ASSUME NEW e \in Editors, NEW s \in Sites, NEW m \in {"pause", "resume", "keep"},
             NEW n \in Thresholds, EditRead(e, s, m, n)
      PROVE  CacheInv'
    BY <1>2, <1>5 DEF EditRead, db, world
<1> QED
    BY <1>1, <1>3, <1>4, <1>5 DEF UserRequest

LEMMA CachePurge ==
    ASSUME TypeOK, PurgeAfterDelete, CacheInv, NEW r \in Sites, NEW kind \in Collections,
           DeleteMany(r, kind)
    PROVE  CacheInv'
<1>1. UNCHANGED <<check, streak, site>> /\ site[r].phase = "deleted"
    BY DEF DeleteMany, world, PurgeAfterDelete
<1>2. \A i \in Ids : \/ incident'[i] = incident[i]
                     \/ /\ incident[i].site = r /\ incident'[i].site = r
                        /\ incident'[i].status = "deleted"
    BY DEF DeleteMany, TypeOK, Incident
<1>3. \A s \in Sites : ActiveFor(s)' \subseteq ActiveFor(s) /\ (s # r => ActiveFor(s)' = ActiveFor(s))
    BY <1>2 DEF ActiveFor
<1> QED
    BY <1>1, <1>3, CacheKept

LEMMA CacheSnapshot ==
    ASSUME TypeOK, CacheInv, Alone', NEW c \in Checks, NEW s \in Sites,
           SweepSnapshot(c, s) \/ ManualSnapshot(c, s)
    PROVE  CacheInv'
<1>1. /\ check[c].pc = "idle" /\ site[s].phase = "live"
      /\ UNCHANGED <<site, incident, streak>>
      /\ check'[c].pc = "probe" /\ check'[c].site = s /\ check'[c].failures = site[s].failures
      /\ ~check'[c].changed
      /\ \A d \in Checks : d # c => check'[d] = check[d]
    BY SnapshotMoves
<1>2. \A r \in Sites : ActiveFor(r)' = ActiveFor(r)
    BY <1>1, ActiveSame
<1>3. Quiet(s)
    BY <1>1 DEF Quiet, Alone
<1>4. site[s].failures = streak[s] /\ ActiveFor(s) = Pointer(s)
    BY <1>1, <1>3, CacheUnfold DEF CacheParts, AgreesOf
<1>5. \A r \in Sites : Quiet(r)' => Quiet(r)
    BY <1>1 DEF Quiet
<1>6. AbsentIsBlank' /\ \A r \in Sites : AgreesOf(r)'
    BY <1>1, <1>2, <1>5, CacheUnfold DEF CacheParts, AgreesOf, AbsentIsBlank, Pointer
<1>7. CountsTheHistory(c)' /\ HoldsTheIncident(c)'
    <2>1. ActiveFor(check[c].site)' = ActiveFor(s)' /\ Pointer(check[c].site)' = Pointer(s)
        BY <1>1 DEF ActiveFor, Pointer
    <2> QED
        BY <1>1, <1>2, <1>4, <2>1 DEF CountsTheHistory, HoldsTheIncident, Pointer
<1>8. ASSUME NEW d \in Checks, d # c PROVE CountsTheHistory(d)' /\ HoldsTheIncident(d)'
    <2>1. check[d].site \in Sites /\ check'[d] = check[d]
        BY <1>1, <1>8 DEF TypeOK, Check
    <2> QED
        BY <1>1, <1>2, <2>1, CheckKept DEF CacheInv
<1> QED
    BY <1>6, <1>7, <1>8, CacheNext DEF CacheParts

\* What a step of a check leaves alone.
LEMMA Elsewhere ==
    ASSUME TypeOK, InHand, NEW c \in Checks, CheckStep(c), NEW s \in Sites, s = check[c].site
    PROVE  /\ InFlight(c) /\ (check'[c].pc = "idle" \/ check'[c].site = s)
           /\ \A d \in Checks : d # c => check'[d] = check[d]
           /\ \A r \in Sites : site'[r].phase = site[r].phase /\ site'[r].threshold = site[r].threshold
           /\ \A r \in Sites : r # s => /\ site'[r] = site[r] /\ streak'[r] = streak[r]
                                        /\ ActiveFor(r)' = ActiveFor(r)
           /\ \A i \in Ids : incident[i].status = "ACTIVE" /\ incident[i].site # s =>
                                incident'[i] = incident[i]
<1>1. InFlight(c)
    BY DEF InFlight, CheckStep, Probe, Record, Find, Resolve, Count, Open, Reuse, Notify, Update
<1>2. check'[c].pc = "idle" \/ check'[c].site = s
    BY ProbeMoves, RecordMoves, FindMoves, ResolveMoves, CountMoves, OpenMoves, ReuseMoves,
       NotifyMoves, FinishMoves DEF CheckStep, Update, Same, Stays
<1>3. \A d \in Checks : d # c => check'[d] = check[d]
    BY OthersStay
<1>4. /\ \A r \in Sites : site'[r].phase = site[r].phase /\ site'[r].threshold = site[r].threshold
      /\ \A r \in Sites : r # s => site'[r] = site[r]
    <2>1. CASE Update(c)
        <3>1. ASSUME NEW st, NEW n, NEW a,
                     site' = [site EXCEPT ![s].status = st, ![s].failures = n, ![s].active = a]
              PROVE  /\ \A r \in Sites : /\ site'[r].phase = site[r].phase
                                         /\ site'[r].threshold = site[r].threshold
                     /\ \A r \in Sites : r # s => site'[r] = site[r]
            BY <3>1 DEF TypeOK, Site
        <3> QED
            BY <2>1, <3>1 DEF Update
    <2>2. CASE UNCHANGED site
        BY <2>2
    <2> QED
        BY <2>1, <2>2 DEF CheckStep, Probe, Record, Find, Resolve, Count, Open, Reuse, Notify, db
<1>5. \A r \in Sites : r # s => streak'[r] = streak[r]
    <2>1. CASE Record(c)
        BY <2>1 DEF Record, TypeOK
    <2>2. CASE UNCHANGED streak
        BY <2>2
    <2> QED
        BY <2>1, <2>2 DEF CheckStep, Probe, Find, Resolve, Count, Open, Reuse, Notify, Update, world
<1>6. \A i \in Ids : \/ incident'[i] = incident[i]
                     \/ incident[i].site = s /\ incident'[i].site = s
                     \/ incident[i].status = "none" /\ incident'[i].site = s
    <2>1. CASE Resolve(c) \/ Count(c)
        <3>1. check[c].doc \in Ids /\ incident[check[c].doc].site = s
            BY <2>1 DEF InHand, Resolve, Count
        <3>2. ASSUME NEW n, \/ incident' = [incident EXCEPT ![check[c].doc].status = n]
                            \/ incident' = [incident EXCEPT ![check[c].doc].failed = n]
              PROVE  \A i \in Ids : \/ incident'[i] = incident[i]
                                    \/ incident[i].site = s /\ incident'[i].site = s
            BY <3>1, <3>2 DEF TypeOK, Incident
        <3> QED
            BY <2>1, <3>2 DEF Resolve, Count
    <2>2. CASE Open(c)
        <3>1. ASSUME NEW j \in Ids, Opened(c, j)
              PROVE  \A i \in Ids : \/ incident'[i] = incident[i]
                                    \/ incident[i].status = "none" /\ incident'[i].site = s
            BY <3>1 DEF Opened, TypeOK
        <3> QED
            BY <2>2, <3>1, OpenMoves
    <2>3. CASE UNCHANGED incident
        BY <2>3
    <2> QED
        BY <2>1, <2>2, <2>3 DEF CheckStep, Probe, Record, Find, Reuse, Notify, Update, db
<1>7. \A r \in Sites : r # s => ActiveFor(r)' = ActiveFor(r)
    BY <1>6 DEF ActiveFor
<1> QED
    BY <1>1, <1>2, <1>3, <1>4, <1>5, <1>6, <1>7

\* CountsTheHistory and HoldsTheIncident of a check of site s.
CountsAt(c, s) ==
    LET x == check[c]
    IN  x.pc # "idle" =>
            /\ site[s].phase # "absent"
            /\ x.pc \in {"probe", "record"} => x.failures = streak[s]
            /\ x.pc \notin {"probe", "record"} => streak[s] = Consecutive(c)
            /\ x.pc \in {"find", "count", "open", "notify"} /\ ~x.success => streak[s] >= x.threshold

HoldsAt(c, s) ==
    LET x     == check[c]
        open  == ActiveFor(s)
        live  == site[s].phase = "live"
        holds == \/ x.pc \in {"resolve", "count"}
                 \/ x.pc = "notify" /\ ~x.success
                 \/ x.pc = "update" /\ ~x.success /\ x.changed
    IN  /\ x.pc # "reuse"
        /\ x.pc = "resolve" => x.success
        /\ x.pc = "count" => ~x.success
        /\ x.changed => x.pc = "update"
        /\ x.pc = "open" \/ (x.pc \in {"notify", "update"} /\ x.success) => open = {}
        /\ holds => open \subseteq {x.doc} /\ (live => x.doc \in open)
        /\ \/ x.pc \in {"probe", "record", "find", "resolve", "count"}
           \/ x.pc = "update" /\ ~x.changed
           => open \subseteq Pointer(s) /\ (live => open = Pointer(s))

LEMMA AtSite ==
    ASSUME NEW c, NEW s, s = check[c].site
    PROVE  (CountsTheHistory(c) <=> CountsAt(c, s)) /\ (HoldsTheIncident(c) <=> HoldsAt(c, s))
BY DEF CountsTheHistory, CountsAt, HoldsTheIncident, HoldsAt

LEMMA AtSiteNext ==
    ASSUME NEW c, NEW s, s = check'[c].site
    PROVE  (CountsTheHistory(c)' <=> CountsAt(c, s)') /\ (HoldsTheIncident(c)' <=> HoldsAt(c, s)')
<1>1. ActiveFor(check[c].site)' = ActiveFor(s)' /\ Pointer(check[c].site)' = Pointer(s)'
    BY DEF ActiveFor, Pointer
<1> QED
    BY <1>1 DEF CountsTheHistory, CountsAt, HoldsTheIncident, HoldsAt

\* What a check leaves when it is done with site s.
SettledAt(c, s) ==
    check[c].pc = "idle" =>
        /\ ~check[c].changed
        /\ site[s].phase = "live" => site[s].failures = streak[s] /\ ActiveFor(s) = Pointer(s)

LEMMA CacheFromOne ==
    ASSUME TypeOK, InHand, CacheInv, Alone, NEW c \in Checks, CheckStep(c),
           NEW s \in Sites, s = check[c].site,
           check'[c].pc # "idle" => CountsAt(c, s)' /\ HoldsAt(c, s)',
           SettledAt(c, s)'
    PROVE  CacheInv'
<1>1. /\ InFlight(c) /\ (check'[c].pc = "idle" \/ check'[c].site = s)
      /\ \A d \in Checks : d # c => check'[d] = check[d]
      /\ \A r \in Sites : site'[r].phase = site[r].phase
      /\ \A r \in Sites : r # s => /\ site'[r] = site[r] /\ streak'[r] = streak[r]
                                   /\ ActiveFor(r)' = ActiveFor(r)
    BY Elsewhere
<1>2. site[s].phase # "absent"
    BY <1>1 DEF CacheInv, CountsTheHistory, InFlight
<1>3. AbsentIsBlank'
    BY <1>1, <1>2 DEF CacheInv, AbsentIsBlank
<1>4. ASSUME NEW r \in Sites PROVE AgreesOf(r)'
    <2>1. CASE r = s
        <3>1. Quiet(s)' => check'[c].pc = "idle"
            BY <1>1 DEF Quiet
        <3> QED
            BY <2>1, <3>1 DEF AgreesOf, SettledAt
    <2>2. CASE r # s
        <3>1. Quiet(r)' => Quiet(r)
            BY <1>1, <2>2 DEF Quiet
        <3>2. Pointer(r)' = Pointer(r)
            BY <1>1, <2>2 DEF Pointer
        <3> QED
            BY <1>1, <2>2, <3>1, <3>2, CacheUnfold DEF CacheParts, AgreesOf
    <2> QED
        BY <2>1, <2>2
<1>5. CountsTheHistory(c)' /\ HoldsTheIncident(c)'
    <2>1. CASE check'[c].pc = "idle"
        BY <2>1, IdleHolds DEF SettledAt
    <2>2. CASE check'[c].pc # "idle"
        BY <1>1, <2>2, AtSiteNext
    <2> QED
        BY <2>1, <2>2
<1>6. ASSUME NEW d \in Checks, d # c PROVE CountsTheHistory(d)' /\ HoldsTheIncident(d)'
    <2>1. CountsTheHistory(d) /\ HoldsTheIncident(d) /\ check[d].site \in Sites /\ check'[d] = check[d]
        BY <1>1, <1>6 DEF CacheInv, TypeOK, Check
    <2>2. CASE check[d].pc = "idle"
        BY <2>1, <2>2, IdleHolds DEF HoldsTheIncident
    <2>3. CASE check[d].pc # "idle"
        <3>1. check[d].site # s
            BY <1>1, <1>6, <2>3 DEF Alone, InFlight
        <3> QED
            BY <1>1, <2>1, <3>1, CheckKept
    <2> QED
        BY <2>2, <2>3
<1> QED
    BY <1>3, <1>4, <1>5, <1>6, CacheNext DEF CacheParts

\* The check and its site, after a step of it.
GoesOn(c, s) == (check[c].pc # "idle" => CountsAt(c, s) /\ HoldsAt(c, s)) /\ SettledAt(c, s)

LEMMA CountsOn ==
    ASSUME NEW c \in Checks, NEW s \in Sites, UNCHANGED streak,
           site'[s].phase = site[s].phase, Same(c), CountsAt(c, s), check[c].pc # "idle",
           check[c].pc \notin {"probe", "record"}, check'[c].pc \notin {"probe", "record"},
           \/ check[c].pc \in {"find", "count", "open", "notify"}
           \/ check[c].success
           \/ check'[c].pc = "update"
    PROVE  CountsAt(c, s)'
<1>1. Consecutive(c)' = Consecutive(c)
    BY DEF Consecutive, Same, Stays
<1> QED
    BY <1>1 DEF CountsAt, Same, Stays

LEMMA CheckNumbers ==
    ASSUME TypeOK, NEW c \in Checks
    PROVE  /\ check[c].failures \in 0 .. FailureCap /\ check[c].threshold \in 1 .. FailureCap
           /\ Consecutive(c) \in 0 .. FailureCap
<1>1. check[c].failures \in 0 .. FailureCap /\ check[c].threshold \in Thresholds
    BY DEF TypeOK, Check
<1>2. Cap(check[c].failures + 1) \in 0 .. FailureCap
    BY <1>1, CapType, MonitoringAssumption
<1>3. check[c].threshold \in 1 .. FailureCap
    BY <1>1, MonitoringAssumption
<1>4. 0 \in 0 .. FailureCap
    BY MonitoringAssumption
<1> QED
    BY <1>1, <1>2, <1>3, <1>4 DEF Consecutive

LEMMA GoesOnEarly ==
    ASSUME TypeOK, InHand, CacheInv, NEW c \in Checks, NEW s \in Sites, s = check[c].site,
           Probe(c) \/ Record(c) \/ Find(c)
    PROVE  GoesOn(c, s)'
<1>1. InFlight(c) /\ CountsAt(c, s) /\ HoldsAt(c, s)
    BY AtSite DEF CacheInv, InFlight, Probe, Record, Find
<1>2. UNCHANGED <<site, incident>>
    BY DEF Probe, Record, Find, db
<1>3. ActiveFor(s)' = ActiveFor(s) /\ Pointer(s)' = Pointer(s)
    BY <1>2 DEF ActiveFor, Pointer
<1>4. CASE Probe(c)
    <2>1. /\ check[c].pc = "probe" /\ check'[c].pc = "record" /\ UNCHANGED streak
          /\ check'[c].failures = check[c].failures /\ check'[c].changed = check[c].changed
        BY <1>4, ProbeMoves DEF Probe, Stays, world
    <2> QED
        BY <1>1, <1>2, <1>3, <2>1 DEF CountsAt, HoldsAt, GoesOn, SettledAt
<1>5. CASE Record(c)
    <2>1. /\ check[c].pc = "record" /\ Same(c)
          /\ check'[c].pc = IF ~check[c].success /\ Consecutive(c) < check[c].threshold
                            THEN "update" ELSE "find"
        BY <1>5, RecordMoves DEF Record
    <2>2. Consecutive(c)' = Consecutive(c)
        BY <2>1 DEF Consecutive, Same, Stays
    <2>3. streak'[s] = Consecutive(c)
        <3>1. check[c].failures = streak[s]
            BY <1>1, <2>1 DEF CountsAt
        <3>2. streak'[s] = IF check[c].success THEN 0 ELSE Cap(streak[s] + 1)
            BY <1>5 DEF Record, TypeOK
        <3> QED
            BY <3>1, <3>2 DEF Consecutive
    <2>4. Consecutive(c) \in Nat /\ check[c].threshold \in Nat
        BY CheckNumbers, MonitoringAssumption
    <2>5. CountsAt(c, s)'
        BY <1>1, <1>2, <2>1, <2>2, <2>3, <2>4 DEF CountsAt, Same, Stays
    <2>6. HoldsAt(c, s)'
        BY <1>1, <1>2, <1>3, <2>1 DEF HoldsAt, Same, Stays
    <2> QED
        BY <2>1, <2>5, <2>6 DEF GoesOn, SettledAt
<1>6. CASE Find(c)
    <2>1. /\ check[c].pc = "find" /\ UNCHANGED streak /\ Same(c)
          /\ \/ ActiveFor(s) = {} /\ check'[c].pc = IF check[c].success THEN "update" ELSE "open"
             \/ /\ check'[c].doc \in ActiveFor(s)
                /\ check'[c].pc = IF check[c].success THEN "resolve" ELSE "count"
        BY <1>6, FindMoves DEF Find, world
    <2>2. CountsAt(c, s)'
        BY <1>1, <1>2, <2>1, CountsOn
    <2>3. check'[c].doc \in ActiveFor(s) => ActiveFor(s) \subseteq {check'[c].doc}
        BY <1>1, <2>1 DEF HoldsAt, Pointer
    <2>4. HoldsAt(c, s)'
        BY <1>1, <1>2, <1>3, <2>1, <2>3 DEF HoldsAt, Same, Stays
    <2> QED
        BY <2>1, <2>2, <2>4 DEF GoesOn, SettledAt
<1> QED
    BY <1>4, <1>5, <1>6

LEMMA GoesOnIncident ==
    ASSUME TypeOK, InHand, CacheInv, NEW c \in Checks, NEW s \in Sites, s = check[c].site,
           Resolve(c) \/ Count(c) \/ Open(c)
    PROVE  GoesOn(c, s)'
<1>1. InFlight(c) /\ CountsAt(c, s) /\ HoldsAt(c, s)
    BY AtSite DEF CacheInv, InFlight, Resolve, Count, Open
<1>2. UNCHANGED <<site, streak>>
    BY DEF Resolve, Count, Open, world
<1>3. Pointer(s)' = Pointer(s)
    BY <1>2 DEF Pointer
<1>4. ASSUME check[c].pc \in {"resolve", "count"}, incident[check[c].doc].status = "deleted",
             UNCHANGED incident, check'[c].pc = "idle", ~check'[c].changed
      PROVE  GoesOn(c, s)'
    <2>1. check[c].doc \notin ActiveFor(s)
        BY <1>4 DEF ActiveFor
    <2>2. site[s].phase # "live"
        BY <1>1, <1>4, <2>1 DEF HoldsAt
    <2> QED
        BY <1>2, <1>4, <2>2 DEF GoesOn, SettledAt
<1>5. CASE Resolve(c)
    <2>1. check[c].pc = "resolve" /\ check[c].doc \in Ids
        BY <1>5 DEF Resolve, InHand
    <2>2. ASSUME incident' = [incident EXCEPT ![check[c].doc].status = "RESOLVED"], Same(c),
                 check'[c].pc = "notify", check'[c].doc = check[c].doc
          PROVE  GoesOn(c, s)'
        <3>1. CountsAt(c, s)'
            BY <1>1, <1>2, <2>1, <2>2, CountsOn DEF HoldsAt
        <3>2. ActiveFor(s)' = {}
            <4>1. \A i \in Ids : incident'[i].status = "ACTIVE" =>
                                    incident'[i] = incident[i] /\ i # check[c].doc
                BY <2>1, <2>2 DEF TypeOK, Incident
            <4>2. ActiveFor(s) \subseteq {check[c].doc}
                BY <1>1, <2>1 DEF HoldsAt
            <4> QED
                BY <4>1, <4>2 DEF ActiveFor
        <3>3. HoldsAt(c, s)'
            BY <1>1, <2>1, <2>2, <3>2 DEF HoldsAt, Same, Stays
        <3> QED
            BY <2>2, <3>1, <3>3 DEF GoesOn, SettledAt
    <2> QED
        BY <1>4, <1>5, <2>1, <2>2, ResolveMoves
<1>6. CASE Count(c)
    <2>1. check[c].pc = "count" /\ check[c].doc \in Ids
        BY <1>6 DEF Count, InHand
    <2>2. ASSUME NEW n, incident' = [incident EXCEPT ![check[c].doc].failed = n], Same(c),
                 check'[c].pc = "update", check'[c].doc = check[c].doc
          PROVE  GoesOn(c, s)'
        <3>1. CountsAt(c, s)'
            BY <1>1, <1>2, <2>1, <2>2, CountsOn
        <3>2. ActiveFor(s)' = ActiveFor(s)
            <4>1. \A i \in Ids : incident'[i].status = incident[i].status /\ incident'[i].site = incident[i].site
                BY <2>1, <2>2 DEF TypeOK, Incident
            <4> QED
                BY <4>1 DEF ActiveFor
        <3>3. HoldsAt(c, s)'
            BY <1>1, <1>2, <1>3, <2>1, <2>2, <3>2 DEF HoldsAt, Same, Stays
        <3> QED
            BY <2>2, <3>1, <3>3 DEF GoesOn, SettledAt
    <2> QED
        BY <1>4, <1>6, <2>1, <2>2, CountMoves
<1>7. CASE Open(c)
    <2>1. check[c].pc = "open" /\ ~check[c].success /\ ActiveFor(s) = {}
        BY <1>1, <1>7 DEF Open, InHand, HoldsAt
    <2>2. /\ Same(c) /\ check'[c].pc = "notify" /\ check'[c].doc \in Ids /\ Opened(c, check'[c].doc)
        BY <1>7, <2>1, OpenMoves
    <2>3. CountsAt(c, s)'
        BY <1>1, <1>2, <2>1, <2>2, CountsOn
    <2>4. ActiveFor(s)' = {check'[c].doc}
        <3> DEFINE i == check'[c].doc
        <3>1. incident'[i].status = "ACTIVE" /\ incident'[i].site = s
            BY <2>2 DEF Opened, TypeOK
        <3>2. \A j \in Ids : j # i => incident'[j] = incident[j]
            BY <2>2 DEF Opened, TypeOK
        <3> HIDE DEF i
        <3>3. ActiveFor(s)' = {i}
            BY <2>1, <2>2, <3>1, <3>2 DEF ActiveFor, i
        <3> QED
            BY <3>3 DEF i
    <2>5. HoldsAt(c, s)'
        BY <1>1, <2>1, <2>2, <2>4 DEF HoldsAt, Same, Stays
    <2> QED
        BY <2>2, <2>3, <2>5 DEF GoesOn, SettledAt
<1> QED
    BY <1>5, <1>6, <1>7

LEMMA GoesOnLate ==
    ASSUME TypeOK, InHand, CacheInv, NEW c \in Checks, NEW s \in Sites, s = check[c].site,
           Reuse(c) \/ Notify(c) \/ Update(c)
    PROVE  GoesOn(c, s)'
<1>1. InFlight(c) /\ CountsAt(c, s) /\ HoldsAt(c, s)
    BY AtSite DEF CacheInv, InFlight, Reuse, Notify, Update
<1>2. UNCHANGED <<incident, streak>>
    BY DEF Reuse, Notify, Update, db, world
<1>3. ActiveFor(s)' = ActiveFor(s)
    BY <1>2 DEF ActiveFor
<1>4. ~Reuse(c)
    BY <1>1 DEF HoldsAt, Reuse
<1>5. CASE Notify(c)
    <2>1. /\ check[c].pc = "notify" /\ UNCHANGED site /\ Stays(c)
          /\ check'[c].success = check[c].success /\ check'[c].changed = TRUE
          /\ check'[c].pc = "update" /\ check'[c].doc = check[c].doc
        BY <1>5, NotifyMoves DEF Notify
    <2>2. Consecutive(c)' = Consecutive(c)
        BY <2>1 DEF Consecutive, Stays
    <2>3. CountsAt(c, s)'
        BY <1>1, <1>2, <2>1, <2>2 DEF CountsAt, Stays
    <2>4. HoldsAt(c, s)'
        BY <1>1, <1>3, <2>1 DEF HoldsAt
    <2> QED
        BY <2>1, <2>3, <2>4 DEF GoesOn, SettledAt
<1>6. CASE Update(c)
    <2>1. check[c].pc = "update" /\ check'[c].pc = "idle" /\ ~check'[c].changed
        BY <1>6, FinishMoves DEF Update
    <2>2. ASSUME site[s].phase = "live"
          PROVE  site'[s].failures = streak[s] /\ ActiveFor(s) = Pointer(s)'
        <3> DEFINE a == IF ~check[c].changed THEN site[s].active
                        ELSE IF check[c].success THEN NoIncident ELSE check[c].doc
        <3>1. site'[s].failures = Consecutive(c) /\ site'[s].active = a
            BY <1>6, <2>2 DEF Update, TypeOK, Site
        <3>2. Consecutive(c) = streak[s]
            BY <1>1, <2>1 DEF CountsAt
        <3>3. CASE ~check[c].changed
            BY <1>1, <2>1, <2>2, <3>1, <3>2, <3>3 DEF HoldsAt, Pointer
        <3>4. CASE check[c].changed /\ check[c].success
            BY <1>1, <2>1, <2>2, <3>1, <3>2, <3>4 DEF HoldsAt, Pointer
        <3>5. CASE check[c].changed /\ ~check[c].success
            <4>1. ActiveFor(s) = {check[c].doc}
                BY <1>1, <2>1, <2>2, <3>5 DEF HoldsAt
            <4>2. check[c].doc # NoIncident
                BY <4>1, MonitoringAssumption DEF ActiveFor, Ids, NoIncident
            <4> QED
                BY <3>1, <3>2, <3>5, <4>1, <4>2 DEF Pointer
        <3> QED
            BY <3>3, <3>4, <3>5
    <2>3. site'[s].phase = site[s].phase
        BY <1>6 DEF Update, TypeOK, Site
    <2> QED
        BY <1>2, <1>3, <2>1, <2>2, <2>3 DEF GoesOn, SettledAt
<1> QED
    BY <1>4, <1>5, <1>6

LEMMA CacheByCheck ==
    ASSUME TypeOK, InHand, CacheInv, Alone, NEW c \in Checks, CheckStep(c) PROVE CacheInv'
<1>1. PICK s \in Sites : s = check[c].site
    BY DEF TypeOK, Check
<1>2. GoesOn(c, s)'
    BY <1>1, GoesOnEarly, GoesOnIncident, GoesOnLate DEF CheckStep
<1> QED
    BY <1>1, <1>2, CacheFromOne DEF GoesOn

LEMMA CacheStep ==
    ASSUME TypeOK, InHand, PurgeAfterDelete, CacheInv, Alone, Alone', Next PROVE CacheInv'
<1>1. Undisturbed
    BY NoFault DEF Alone
<1>2. ASSUME NEW s \in Sites, Flip(s) PROVE CacheInv'
    <2>1. UNCHANGED <<check, streak, site, incident>>
        BY <1>2 DEF Flip, db
    <2> QED
        BY <2>1, ActiveSame, CacheKept
<1> QED
    BY <1>1, <1>2, CacheUser, CachePurge, CacheSnapshot, CacheByCheck DEF Undisturbed

LEMMA CacheInvariant == Spec /\ []Alone => []CacheInv
<1>1. Init => CacheInv
    <2> SUFFICES ASSUME Init PROVE CacheInv
        OBVIOUS
    <2>1. \A c \in Checks : check[c] = Idle
        BY DEF Init
    <2>2. AbsentIsBlank /\ \A s \in Sites : AgreesOf(s)
        BY DEF Init, AbsentIsBlank, AgreesOf, ActiveFor, NoSite
    <2>3. \A c \in Checks : CountsTheHistory(c) /\ HoldsTheIncident(c)
        BY <2>1 DEF CountsTheHistory, HoldsTheIncident, Idle
    <2> QED
        BY <2>2, <2>3, CacheUnfold DEF CacheParts
<1>2. MonitoringInv /\ CacheInv /\ Alone /\ Alone' /\ [Next]_vars => CacheInv'
    <2> SUFFICES ASSUME MonitoringInv, CacheInv, Alone, Alone', [Next]_vars PROVE CacheInv'
        OBVIOUS
    <2>1. CASE UNCHANGED vars
        <3>1. UNCHANGED <<check, streak, site, incident>>
            BY <2>1 DEF vars
        <3> QED
            BY <3>1, ActiveSame, CacheKept DEF MonitoringInv
    <2> QED
        BY <2>1, CacheStep DEF MonitoringInv
<1> QED
    BY <1>1, <1>2, Monitoring, PTL DEF Spec

\* Where no two checks of a site overlap and none fails, a site between checks has
\* the failure count of its history and the pointer to its open incident: whatever
\* users edit and delete meanwhile, for any number of sites and sweeps, and whether or
\* not the database has the unique index.
THEOREM CachedFieldsAgree == Spec /\ []Alone => []CacheAgrees
<1>1. CacheInv => CacheAgrees
    BY DEF CacheInv
<1> QED
    BY <1>1, CacheInvariant, PTL

\* An incident is opened only on failureThreshold failures in a row, by the threshold
\* the check was queued with, where checks neither overlap nor fail.
THEOREM OpensOnStreak == Spec /\ []Alone => OpensOnConsecutiveFailures
<1>1. CacheInv /\ MonitoringInv =>
        [\A c \in Checks :
            check[c].pc = "open" /\ check'[c].pc = "notify" =>
                streak[check[c].site] >= check[c].threshold]_vars
    <2>1. ASSUME CacheInv, MonitoringInv, NEW c \in Checks, check[c].pc = "open"
          PROVE  streak[check[c].site] >= check[c].threshold
        BY <2>1 DEF CacheInv, CountsTheHistory, MonitoringInv, InHand
    <2> QED
        BY <2>1
<1> QED
    BY <1>1, CacheInvariant, Monitoring, PTL DEF OpensOnConsecutiveFailures

-----------------------------------------------------------------------------
(* One announcement per transition.                                        *)

\* AlertsInTurn of one incident, and of one check.
TurnOf(i) ==
    /\ alerts[i].up <= alerts[i].down /\ alerts[i].down <= 1
    /\ incident[i].status = "none" => alerts[i].down = 0

TurnBy(c) ==
    /\ check[c].pc = "notify" /\ ~check[c].success => alerts[check[c].doc].down = 0
    /\ check[c].pc = "resolve" \/ (check[c].pc = "notify" /\ check[c].success) =>
          alerts[check[c].doc].down = 1 /\ alerts[check[c].doc].up = 0

LEMMA TurnUnfold == AlertsInTurn <=> (\A i \in Ids : TurnOf(i)) /\ (\A c \in Checks : TurnBy(c))
BY DEF AlertsInTurn, OneAlertPerTransition, TurnOf, TurnBy

\* A check whose incident is announced by nobody else stays in turn.
LEMMA TurnKept ==
    ASSUME NEW d \in Checks, check'[d] = check[d], alerts'[check[d].doc] = alerts[check[d].doc],
           TurnBy(d)
    PROVE  TurnBy(d)'
BY DEF TurnBy

LEMMA TurnByCheck ==
    ASSUME TypeOK, InHand, UpOnlyAfterResolve, AlertsAreOwed, CacheInv, Alone, AlertsInTurn,
           NEW c \in Checks, CheckStep(c)
    PROVE  AlertsInTurn'
<1>1. PICK s \in Sites : s = check[c].site
    BY DEF TypeOK, Check
<1>2. InFlight(c) /\ \A d \in Checks : d # c => check'[d] = check[d]
    BY <1>1, Elsewhere
<1>3. CountsAt(c, s) /\ HoldsAt(c, s)
    BY <1>1, <1>2, AtSite DEF CacheInv
<1>4. Kept
    <2>1. Next
        BY DEF Next
    <2> QED
        BY <2>1, IncidentStep
<1>5. \A i \in Ids : TurnOf(i)
    BY TurnUnfold
<1>6. \A d \in Checks : TurnBy(d)
    BY TurnUnfold
<1>7. CASE Notify(c)
    <2>a. PICK i \in Ids : i = check[c].doc
        BY <1>7, NotifyAlerts
    <2>1. /\ UNCHANGED incident /\ incident[i].site = s
          /\ alerts'[i].down = alerts[i].down + (IF check[c].success THEN 0 ELSE 1)
          /\ alerts'[i].up = alerts[i].up + (IF check[c].success THEN 1 ELSE 0)
          /\ \A j \in Ids : j # i => alerts'[j] = alerts[j]
        BY <1>1, <1>7, <2>a, NotifyAlerts DEF Notify, InHand
    <2>2. check[c].pc = "notify" /\ check'[c].pc = "update"
        BY <1>7, NotifyMoves DEF Notify
    <2>3. alerts[i].down \in Nat /\ alerts[i].up \in Nat
        BY <2>1 DEF TypeOK
    <2>4. incident[i].status # "none"
        BY <1>7, <2>a DEF Notify, InHand
    <2>5. \A j \in Ids : TurnOf(j)'
        <3>1. TurnOf(i)'
            <4>1. IF check[c].success THEN alerts[i].down = 1 /\ alerts[i].up = 0 ELSE alerts[i].down = 0
                BY <1>6, <2>a, <2>2 DEF TurnBy
            <4>2. alerts[i].up <= alerts[i].down
                BY <1>5, <2>1 DEF TurnOf
            <4>3. alerts'[i].up <= alerts'[i].down /\ alerts'[i].down <= 1
                BY <2>1, <2>3, <4>1, <4>2
            <4> QED
                BY <2>1, <2>4, <4>3 DEF TurnOf
        <3>2. \A j \in Ids : j # i => TurnOf(j)'
            BY <1>5, <2>1 DEF TurnOf
        <3> QED
            BY <3>1, <3>2
    <2>6. ASSUME NEW d \in Checks, d # c PROVE TurnBy(d)'
        <3>1. CASE check[d].pc \in {"resolve", "notify"}
            <4>1. check[d].doc \in Ids /\ incident[check[d].doc].site = check[d].site
                BY <3>1 DEF InHand
            <4>2. check[d].site # s
                BY <1>1, <1>2, <2>6, <3>1 DEF Alone, InFlight
            <4>3. check[d].doc # i
                BY <2>1, <4>1, <4>2
            <4> QED
                BY <1>2, <1>6, <2>1, <2>6, <4>1, <4>3, TurnKept
        <3>2. CASE check[d].pc \notin {"resolve", "notify"}
            BY <1>2, <2>6, <3>2 DEF TurnBy
        <3> QED
            BY <3>1, <3>2
    <2>7. TurnBy(c)'
        BY <2>2 DEF TurnBy
    <2>8. AlertsInTurn' <=> ((\A j \in Ids : TurnOf(j)') /\ (\A d \in Checks : TurnBy(d)'))
        BY DEF AlertsInTurn, OneAlertPerTransition, TurnOf, TurnBy
    <2> QED
        BY <2>5, <2>6, <2>7, <2>8
<1>8. CASE ~Notify(c)
    <2>1. UNCHANGED alerts
        BY <1>8 DEF CheckStep, Probe, Record, Find, Resolve, Count, Open, Reuse, Update, world
    <2>2. \A j \in Ids : TurnOf(j)'
        BY <1>4, <1>5, <2>1 DEF TurnOf, Kept
    <2>3. \A d \in Checks : d # c => TurnBy(d)'
        BY <1>2, <1>6, <2>1 DEF TurnBy
    <2>4. TurnBy(c)'
        <3>1. CASE Find(c)
            <4>1. CASE check'[c].pc = "resolve"
                <5>1. check'[c].doc \in ActiveFor(s)
                    BY <1>1, <3>1, <4>1, FindMoves
                <5> DEFINE i == check'[c].doc
                <5>2. i \in Ids /\ incident[i].status = "ACTIVE" /\ incident[i].site = s
                    BY <5>1 DEF ActiveFor
                <5>3. ~Announcing(i, FALSE)
                    <6>1. \A d \in Checks : check[d].pc = "notify" /\ check[d].doc = i => d = c
                        BY <1>1, <1>2, <5>2 DEF Alone, InHand, InFlight
                    <6> QED
                        BY <3>1, <6>1 DEF Announcing, Find
                <5>4. alerts[i].down > 0
                    BY <5>2, <5>3 DEF AlertsAreOwed, Alone
                <5>5. alerts[i].up = 0
                    <6>1. alerts[i].up \in Nat
                        BY <5>2 DEF TypeOK
                    <6>2. ~(alerts[i].up > 0)
                        BY <5>2 DEF UpOnlyAfterResolve
                    <6> QED
                        BY <6>1, <6>2
                <5>6. alerts[i].down = 1
                    <6>1. alerts[i].down \in Nat /\ alerts[i].down <= 1
                        BY <1>5, <5>2 DEF TypeOK, TurnOf
                    <6> QED
                        BY <5>4, <6>1
                <5> QED
                    BY <2>1, <4>1, <5>5, <5>6 DEF TurnBy
            <4>2. CASE check'[c].pc # "resolve"
                BY <1>1, <3>1, <4>2, FindMoves DEF TurnBy
            <4> QED
                BY <4>1, <4>2
        <3>2. CASE Resolve(c)
            <4>1. check[c].pc = "resolve" /\ check[c].success
                BY <1>3, <3>2 DEF Resolve, HoldsAt
            <4>2. alerts[check[c].doc].down = 1 /\ alerts[check[c].doc].up = 0
                BY <1>6, <4>1 DEF TurnBy
            <4>3. CASE check'[c].pc = "idle"
                BY <4>3 DEF TurnBy
            <4>4. CASE Same(c) /\ check'[c].pc = "notify" /\ check'[c].doc = check[c].doc
                BY <2>1, <4>1, <4>2, <4>4 DEF TurnBy, Same
            <4> QED
                BY <3>2, <4>3, <4>4, ResolveMoves
        <3>3. CASE Open(c)
            <4>1. ~check[c].success /\ ActiveFor(s) = {}
                BY <1>3, <3>3 DEF Open, InHand, HoldsAt
            <4>2. /\ Same(c) /\ check'[c].pc = "notify" /\ check'[c].doc \in Ids
                  /\ Opened(c, check'[c].doc)
                BY <1>1, <3>3, <4>1, OpenMoves
            <4>3. alerts[check'[c].doc].down = 0
                BY <1>5, <4>2 DEF TurnOf, Opened
            <4> QED
                BY <2>1, <4>1, <4>2, <4>3 DEF TurnBy, Same
        <3>4. CASE Reuse(c)
            BY <1>3, <3>4 DEF Reuse, HoldsAt
        <3>5. check'[c].pc \in {"record", "find", "update", "idle"} => TurnBy(c)'
            BY DEF TurnBy
        <3> QED
            BY <1>8, <3>1, <3>2, <3>3, <3>4, <3>5, ProbeMoves, RecordMoves, CountMoves, FinishMoves
            DEF CheckStep, Update
    <2>5. AlertsInTurn' <=> ((\A j \in Ids : TurnOf(j)') /\ (\A d \in Checks : TurnBy(d)'))
        BY DEF AlertsInTurn, OneAlertPerTransition, TurnOf, TurnBy
    <2> QED
        BY <2>2, <2>3, <2>4, <2>5
<1> QED
    BY <1>7, <1>8

LEMMA TurnStep ==
    ASSUME MonitoringInv, AlertsAreOwed, CacheInv, Alone, Alone', AlertsInTurn, Next
    PROVE  AlertsInTurn'
<1>1. TypeOK /\ InHand /\ UpOnlyAfterResolve /\ Undisturbed
    BY NoFault DEF MonitoringInv, Alone
<1>2. CASE \E c \in Checks : CheckStep(c)
    BY <1>1, <1>2, TurnByCheck
<1>3. CASE ~ \E c \in Checks : CheckStep(c)
    <2>1. /\ UNCHANGED alerts
          /\ \A d \in Checks : check'[d] = check[d] \/ check'[d].pc = "probe"
          /\ \A i \in Ids : incident'[i].status = "none" => incident'[i] = incident[i]
        BY <1>1, <1>3, Bystanders
    <2> QED
        BY <2>1 DEF AlertsInTurn, OneAlertPerTransition
<1> QED
    BY <1>2, <1>3

LEMMA TurnInvariant == Spec /\ []Alone => []AlertsInTurn
<1>1. Init => AlertsInTurn
    <2> SUFFICES ASSUME Init PROVE AlertsInTurn
        OBVIOUS
    <2>1. \A c \in Checks : check[c].pc = "idle"
        BY DEF Init, Idle
    <2>2. \A i \in Ids : alerts[i].down = 0 /\ alerts[i].up = 0
        BY DEF Init
    <2> QED
        BY <2>1, <2>2 DEF AlertsInTurn, OneAlertPerTransition
<1>2. MonitoringInv /\ AlertsAreOwed /\ CacheInv /\ Alone /\ Alone' /\ AlertsInTurn /\ [Next]_vars
        => AlertsInTurn'
    <2>1. UNCHANGED vars /\ AlertsInTurn => AlertsInTurn'
        BY DEF vars, AlertsInTurn, OneAlertPerTransition
    <2> QED
        BY <2>1, TurnStep
<1> QED
    BY <1>1, <1>2, Monitoring, OwedInvariant, CacheInvariant, PTL DEF Spec

\* One SITE_DOWN per incident, one SITE_UP at most, and never the recovery first,
\* where checks of a site neither overlap nor fail.
THEOREM OneAnnouncementEach == Spec /\ []Alone => []OneAlertPerTransition
<1>1. AlertsInTurn => OneAlertPerTransition
    BY DEF AlertsInTurn
<1> QED
    BY <1>1, TurnInvariant, PTL

-----------------------------------------------------------------------------
(* Refinement: alone, the engine implements OutageResponse.  The duty of a *)
(* site is read off the one check at work on it.                           *)

Duties == [s \in Sites |-> Duty(s)]

\* Alone, the check at work on a site is the one that is chosen.
LEMMA DutyAtWork ==
    ASSUME Alone, NEW c \in Checks, NEW s, InFlight(c), check[c].site = s
    PROVE  Duty(s) = DutyOf(check[c])
<1>1. c \in AtWork(s) /\ \A d \in AtWork(s) : d = c
    BY DEF AtWork, Alone, InFlight
<1>2. (CHOOSE d \in AtWork(s) : TRUE) \in AtWork(s)
    BY <1>1
<1> QED
    BY <1>1, <1>2 DEF Duty

LEMMA DutyAtWorkNext ==
    ASSUME Alone', NEW c \in Checks, NEW s, check'[c].pc # "idle", check'[c].site = s
    PROVE  Duty(s)' = DutyOf(check'[c])
<1>1. c \in AtWork(s)' /\ \A d \in AtWork(s)' : d = c
    BY DEF AtWork, Alone
<1>2. (CHOOSE d \in AtWork(s)' : TRUE) \in AtWork(s)'
    BY <1>1
<1> QED
    BY <1>1, <1>2 DEF Duty

LEMMA NoDuty ==
    /\ \A s : AtWork(s) = {} => Duty(s) = "none"
    /\ \A s : AtWork(s)' = {} => Duty(s)' = "none"
    /\ \A x : x.pc \in {"idle", "probe", "record", "count", "reuse", "update"} => DutyOf(x) = "none"
BY DEF Duty, DutyOf

LEMMA DutyByStep ==
    \A x : /\ x.success /\ x.pc \in {"find", "resolve"} => DutyOf(x) = "recover"
           /\ ~x.success /\ x.pc \in {"find", "open"} => DutyOf(x) = "open"
           /\ x.success /\ x.pc = "notify" => DutyOf(x) = "tellRecovery"
           /\ ~x.success /\ x.pc = "notify" => DutyOf(x) = "tellOutage"
BY DEF DutyOf

\* A site none of whose checks moves has the duty it had.
LEMMA DutyElsewhere ==
    ASSUME Alone, Alone', NEW s \in Sites,
           \A d \in Checks :
               \/ check'[d] = check[d]
               \/ /\ check[d].pc = "idle" \/ check[d].site # s
                  /\ check'[d].pc \in {"idle", "probe"} \/ check'[d].site # s
    PROVE  Duty(s)' = Duty(s)
<1>1. CASE \E d \in Checks : InFlight(d) /\ check[d].site = s
    <2>1. PICK d \in Checks : InFlight(d) /\ check[d].site = s
        BY <1>1
    <2>2. check'[d] = check[d]
        BY <2>1 DEF InFlight
    <2>3. Duty(s) = DutyOf(check[d])
        BY <2>1, DutyAtWork
    <2>4. Duty(s)' = DutyOf(check'[d])
        BY <2>1, <2>2, DutyAtWorkNext DEF InFlight
    <2> QED
        BY <2>2, <2>3, <2>4
<1>2. CASE ~ \E d \in Checks : InFlight(d) /\ check[d].site = s
    <2>1. Duty(s) = "none"
        <3>1. AtWork(s) = {}
            BY <1>2 DEF AtWork, InFlight
        <3> QED
            BY <3>1, NoDuty
    <2>2. CASE \E d \in Checks : check'[d].pc # "idle" /\ check'[d].site = s
        <3>1. PICK d \in Checks : check'[d].pc # "idle" /\ check'[d].site = s
            BY <2>2
        <3>2. check'[d].pc = "probe"
            BY <1>2, <3>1 DEF InFlight
        <3> QED
            BY <2>1, <3>1, <3>2, DutyAtWorkNext, NoDuty
    <2>3. CASE ~ \E d \in Checks : check'[d].pc # "idle" /\ check'[d].site = s
        <3>1. AtWork(s)' = {}
            BY <2>3 DEF AtWork
        <3> QED
            BY <2>1, <3>1, NoDuty
    <2> QED
        BY <2>2, <2>3
<1> QED
    BY <1>1, <1>2

\* A step of a check moves the duty of its site and no other.
LEMMA DutyMoves ==
    ASSUME TypeOK, InHand, Alone, Alone', NEW c \in Checks, CheckStep(c),
           NEW s \in Sites, s = check[c].site
    PROVE  /\ Duties[s] = DutyOf(check[c])
           /\ Duties' = [Duties EXCEPT ![s] = DutyOf(check'[c])]
<1>1. InFlight(c) /\ \A d \in Checks : d # c => check'[d] = check[d]
    BY Elsewhere
<1>2. check'[c].pc = "idle" \/ check'[c].site = s
    BY Elsewhere
<1>3. Duty(s) = DutyOf(check[c])
    BY <1>1, DutyAtWork
<1>4. Duty(s)' = DutyOf(check'[c])
    <2>1. CASE check'[c].pc # "idle"
        BY <1>2, <2>1, DutyAtWorkNext
    <2>2. CASE check'[c].pc = "idle"
        <3>1. AtWork(s)' = {}
            BY <1>1, <2>2 DEF AtWork, Alone, InFlight
        <3> QED
            BY <2>2, <3>1, NoDuty
    <2> QED
        BY <2>1, <2>2
<1>5. ASSUME NEW r \in Sites, r # s PROVE Duty(r)' = Duty(r)
    BY <1>1, <1>2, <1>5, DutyElsewhere
<1> QED
    BY <1>3, <1>4, <1>5 DEF Duties

Answers == <<streak, Status, Owner, alerts, Duties, Gone>>

\* Alone, what a check is about to resolve or to announce has not been resolved by another.
LEMMA UnresolvedInHand ==
    ASSUME MonitoringInv, AlertsAreOwed, AlertsInTurn, Alone, NEW c \in Checks,
           check[c].pc = "resolve" \/ (check[c].pc = "notify" /\ ~check[c].success)
    PROVE  incident[check[c].doc].status \in {"ACTIVE", "deleted"}
<1>1. PICK i \in Ids : i = check[c].doc /\ incident[i].status # "none" /\ incident[i].site = check[c].site
    BY DEF MonitoringInv, InHand
<1>2. incident[i].status \in {"none", "ACTIVE", "RESOLVED", "deleted"}
    BY DEF MonitoringInv, TypeOK, Incident
<1>3. alerts[i].up = 0
    <2>1. alerts[i].up \in Nat /\ alerts[i].down \in Nat /\ alerts[i].up <= alerts[i].down
        BY DEF MonitoringInv, TypeOK, AlertsInTurn, OneAlertPerTransition
    <2>2. alerts[i].up = 0 \/ alerts[i].down = 0
        BY <1>1 DEF AlertsInTurn
    <2> QED
        BY <2>1, <2>2
<1>4. ~Announcing(i, TRUE)
    <2>1. ASSUME NEW d \in Checks, check[d].pc = "notify", check[d].doc = i PROVE d = c
        BY <1>1, <2>1 DEF Alone, MonitoringInv, InHand
    <2> QED
        BY <2>1 DEF Announcing
<1>5. incident[i].status # "RESOLVED"
    <2>1. ~(alerts[i].up > 0)
        BY <1>3
    <2> QED
        BY <1>4, <2>1 DEF AlertsAreOwed, Alone
<1> QED
    BY <1>1, <1>2, <1>5

LEMMA DutyBecomes ==
    ASSUME NEW s, NEW from, NEW to, Duties[s] = from, Duties' = [Duties EXCEPT ![s] = to]
    PROVE  Response!Becomes(s, from, to)
BY DEF Duties, Response!Becomes

\* A result is stored when nothing is left to do for the last one.
LEMMA AnswersStore ==
    ASSUME MonitoringInv, CacheInv, NEW c \in Checks, Record(c), NEW s \in Sites, s = check[c].site,
           Duties[s] = DutyOf(check[c]), Duties' = [Duties EXCEPT ![s] = DutyOf(check'[c])]
    PROVE  Response!StoreSuccess(s) \/ \E n \in Thresholds : Response!StoreFailure(s, n)
<1>t. TypeOK
    BY DEF MonitoringInv
<1>1. check[c] \in Check /\ check[c].pc = "record"
    BY <1>t DEF TypeOK, Record
<1>2. UNCHANGED <<incident, alerts, site>>
    BY DEF Record
<1>3. Duties[s] = "none"
    BY <1>1, NoDuty
<1>4. /\ check'[c].success = check[c].success
      /\ check'[c].pc = IF ~check[c].success /\ Consecutive(c) < check[c].threshold
                        THEN "update" ELSE "find"
    BY <1>t, RecordMoves DEF Same
<1>5. CASE check[c].success
    <2>1. DutyOf(check'[c]) = "recover"
        BY <1>4, <1>5, DutyByStep
    <2>2. streak' = [streak EXCEPT ![s] = 0]
        BY <1>5 DEF Record
    <2>3. Response!Becomes(s, "none", "recover")
        BY <1>3, <2>1, DutyBecomes
    <2> QED
        BY <1>2, <2>2, <2>3 DEF Response!StoreSuccess
<1>6. CASE ~check[c].success
    <2>1. streak' = [streak EXCEPT ![s] = Cap(@ + 1)]
        BY <1>6 DEF Record
    <2>2. streak[s] \in 0 .. FailureCap /\ FailureCap \in Nat
        BY <1>t, MonitoringAssumption DEF TypeOK
    <2>3. Response!Longer(streak[s]) = Cap(streak[s] + 1)
        BY <2>2 DEF Response!Longer, Cap
    <2>4. Consecutive(c) = Cap(streak[s] + 1)
        BY <1>1, <1>6 DEF CacheInv, CountsTheHistory, Consecutive
    <2>5. PICK n \in Thresholds : n = check[c].threshold
        BY <1>1 DEF Check
    <2>6. DutyOf(check'[c]) = IF Response!Longer(streak[s]) < n THEN "none" ELSE "open"
        <3>1. check'[c].pc = IF Response!Longer(streak[s]) < n THEN "update" ELSE "find"
            BY <1>4, <1>6, <2>3, <2>4, <2>5
        <3>2. check'[c].pc = "update" => DutyOf(check'[c]) = "none"
            BY NoDuty
        <3>3. check'[c].pc = "find" => DutyOf(check'[c]) = "open"
            BY <1>4, <1>6, DutyByStep
        <3> QED
            BY <3>1, <3>2, <3>3
    <2>7. Response!Becomes(s, "none", IF Response!Longer(streak[s]) < n THEN "none" ELSE "open")
        BY <1>3, <2>6, DutyBecomes
    <2>8. streak' = [streak EXCEPT ![s] = Response!Longer(@)]
        BY <2>1, <2>3
    <2>9. Response!StoreFailure(s, n)
        BY <1>2, <2>7, <2>8 DEF Response!StoreFailure
    <2> QED
        BY <2>9
<1> QED
    BY <1>5, <1>6

\* A step that leaves its check with the duty it had changes no duty.
LEMMA DutySame ==
    ASSUME NEW c, NEW s, Duties[s] = DutyOf(check[c]),
           Duties' = [Duties EXCEPT ![s] = DutyOf(check'[c])], DutyOf(check'[c]) = DutyOf(check[c])
    PROVE  Duties' = Duties
BY DEF Duties

LEMMA FindReads ==
    ASSUME NEW c, Find(c) PROVE check[c].pc = "find" /\ UNCHANGED <<incident, alerts, site, streak>>
<1>1. check[c].pc = "find" /\ UNCHANGED <<db, edit, cascade, world>>
    BY Zenon DEF Find
<1> QED
    BY <1>1 DEF db, world

\* Looking the incident up joins it, finds nothing to resolve, or changes no answer.
LEMMA AnswersFind ==
    ASSUME MonitoringInv, NEW c \in Checks, Find(c), NEW s \in Sites, s = check[c].site,
           Duties[s] = DutyOf(check[c]), Duties' = [Duties EXCEPT ![s] = DutyOf(check'[c])]
    PROVE  Response!Join(s) \/ Response!NothingToResolve(s) \/ UNCHANGED Answers
<1>1. TypeOK /\ check[c].pc = "find"
    BY FindReads DEF MonitoringInv
<1>2. UNCHANGED <<incident, alerts, site, streak>>
    BY FindReads
<1>3. UNCHANGED <<Status, Owner, Gone>>
    BY <1>2 DEF Status, Owner, Gone
<1>4. Response!OpenFor(s) = ActiveFor(s)
    BY DEF Response!OpenFor, ActiveFor
<1>5. /\ check'[c].success = check[c].success
      /\ \/ ActiveFor(s) = {} /\ check'[c].pc = IF check[c].success THEN "update" ELSE "open"
         \/ ActiveFor(s) # {} /\ check'[c].pc = IF check[c].success THEN "resolve" ELSE "count"
    BY <1>1, FindMoves DEF Same
<1>6. CASE check[c].success /\ ActiveFor(s) = {}
    <2>1. DutyOf(check[c]) = "recover" /\ DutyOf(check'[c]) = "none"
        BY <1>1, <1>5, <1>6, NoDuty, DutyByStep
    <2>2. Response!Becomes(s, "recover", "none")
        BY <2>1, DutyBecomes
    <2> QED
        BY <1>2, <1>3, <1>4, <1>6, <2>2 DEF Response!NothingToResolve, Status, Owner, Gone
<1>7. CASE ~check[c].success /\ ActiveFor(s) # {}
    <2>1. DutyOf(check[c]) = "open" /\ DutyOf(check'[c]) = "none"
        BY <1>1, <1>5, <1>7, NoDuty, DutyByStep
    <2>2. Response!Becomes(s, "open", "none")
        BY <2>1, DutyBecomes
    <2> QED
        BY <1>2, <1>3, <1>4, <1>7, <2>2 DEF Response!Join, Status, Owner, Gone
<1>8. CASE check[c].success <=> ActiveFor(s) # {}
    <2>1. DutyOf(check'[c]) = DutyOf(check[c])
        BY <1>1, <1>5, <1>8, DutyByStep
    <2>2. UNCHANGED Duties
        BY <2>1, DutySame
    <2> QED
        BY <1>2, <1>3, <2>2 DEF Answers
<1> QED
    BY <1>6, <1>7, <1>8

\* A success resolves the open incident, if the purge has not taken it meanwhile.
LEMMA AnswersResolve ==
    ASSUME MonitoringInv, AlertsAreOwed, CacheInv, AlertsInTurn, Alone,
           NEW c \in Checks, Resolve(c), NEW s \in Sites, s = check[c].site,
           Duties[s] = DutyOf(check[c]), Duties' = [Duties EXCEPT ![s] = DutyOf(check'[c])]
    PROVE  Response!NothingToResolve(s) \/ \E i \in Ids : Response!Resolve(i)
<1>1. TypeOK /\ check[c].pc = "resolve" /\ UNCHANGED <<streak, site, alerts>>
    BY DEF MonitoringInv, Resolve, world
<1>2. PICK i \in Ids : i = check[c].doc /\ incident[i].site = s
    BY <1>1 DEF MonitoringInv, InHand
<1>3. incident[i].status \in {"ACTIVE", "deleted"}
    BY <1>1, <1>2, UnresolvedInHand
<1>4. check[c].success /\ ActiveFor(s) \subseteq {i}
    BY <1>1, <1>2 DEF CacheInv, HoldsTheIncident
<1>5. DutyOf(check[c]) = "recover"
    BY <1>1, <1>4, DutyByStep
<1>6. UNCHANGED Gone
    BY <1>1 DEF Gone
<1>7. CASE incident[i].status = "deleted"
    <2>1. UNCHANGED incident /\ check'[c].pc = "idle"
        BY <1>1, <1>2, <1>7, FinishMoves DEF Resolve
    <2>2. Response!OpenFor(s) = {}
        BY <1>4, <1>7 DEF Response!OpenFor, ActiveFor
    <2>3. Response!Becomes(s, "recover", "none")
        <3>1. DutyOf(check'[c]) = "none"
            BY <2>1, NoDuty
        <3> QED
            BY <1>5, <3>1, DutyBecomes
    <2> QED
        BY <1>1, <1>6, <2>1, <2>2, <2>3 DEF Response!NothingToResolve, Gone
<1>8. CASE incident[i].status = "ACTIVE"
    <2>1. /\ incident' = [incident EXCEPT ![i].status = "RESOLVED"]
          /\ check'[c].pc = "notify" /\ check'[c].success
        BY <1>1, <1>2, <1>4, <1>8, ResolveMoves DEF Same
    <2>2. Status' = [Status EXCEPT ![i] = "RESOLVED"] /\ Owner' = Owner /\ Owner[i] = s
        BY <1>1, <1>2, <2>1 DEF TypeOK, Incident, Status, Owner
    <2>3. Response!Becomes(Owner[i], "recover", "tellRecovery")
        BY <1>5, <2>1, <2>2, DutyByStep, DutyBecomes
    <2>4. Response!Resolve(i)
        BY <1>1, <1>6, <1>8, <2>2, <2>3 DEF Response!Resolve, Status, Owner, Gone
    <2> QED
        BY <2>4
<1> QED
    BY <1>3, <1>7, <1>8

\* Alone, a check that opens an incident finds the index free.
LEMMA AnswersOpen ==
    ASSUME MonitoringInv, CacheInv, NEW c \in Checks, Open(c), NEW s \in Sites, s = check[c].site,
           Duties[s] = DutyOf(check[c]), Duties' = [Duties EXCEPT ![s] = DutyOf(check'[c])]
    PROVE  \E i \in Ids : Response!Open(i, s)
<1>1. TypeOK /\ check[c].pc = "open" /\ UNCHANGED <<streak, site, alerts>>
    BY DEF MonitoringInv, Open, world
<1>2. ~check[c].success /\ ActiveFor(s) = {}
    BY <1>1 DEF MonitoringInv, InHand, CacheInv, HoldsTheIncident
<1>3. PICK i \in Ids : /\ Opened(c, i) /\ check'[c].pc = "notify"
                       /\ check'[c].success = check[c].success
    BY <1>1, <1>2, OpenMoves DEF Same
<1>4. /\ Status' = [Status EXCEPT ![i] = "ACTIVE"] /\ Owner' = [Owner EXCEPT ![i] = s]
      /\ Status[i] = "none"
    BY <1>1, <1>3 DEF Opened, TypeOK, Incident, Status, Owner
<1>5. Response!Becomes(s, "open", "tellOutage")
    BY <1>1, <1>2, <1>3, DutyByStep, DutyBecomes
<1>6. Response!OpenFor(s) = {}
    BY <1>2 DEF Response!OpenFor, ActiveFor
<1>7. Response!Open(i, s)
    BY <1>1, <1>4, <1>5, <1>6 DEF Response!Open, Status, Owner, Gone
<1> QED
    BY <1>7

\* What was opened or resolved is told, for the first time.
LEMMA AnswersNotify ==
    ASSUME MonitoringInv, AlertsAreOwed, CacheInv, AlertsInTurn, Alone,
           NEW c \in Checks, Notify(c), NEW s \in Sites, s = check[c].site,
           Duties[s] = DutyOf(check[c]), Duties' = [Duties EXCEPT ![s] = DutyOf(check'[c])]
    PROVE  \E i \in Ids : Response!TellOutage(i) \/ Response!TellRecovery(i)
<1>1. TypeOK /\ InHand /\ check[c].pc = "notify"
    BY DEF MonitoringInv, Notify
<1>2. PICK i \in Ids : i = check[c].doc /\ incident[i].site = s
    BY <1>1 DEF InHand
<1>3. UNCHANGED <<incident, site, streak, Status, Owner, Gone>> /\ Owner[i] = s
    BY <1>2 DEF Notify, Status, Owner, Gone
<1>4. DutyOf(check'[c]) = "none"
    <2>1. check'[c].pc = "update"
        BY <1>1, NotifyMoves
    <2> QED
        BY <2>1, NoDuty
<1>5. alerts[i] \in [down : Nat, up : Nat]
    BY <1>1 DEF TypeOK
<1>6. CASE check[c].success
    <2>1. Response!Becomes(Owner[i], "tellRecovery", "none")
        BY <1>1, <1>3, <1>4, <1>6, DutyByStep, DutyBecomes
    <2>2. incident[i].status \in {"RESOLVED", "deleted"}
        BY <1>1, <1>2, <1>6 DEF InHand
    <2>3. alerts[i].down = 1 /\ alerts[i].up = 0
        BY <1>1, <1>2, <1>6 DEF AlertsInTurn
    <2>4. alerts[i] = [Response!Nothing EXCEPT !.down = 1]
        BY <1>5, <2>3 DEF Response!Nothing
    <2>5. alerts' = [alerts EXCEPT ![i].up = 1]
        BY <1>2, <1>6, <2>3 DEF Notify, Announce
    <2>6. Response!TellRecovery(i)
        BY <1>3, <2>1, <2>2, <2>4, <2>5 DEF Response!TellRecovery, Status, Owner, Gone
    <2> QED
        BY <2>6
<1>7. CASE ~check[c].success
    <2>1. Response!Becomes(Owner[i], "tellOutage", "none")
        BY <1>1, <1>3, <1>4, <1>7, DutyByStep, DutyBecomes
    <2>2. incident[i].status \in {"ACTIVE", "deleted"}
        BY <1>1, <1>2, <1>7, UnresolvedInHand
    <2>3. alerts[i].down = 0 /\ alerts[i].up = 0
        <3>1. alerts[i].down = 0 /\ alerts[i].up <= alerts[i].down
            BY <1>1, <1>2, <1>7 DEF AlertsInTurn, OneAlertPerTransition
        <3> QED
            BY <1>5, <3>1
    <2>4. alerts[i] = Response!Nothing
        BY <1>5, <2>3 DEF Response!Nothing
    <2>5. alerts' = [alerts EXCEPT ![i].down = 1]
        BY <1>2, <1>7, <2>3 DEF Notify, Announce
    <2>6. Response!TellOutage(i)
        BY <1>3, <2>1, <2>2, <2>4, <2>5 DEF Response!TellOutage, Status, Owner, Gone
    <2> QED
        BY <2>6
<1> QED
    BY <1>6, <1>7

\* The other steps of a check leave every answer as it is.
LEMMA AnswersElse ==
    ASSUME MonitoringInv, CacheInv, NEW c \in Checks, Probe(c) \/ Count(c) \/ Reuse(c) \/ Update(c),
           NEW s \in Sites, s = check[c].site,
           Duties[s] = DutyOf(check[c]), Duties' = [Duties EXCEPT ![s] = DutyOf(check'[c])],
           Gone' = Gone
    PROVE  UNCHANGED Answers
<1>1. TypeOK /\ InHand
    BY DEF MonitoringInv
<1>2. UNCHANGED <<streak, alerts>>
    BY DEF Probe, Count, Reuse, Update, world
<1>3. ~Reuse(c)
    BY DEF CacheInv, HoldsTheIncident, Reuse
<1>4. UNCHANGED <<Status, Owner>>
    <2>1. CASE Count(c)
        <3>1. check[c].doc \in Ids
            BY <1>1, <2>1 DEF InHand, Count
        <3>2. ASSUME NEW n, incident' = [incident EXCEPT ![check[c].doc].failed = n]
              PROVE  UNCHANGED <<Status, Owner>>
            BY <1>1, <3>1, <3>2 DEF TypeOK, Incident, Status, Owner
        <3> QED
            BY <2>1, <3>2 DEF Count, Status, Owner
    <2>2. CASE Probe(c) \/ Update(c)
        BY <2>2 DEF Probe, Update, db, Status, Owner
    <2> QED
        BY <1>3, <2>1, <2>2
<1>5. check[c].pc \in {"probe", "count", "update"}
    BY <1>3 DEF Probe, Count, Update
<1>6. check'[c].pc \in {"record", "update", "idle"}
    BY <1>1, <1>3, ProbeMoves, CountMoves, FinishMoves DEF Update
<1>7. DutyOf(check[c]) = "none" /\ DutyOf(check'[c]) = "none"
    BY <1>5, <1>6, NoDuty
<1>8. UNCHANGED Duties
    BY <1>7, DutySame
<1> QED
    BY <1>2, <1>4, <1>8 DEF Answers

\* What users, snapshots, targets and the purge do is a deletion, a purge, or nothing.
LEMMA AnswersBystanders ==
    ASSUME MonitoringInv, Alone, Alone', Next, ~ \E c \in Checks : CheckStep(c)
    PROVE  (\E s \in Sites : Response!DeleteSite(s) \/ Response!Purge(s)) \/ UNCHANGED Answers
<1>1. TypeOK /\ PurgeAfterDelete /\ Undisturbed
    BY NoFault DEF MonitoringInv, Alone
<1>2. /\ UNCHANGED <<alerts, streak>>
      /\ \A d \in Checks : check[d].pc # "idle" => check'[d] = check[d]
      /\ \A d \in Checks : check'[d] = check[d] \/ check'[d].pc = "probe"
    BY <1>1, Bystanders
<1>3. \A s \in Sites : Duty(s)' = Duty(s)
    BY <1>2, DutyElsewhere
<1>4. UNCHANGED Duties
    BY <1>3 DEF Duties
<1>5. ASSUME NEW s \in Sites, DeleteSite(s) PROVE Response!DeleteSite(s)
    <2>1. UNCHANGED incident /\ Gone' = Gone \union {s}
        BY <1>1, <1>5 DEF DeleteSite, TypeOK, Site, Gone
    <2> QED
        BY <1>2, <1>4, <2>1 DEF Response!DeleteSite, Gone, Duties
<1>6. ASSUME NEW s \in Sites, NEW kind \in Collections, DeleteMany(s, kind)
      PROVE  Response!Purge(s) \/ UNCHANGED Answers
    <2>1. s \in Gone /\ Gone' = Gone
        BY <1>1, <1>6 DEF DeleteMany, PurgeAfterDelete, Gone
    <2>2. CASE kind = "incidents"
        <3>1. /\ Status' = [i \in Ids |-> IF Status[i] # "none" /\ Owner[i] = s
                                          THEN "deleted" ELSE Status[i]]
              /\ Owner' = Owner
            BY <1>1, <1>6, <2>2 DEF DeleteMany, TypeOK, Incident, Status, Owner
        <3> QED
            BY <1>2, <1>4, <2>1, <3>1 DEF Response!Purge, Status, Owner, Gone, Duties
    <2>3. CASE kind # "incidents"
        BY <1>2, <1>4, <1>6, <2>1, <2>3 DEF DeleteMany, Answers, Status, Owner
    <2> QED
        BY <2>2, <2>3
<1>7. CASE ~ \E s \in Sites : DeleteSite(s) \/ \E kind \in Collections : DeleteMany(s, kind)
    <2>1. UNCHANGED incident
        BY <1>7, IncidentWriters DEF CheckStep
    <2>2. Gone' = Gone
        BY <1>1, <1>7, GoneStep
    <2> QED
        BY <1>2, <1>4, <2>1, <2>2 DEF Answers, Status, Owner
<1> QED
    BY <1>5, <1>6, <1>7

LEMMA ResponseStep ==
    ASSUME MonitoringInv, AlertsAreOwed, CacheInv, AlertsInTurn, Alone, Alone', Next
    PROVE  Response!Next \/ UNCHANGED Answers
<1>1. CASE \E c \in Checks : CheckStep(c)
    <2>1. PICK c \in Checks : CheckStep(c)
        BY <1>1
    <2>2. PICK s \in Sites : s = check[c].site
        BY DEF MonitoringInv, TypeOK, Check
    <2>3. Duties[s] = DutyOf(check[c]) /\ Duties' = [Duties EXCEPT ![s] = DutyOf(check'[c])]
        BY <2>1, <2>2, DutyMoves DEF MonitoringInv
    <2>4. Gone' = Gone
        <3>1. \A r \in Sites : site'[r].phase = site[r].phase
            BY <2>1, <2>2, Elsewhere DEF MonitoringInv
        <3> QED
            BY <3>1 DEF Gone
    <2>5. Record(c) => Response!StoreSuccess(s) \/ \E n \in Thresholds : Response!StoreFailure(s, n)
        BY <2>2, <2>3, AnswersStore
    <2>6. Find(c) => Response!Join(s) \/ Response!NothingToResolve(s) \/ UNCHANGED Answers
        BY <2>2, <2>3, AnswersFind
    <2>7. Resolve(c) => Response!NothingToResolve(s) \/ \E i \in Ids : Response!Resolve(i)
        BY <2>2, <2>3, AnswersResolve
    <2>8. Open(c) => \E i \in Ids : Response!Open(i, s)
        BY <2>2, <2>3, AnswersOpen
    <2>9. Notify(c) => \E i \in Ids : Response!TellOutage(i) \/ Response!TellRecovery(i)
        BY <2>2, <2>3, AnswersNotify
    <2>10. Probe(c) \/ Count(c) \/ Reuse(c) \/ Update(c) => UNCHANGED Answers
        BY <2>2, <2>3, <2>4, AnswersElse
    <2> QED
        BY <2>1, <2>5, <2>6, <2>7, <2>8, <2>9, <2>10 DEF CheckStep, Response!Next
<1>2. CASE ~ \E c \in Checks : CheckStep(c)
    BY <1>2, AnswersBystanders DEF Response!Next
<1> QED
    BY <1>1, <1>2

\* Where checks of a site neither overlap nor fail, every stored result is answered in
\* full before the next: the threshold's failure opens an incident or joins the open one,
\* one success resolves it, and each of the two is told once and in order, whatever users
\* edit and delete meanwhile, with or without the unique index.
THEOREM AloneImplementsResponse == Spec /\ []Alone => ImplementsResponse
<1>1. Init => Response!Init
    <2> SUFFICES ASSUME Init PROVE Response!Init
        OBVIOUS
    <2>1. Duties = [s \in Sites |-> "none"]
        <3>1. \A s \in Sites : AtWork(s) = {}
            BY DEF Init, AtWork, Idle
        <3> QED
            BY <3>1, NoDuty DEF Duties
    <2>2. Owner \in [Ids -> Sites] /\ Status = [i \in Ids |-> "none"] /\ Gone = {}
        BY Choices DEF Init, Owner, Status, Gone, NoSite
    <2>3. /\ streak = [s \in Sites |-> 0]
          /\ alerts = [i \in Ids |-> Response!Nothing]
        BY DEF Init, Response!Nothing
    <2> QED
        BY <2>1, <2>2, <2>3 DEF Response!Init, Duties, Owner, Status, Gone
<1>2. MonitoringInv /\ AlertsAreOwed /\ CacheInv /\ AlertsInTurn /\ Alone /\ Alone' /\ [Next]_vars
        => [Response!Next]_(Response!vars)
    <2>1. UNCHANGED vars => UNCHANGED Answers
        BY DEF vars, Answers, Status, Owner, Gone, Duties, Duty, AtWork
    <2>2. UNCHANGED Answers => UNCHANGED Response!vars
        BY DEF Answers, Response!vars, Status, Owner, Gone, Duties
    <2> QED
        BY <2>1, <2>2, ResponseStep
<1> QED
    BY <1>1, <1>2, Monitoring, OwedInvariant, CacheInvariant, TurnInvariant, PTL
    DEF Spec, ImplementsResponse, Response!Spec

-----------------------------------------------------------------------------
(* The failures of an open incident are counted.                           *)

\* CountInv of one site, and of one check of site s.
CountedAt(s) ==
    /\ Quiet(s) => \A i \in ActiveFor(s) : incident[i].failed = streak[s]
    /\ site[s].phase = "live" => \A i \in ActiveFor(s) : site[s].threshold <= incident[i].failed

CountAt(c, s) ==
    LET x == check[c]
    IN  /\ x.pc # "idle" /\ site[s].phase = "live" => site[s].threshold <= x.threshold
        /\ \A i \in ActiveFor(s) :
              /\ x.pc \in {"probe", "record"} =>
                    incident[i].failed = streak[s] /\ x.threshold <= incident[i].failed
              /\ x.pc \in {"find", "count"} /\ ~x.success => Cap(incident[i].failed + 1) = streak[s]
              /\ x.pc = "count" => x.failed = incident[i].failed
              /\ x.pc \in {"notify", "update"} => incident[i].failed = streak[s]

LEMMA ThresholdsNat == Thresholds \subseteq Nat
BY MonitoringAssumption

CountParts == (\A s \in Sites : CountedAt(s)) /\ (\A c \in Checks : CountOf(c))

LEMMA CountUnfold == CountInv <=> CountParts
BY DEF CountInv, FailuresAreCounted, CountedAt, CountParts

LEMMA CountNext == CountInv' <=> CountParts'
BY CountUnfold, PTL

LEMMA CountSite == ASSUME NEW c, NEW s, s = check[c].site PROVE CountOf(c) <=> CountAt(c, s)
BY DEF CountOf, CountAt

LEMMA CountSiteNext ==
    ASSUME NEW c, NEW s, s = check'[c].site PROVE CountOf(c)' <=> CountAt(c, s)'
<1>1. ActiveFor(check[c].site)' = ActiveFor(s)'
    BY DEF ActiveFor
<1> QED
    BY <1>1 DEF CountOf, CountAt

\* The open incidents of a site that is left alone are those it had, as they were.
Steady(s) ==
    /\ streak'[s] = streak[s]
    /\ ActiveFor(s)' \subseteq ActiveFor(s)
    /\ \A i \in ActiveFor(s)' : incident'[i] = incident[i]
    /\ site'[s].phase = "live" =>
          \/ site[s].phase = "live" /\ site'[s].threshold <= site[s].threshold
          \/ Quiet(s) /\ ActiveFor(s) = {}

LEMMA SteadyCheck ==
    ASSUME TypeOK, TypeOK', NEW c \in Checks, check'[c] = check[c], CountOf(c),
           NEW s \in Sites, s = check[c].site, Steady(s)
    PROVE  CountOf(c)'
<1>1. CASE check[c].pc = "idle"
    BY <1>1 DEF CountOf
<1>2. CASE check[c].pc # "idle"
    <2>1. CountAt(c, s) /\ ~Quiet(s)
        BY <1>2, CountSite DEF Quiet
    <2>2. site'[s].threshold \in Nat /\ site[s].threshold \in Nat /\ check[c].threshold \in Nat
        <3>1. site'[s].threshold \in Thresholds /\ site[s].threshold \in Thresholds
            BY DEF TypeOK, Site
        <3>2. check[c].threshold \in Thresholds
            BY DEF TypeOK, Check
        <3> QED
            BY <3>1, <3>2, ThresholdsNat
    <2>3. site'[s].phase = "live" => site'[s].threshold <= check[c].threshold
        BY <1>2, <2>1, <2>2 DEF Steady, CountAt
    <2>4. CountAt(c, s)'
        BY <2>1, <2>3 DEF Steady, CountAt
    <2> QED
        BY <2>4, CountSiteNext
<1> QED
    BY <1>1, <1>2

LEMMA SteadySite ==
    ASSUME TypeOK, TypeOK', NEW s \in Sites, Steady(s), CountedAt(s), Quiet(s)' => Quiet(s)
    PROVE  CountedAt(s)'
<1>1. \A i \in ActiveFor(s)' : incident'[i] = incident[i] /\ i \in ActiveFor(s) /\ i \in Ids
    BY DEF Steady, ActiveFor
<1>2. Quiet(s)' => \A i \in ActiveFor(s)' : incident'[i].failed = streak'[s]
    BY <1>1 DEF Steady, CountedAt
<1>3. ASSUME site'[s].phase = "live", NEW i \in ActiveFor(s)'
      PROVE  site'[s].threshold <= incident'[i].failed
    <2>1. site[s].threshold <= incident[i].failed /\ site'[s].threshold <= site[s].threshold
        BY <1>1, <1>3 DEF Steady, CountedAt
    <2>2. site'[s].threshold \in Thresholds /\ site[s].threshold \in Thresholds
        BY DEF TypeOK, Site
    <2>3. incident[i].failed \in 0 .. FailureCap
        BY <1>1 DEF TypeOK, Incident
    <2>4. site'[s].threshold \in Nat /\ site[s].threshold \in Nat /\ incident[i].failed \in Nat
        <3>1. site'[s].threshold \in Nat /\ site[s].threshold \in Nat
            BY <2>2, ThresholdsNat
        <3>2. incident[i].failed \in Nat
            BY <2>3, MonitoringAssumption
        <3> QED
            BY <3>1, <3>2
    <2>5. site'[s].threshold <= incident[i].failed
        BY <2>1, <2>4
    <2> QED
        BY <1>1, <2>5
<1> QED
    BY <1>2, <1>3 DEF CountedAt

LEMMA CountKept ==
    ASSUME TypeOK, TypeOK', CountInv, UNCHANGED check, \A s \in Sites : Steady(s) PROVE CountInv'
<1>1. ASSUME NEW s \in Sites PROVE CountedAt(s)'
    <2>1. Quiet(s)' => Quiet(s)
        BY DEF Quiet
    <2> QED
        BY <2>1, SteadySite, CountUnfold DEF CountParts
<1>2. ASSUME NEW c \in Checks PROVE CountOf(c)'
    <2>1. check[c].site \in Sites /\ CountOf(c)
        BY CountUnfold DEF TypeOK, Check, CountParts
    <2> QED
        BY <2>1, SteadyCheck
<1> QED
    BY <1>1, <1>2, CountNext DEF CountParts

LEMMA CountBystanders ==
    ASSUME TypeOK, TypeOK', CacheInv, CountInv, NoRaise,
           \/ UserRequest
           \/ \E s \in Sites, kind \in Collections : DeleteMany(s, kind)
           \/ \E s \in Sites : Flip(s)
    PROVE  CountInv'
<1>1. UNCHANGED check
    BY DEF UserRequest, CreateSite, EditRead, EditSave, DeleteSite, DeleteMany, Flip, db
<1>2. /\ UNCHANGED streak
      /\ \A i \in Ids : /\ incident'[i].status = "ACTIVE" => incident'[i] = incident[i]
                        /\ incident'[i].site = incident[i].site
    <2>1. CASE \E c \in Checks : CheckStep(c)
        <3>1. PICK c \in Checks : CheckStep(c)
            BY <2>1
        <3>2. PICK s \in Sites : s = check[c].site
            BY DEF TypeOK, Check
        <3>3. InFlight(c) /\ check'[c].pc # check[c].pc
            BY <3>1, ProbeMoves, RecordMoves, FindMoves, ResolveMoves, CountMoves, OpenMoves,
               ReuseMoves, NotifyMoves, FinishMoves
            DEF InFlight, CheckStep, Probe, Record, Find, Resolve, Count, Open, Reuse, Notify, Update
        <3> QED
            BY <1>1, <3>3
    <2>2. CASE ~ \E c \in Checks : CheckStep(c)
        BY <2>2, Bystanders DEF Undisturbed
    <2> QED
        BY <2>1, <2>2
<1>3. ASSUME NEW s \in Sites
      PROVE  ActiveFor(s)' \subseteq ActiveFor(s) /\ \A i \in ActiveFor(s)' : incident'[i] = incident[i]
    BY <1>2 DEF ActiveFor
<1>4. ASSUME NEW s \in Sites, site'[s].phase = "live"
      PROVE  \/ site[s].phase = "live" /\ site'[s].threshold <= site[s].threshold
             \/ Quiet(s) /\ ActiveFor(s) = {}
    <2>1. site'[s].threshold \in Nat /\ site[s].threshold \in Nat
        <3>1. site'[s].threshold \in Thresholds /\ site[s].threshold \in Thresholds
            BY DEF TypeOK, Site
        <3> QED
            BY <3>1, ThresholdsNat
    <2>2. site[s].phase # "deleted"
        <3>1. ASSUME NEW e \in Editors, EditSave(e)
              PROVE  \A r \in Sites : site'[r].phase = site[r].phase
            BY <3>1, EditPhase
        <3> QED
            BY <1>4, <3>1
            DEF UserRequest, CreateSite, EditRead, DeleteSite, DeleteMany, Flip, db, world, TypeOK
    <2>3. CASE site[s].phase = "live"
        BY <2>1, <2>3 DEF NoRaise
    <2>4. CASE site[s].phase = "absent"
        <3>1. ActiveFor(s) = {}
            BY <2>4 DEF CacheInv, AbsentIsBlank
        <3>2. Quiet(s)
            BY <2>4 DEF Quiet, CacheInv, CountsTheHistory
        <3> QED
            BY <3>1, <3>2
    <2> QED
        BY <2>2, <2>3, <2>4 DEF TypeOK, Site
<1> QED
    BY <1>1, <1>2, <1>3, <1>4, CountKept DEF Steady

LEMMA CountSnapshot ==
    ASSUME TypeOK, TypeOK', CountInv, Alone', NEW c \in Checks, NEW s \in Sites,
           SweepSnapshot(c, s) \/ ManualSnapshot(c, s)
    PROVE  CountInv'
<1>1. /\ check[c].pc = "idle" /\ site[s].phase = "live"
      /\ UNCHANGED <<site, incident, streak>>
      /\ check'[c].pc = "probe" /\ check'[c].site = s /\ check'[c].threshold = site[s].threshold
      /\ \A d \in Checks : d # c => check'[d] = check[d]
    BY SnapshotMoves
<1>2. \A r \in Sites : ActiveFor(r)' = ActiveFor(r)
    BY <1>1, ActiveSame
<1>3. Quiet(s)
    BY <1>1 DEF Quiet, Alone
<1>4. \A r \in Sites : CountedAt(r)
    BY CountUnfold DEF CountParts
<1>5. \A r \in Sites : Quiet(r)' => Quiet(r)
    BY <1>1 DEF Quiet
<1>n. \A r \in Sites : site[r].threshold \in Nat
    <2>1. \A r \in Sites : site[r].threshold \in Thresholds
        BY DEF TypeOK, Site
    <2> QED
        BY <2>1, ThresholdsNat
<1>6. \A r \in Sites : Steady(r)
    BY <1>1, <1>2, <1>n DEF Steady
<1>7. \A r \in Sites : CountedAt(r)'
    BY <1>4, <1>5, <1>6, SteadySite
<1>8. CountOf(c)'
    <2>1. \A i \in ActiveFor(s) : incident[i].failed = streak[s] /\ site[s].threshold <= incident[i].failed
        BY <1>1, <1>3, <1>4 DEF CountedAt
    <2>2. CountAt(c, s)'
        BY <1>1, <1>2, <1>n, <2>1 DEF CountAt
    <2> QED
        BY <1>1, <2>2, CountSiteNext
<1>9. ASSUME NEW d \in Checks, d # c PROVE CountOf(d)'
    <2>1. check[d].site \in Sites /\ CountOf(d)
        BY CountUnfold DEF TypeOK, Check, CountParts
    <2> QED
        BY <1>1, <1>6, <1>9, <2>1, SteadyCheck
<1> QED
    BY <1>7, <1>8, <1>9, CountNext DEF CountParts

\* The count of site s after a step of the check at work on it.
CountsOnFrom(c, s) ==
    /\ check'[c].pc # "idle" => check'[c].threshold = check[c].threshold
    /\ site'[s].phase = "live" => \A i \in ActiveFor(s)' : site'[s].threshold <= incident'[i].failed
    /\ \A i \in ActiveFor(s)' :
          /\ check'[c].pc \in {"probe", "record"} =>
                incident'[i].failed = streak'[s] /\ check'[c].threshold <= incident'[i].failed
          /\ check'[c].pc \in {"find", "count"} /\ ~check'[c].success =>
                Cap(incident'[i].failed + 1) = streak'[s]
          /\ check'[c].pc = "count" => check'[c].failed = incident'[i].failed
          /\ check'[c].pc \in {"notify", "update", "idle"} => incident'[i].failed = streak'[s]

LEMMA CountFromOne ==
    ASSUME TypeOK, TypeOK', InHand, CountInv, Alone, NEW c \in Checks, CheckStep(c),
           NEW s \in Sites, s = check[c].site, CountsOnFrom(c, s)
    PROVE  CountInv'
<1>1. /\ InFlight(c) /\ (check'[c].pc = "idle" \/ check'[c].site = s)
      /\ \A d \in Checks : d # c => check'[d] = check[d]
      /\ \A r \in Sites : site'[r].phase = site[r].phase /\ site'[r].threshold = site[r].threshold
      /\ \A r \in Sites : r # s => streak'[r] = streak[r] /\ ActiveFor(r)' = ActiveFor(r)
      /\ \A i \in Ids : incident[i].status = "ACTIVE" /\ incident[i].site # s =>
                            incident'[i] = incident[i]
    BY Elsewhere
<1>2. ASSUME NEW r \in Sites, r # s PROVE Steady(r)
    <2>1. \A i \in ActiveFor(r)' : incident'[i] = incident[i]
        BY <1>1, <1>2 DEF ActiveFor
    <2>2. site[r].threshold \in Nat
        <3>1. site[r].threshold \in Thresholds
            BY DEF TypeOK, Site
        <3> QED
            BY <3>1, ThresholdsNat
    <2> QED
        BY <1>1, <1>2, <2>1, <2>2 DEF Steady
<1>3. ASSUME NEW r \in Sites PROVE CountedAt(r)'
    <2>1. CASE r = s
        <3>1. Quiet(s)' => check'[c].pc = "idle"
            BY <1>1 DEF Quiet
        <3> QED
            BY <2>1, <3>1 DEF CountsOnFrom, CountedAt
    <2>2. CASE r # s
        <3>1. Quiet(r)' => Quiet(r)
            BY <1>1, <2>2 DEF Quiet
        <3> QED
            BY <1>2, <2>2, <3>1, SteadySite, CountUnfold DEF CountParts
    <2> QED
        BY <2>1, <2>2
<1>4. CountOf(c)'
    <2>1. CASE check'[c].pc = "idle"
        BY <2>1 DEF CountOf
    <2>2. CASE check'[c].pc # "idle"
        <3>1. CountAt(c, s)
            BY CountSite, CountUnfold DEF CountParts
        <3>2. CountAt(c, s)'
            BY <1>1, <2>2, <3>1 DEF CountsOnFrom, CountAt, InFlight
        <3> QED
            BY <1>1, <2>2, <3>2, CountSiteNext
    <2> QED
        BY <2>1, <2>2
<1>5. ASSUME NEW d \in Checks, d # c PROVE CountOf(d)'
    <2>1. check[d].site \in Sites /\ CountOf(d) /\ check'[d] = check[d]
        BY <1>1, <1>5, CountUnfold DEF TypeOK, Check, CountParts
    <2>2. CASE check[d].pc = "idle"
        BY <2>1, <2>2 DEF CountOf
    <2>3. CASE check[d].pc # "idle"
        <3>1. check[d].site # s
            BY <1>1, <1>5, <2>3 DEF Alone, InFlight
        <3> QED
            BY <1>2, <2>1, <3>1, SteadyCheck
    <2> QED
        BY <2>2, <2>3
<1> QED
    BY <1>3, <1>4, <1>5, CountNext DEF CountParts

\* What is known of the check at work on site s and of the incident it is about.
LEMMA CountFacts ==
    ASSUME TypeOK, CacheInv, CountInv, NEW c \in Checks, InFlight(c),
           NEW s \in Sites, s = check[c].site
    PROVE  /\ CountsAt(c, s) /\ HoldsAt(c, s) /\ CountAt(c, s) /\ CountedAt(s)
           /\ site[s].threshold \in Nat /\ check[c].threshold \in Nat /\ streak[s] \in Nat
           /\ \A i \in Ids : incident[i].failed \in 0 .. FailureCap
           /\ site[s].phase = "live" => site[s].threshold <= check[c].threshold
<1>1. CountsAt(c, s) /\ HoldsAt(c, s)
    BY AtSite DEF CacheInv, InFlight
<1>2. CountAt(c, s) /\ CountedAt(s)
    BY CountSite, CountUnfold DEF CountParts
<1>3. site[s].threshold \in Nat /\ check[c].threshold \in Nat
    <2>1. site[s].threshold \in Thresholds /\ check[c].threshold \in Thresholds
        BY DEF TypeOK, Site, Check
    <2> QED
        BY <2>1, ThresholdsNat
<1>4. streak[s] \in Nat
    BY MonitoringAssumption DEF TypeOK
<1>5. \A i \in Ids : incident[i].failed \in 0 .. FailureCap
    BY DEF TypeOK, Incident
<1> QED
    BY <1>1, <1>2, <1>3, <1>4, <1>5 DEF CountAt, InFlight

LEMMA CapGrows == \A n \in 0 .. FailureCap : Cap(n + 1) \in Nat /\ n <= Cap(n + 1)
BY MonitoringAssumption DEF Cap

LEMMA CountNone ==
    ASSUME NEW c \in Checks, NEW s \in Sites, ActiveFor(s)' = {},
           check'[c].pc # "idle" => check'[c].threshold = check[c].threshold
    PROVE  CountsOnFrom(c, s)
BY DEF CountsOnFrom

LEMMA CountQuietly ==
    ASSUME TypeOK, CacheInv, CacheInv', CountInv, NEW c \in Checks, NEW s \in Sites, s = check[c].site,
           InFlight(c), UNCHANGED incident,
           site'[s].phase = site[s].phase /\ site'[s].threshold = site[s].threshold,
           Probe(c) \/ Find(c) \/ Notify(c) \/ Update(c)
    PROVE  CountsOnFrom(c, s)
<1>1. /\ CountAt(c, s) /\ CountedAt(s)
    BY CountFacts
<1>2. ActiveFor(s)' = ActiveFor(s) /\ UNCHANGED streak
    BY DEF ActiveFor, Probe, Find, Notify, Update, world
<1>3. \A i \in ActiveFor(s)' : incident'[i] = incident[i]
    OBVIOUS
<1>4. CASE Probe(c)
    <2>1. check[c].pc = "probe" /\ check'[c].pc = "record" /\ check'[c].threshold = check[c].threshold
        BY <1>4, ProbeMoves DEF Probe, Stays
    <2> QED
        BY <1>1, <1>2, <1>3, <2>1 DEF CountsOnFrom, CountAt, CountedAt
<1>5. CASE Find(c)
    <2>1. /\ check[c].pc = "find" /\ Same(c)
          /\ \/ ActiveFor(s) = {} /\ check'[c].pc = IF check[c].success THEN "update" ELSE "open"
             \/ /\ check'[c].doc \in ActiveFor(s)
                /\ check'[c].pc = IF check[c].success THEN "resolve" ELSE "count"
                /\ check'[c].failed = incident[check'[c].doc].failed
        BY <1>5, FindMoves DEF Find
    <2>2. CASE ActiveFor(s) = {}
        BY <1>2, <2>1, <2>2, CountNone DEF Same, Stays
    <2>3. CASE check'[c].doc \in ActiveFor(s)
        <3>1. check'[c].site = s /\ HoldsTheIncident(c)'
            BY <2>1 DEF CacheInv, Same, Stays
        <3>2. HoldsAt(c, s)'
            BY <3>1, AtSiteNext
        <3>3. check'[c].pc \in {"resolve", "count"}
            BY <2>1, <2>3
        <3>4. ActiveFor(s) \subseteq {check'[c].doc}
            BY <1>2, <3>2, <3>3 DEF HoldsAt
        <3> QED
            BY <1>1, <1>2, <1>3, <2>1, <2>3, <3>3, <3>4 DEF CountsOnFrom, CountAt, CountedAt, Same, Stays
    <2> QED
        BY <2>1, <2>2, <2>3
<1>6. CASE Notify(c)
    <2>1. check[c].pc = "notify" /\ check'[c].pc = "update" /\ check'[c].threshold = check[c].threshold
        BY <1>6, NotifyMoves DEF Notify, Stays
    <2> QED
        BY <1>1, <1>2, <1>3, <2>1 DEF CountsOnFrom, CountAt, CountedAt
<1>7. CASE Update(c)
    <2>1. check[c].pc = "update" /\ check'[c].pc = "idle"
        BY <1>7, FinishMoves DEF Update
    <2> QED
        BY <1>1, <1>2, <1>3, <2>1 DEF CountsOnFrom, CountAt, CountedAt
<1> QED
    BY <1>4, <1>5, <1>6, <1>7

\* The record of a failure: an open incident has at least as many as its check asks for.
LEMMA CountRecord ==
    ASSUME TypeOK, CacheInv, CountInv, NEW c \in Checks, NEW s \in Sites, s = check[c].site, Record(c)
    PROVE  CountsOnFrom(c, s)
<1>1. /\ check[c].pc = "record" /\ Same(c) /\ UNCHANGED <<site, incident>>
      /\ check'[c].pc = IF ~check[c].success /\ Consecutive(c) < check[c].threshold
                        THEN "update" ELSE "find"
    BY RecordMoves DEF Record
<1>2. /\ CountsAt(c, s) /\ CountAt(c, s) /\ CountedAt(s) /\ check[c].threshold \in Nat
      /\ \A i \in Ids : incident[i].failed \in 0 .. FailureCap
    BY <1>1, CountFacts DEF InFlight
<1>3. ActiveFor(s)' = ActiveFor(s)
    BY <1>1, ActiveSame
<1>4. streak'[s] = IF check[c].success THEN 0 ELSE Cap(streak[s] + 1)
    BY DEF Record, TypeOK
<1>5. ASSUME NEW i \in ActiveFor(s)
      PROVE  /\ check'[c].pc = "find"
             /\ site[s].phase = "live" => site[s].threshold <= incident[i].failed
             /\ ~check[c].success => Cap(incident[i].failed + 1) = streak'[s]
    <2>1. i \in Ids
        BY <1>5 DEF ActiveFor
    <2>2. incident[i].failed = streak[s] /\ check[c].threshold <= incident[i].failed
        BY <1>1, <1>2, <1>5 DEF CountAt
    <2>3. ~check[c].success => Consecutive(c) = Cap(incident[i].failed + 1)
        BY <1>1, <1>2, <2>2 DEF CountsAt, Consecutive
    <2>4. incident[i].failed <= Cap(incident[i].failed + 1) /\ Cap(incident[i].failed + 1) \in Nat
        BY <1>2, <2>1, CapGrows
    <2>5. incident[i].failed \in Nat
        BY <1>2, <2>1, MonitoringAssumption
    <2>6. ~check[c].success => ~(Consecutive(c) < check[c].threshold)
        BY <1>2, <2>2, <2>3, <2>4, <2>5
    <2>7. check'[c].pc = "find"
        BY <1>1, <2>6
    <2>8. ~check[c].success => Cap(incident[i].failed + 1) = streak'[s]
        BY <1>4, <2>2
    <2> QED
        BY <1>2, <1>5, <2>7, <2>8 DEF CountedAt
<1> QED
    BY <1>1, <1>3, <1>5 DEF CountsOnFrom, Same, Stays

LEMMA CountIncident ==
    ASSUME TypeOK, InHand, CacheInv, CacheInv', CountInv, NEW c \in Checks, NEW s \in Sites,
           s = check[c].site, Resolve(c) \/ Count(c) \/ Open(c)
    PROVE  CountsOnFrom(c, s)
<1>1. InFlight(c) /\ UNCHANGED <<site, streak>>
    BY DEF InFlight, Resolve, Count, Open, world
<1>2. /\ CountsAt(c, s) /\ HoldsAt(c, s) /\ CountAt(c, s) /\ CountedAt(s)
      /\ site[s].threshold \in Nat /\ check[c].threshold \in Nat /\ streak[s] \in Nat
      /\ \A i \in Ids : incident[i].failed \in 0 .. FailureCap
      /\ site[s].phase = "live" => site[s].threshold <= check[c].threshold
    BY <1>1, CountFacts
<1>3. ASSUME check[c].pc \in {"resolve", "count"}, incident[check[c].doc].status = "deleted",
             UNCHANGED incident, check'[c].pc = "idle"
      PROVE  CountsOnFrom(c, s)
    <2>1. ActiveFor(s)' = ActiveFor(s)
        BY <1>3, ActiveSame
    <2>2. ActiveFor(s) = {}
        BY <1>2, <1>3 DEF HoldsAt, ActiveFor
    <2> QED
        BY <1>3, <2>1, <2>2, CountNone
<1>4. CASE Resolve(c)
    <2>1. check[c].pc = "resolve" /\ check[c].success
        BY <1>2, <1>4 DEF Resolve, HoldsAt
    <2>2. ASSUME Same(c), check'[c].pc = "notify" PROVE CountsOnFrom(c, s)
        <3>1. check'[c].site = s /\ HoldsTheIncident(c)'
            BY <2>2 DEF CacheInv, Same, Stays
        <3>2. HoldsAt(c, s)'
            BY <3>1, AtSiteNext
        <3>3. ActiveFor(s)' = {}
            BY <2>1, <2>2, <3>2 DEF HoldsAt, Same
        <3> QED
            BY <2>2, <3>3, CountNone DEF Same, Stays
    <2> QED
        BY <1>3, <1>4, <2>1, <2>2, ResolveMoves
<1>5. CASE Count(c)
    <2>1. check[c].pc = "count" /\ ~check[c].success /\ check[c].doc \in Ids
        BY <1>2, <1>5 DEF Count, HoldsAt, InHand
    <2>2. ASSUME incident' = [incident EXCEPT ![check[c].doc].failed = Cap(check[c].failed + 1)], Same(c),
                 check'[c].pc = "update"
          PROVE  CountsOnFrom(c, s)
        <3>1. ActiveFor(s)' = ActiveFor(s)
            <4>1. ASSUME NEW n, incident' = [incident EXCEPT ![check[c].doc].failed = n]
                  PROVE  \A i \in Ids : /\ incident'[i].status = incident[i].status
                                        /\ incident'[i].site = incident[i].site
                BY <2>1, <4>1 DEF TypeOK, Incident
            <4> QED
                BY <2>2, <4>1, ActiveSame
        <3>2. ASSUME NEW i \in ActiveFor(s)
              PROVE  /\ incident'[i].failed = streak[s]
                     /\ site[s].phase = "live" => site[s].threshold <= incident'[i].failed
            <4>1. i = check[c].doc /\ i \in Ids
                BY <1>2, <2>1, <3>2 DEF HoldsAt, ActiveFor
            <4>2. check[c].failed = incident[i].failed /\ Cap(incident[i].failed + 1) = streak[s]
                BY <1>2, <2>1, <3>2 DEF CountAt
            <4>3. incident'[i].failed = Cap(check[c].failed + 1)
                BY <2>1, <2>2, <4>1 DEF TypeOK, Incident
            <4>4. site[s].phase = "live" => site[s].threshold <= incident[i].failed
                BY <1>2, <3>2 DEF CountedAt
            <4>5. incident[i].failed <= Cap(incident[i].failed + 1) /\ Cap(incident[i].failed + 1) \in Nat
                BY <1>2, <4>1, CapGrows
            <4>6. incident[i].failed \in Nat
                BY <1>2, <4>1, MonitoringAssumption
            <4>7. site[s].phase = "live" => site[s].threshold <= Cap(incident[i].failed + 1)
                BY <1>2, <4>4, <4>5, <4>6
            <4> QED
                BY <4>2, <4>3, <4>7
        <3> QED
            BY <1>1, <2>2, <3>1, <3>2 DEF CountsOnFrom, Same, Stays
    <2> QED
        BY <1>3, <1>5, <2>1, <2>2, CountMoves
<1>6. CASE Open(c)
    <2>1. check[c].pc = "open" /\ ~check[c].success /\ ActiveFor(s) = {}
        BY <1>2, <1>6 DEF Open, InHand, HoldsAt
    <2>2. /\ Same(c) /\ check'[c].pc = "notify" /\ check'[c].doc \in Ids /\ Opened(c, check'[c].doc)
        BY <1>6, <2>1, OpenMoves
    <2>3. \A i \in ActiveFor(s)' : incident'[i].failed = Consecutive(c)
        <3>1. \A i \in Ids : i # check'[c].doc => incident'[i] = incident[i]
            BY <2>2 DEF Opened, TypeOK
        <3>2. incident'[check'[c].doc].failed = Consecutive(c)
            BY <2>2 DEF Opened, TypeOK
        <3> QED
            BY <2>1, <3>1, <3>2 DEF ActiveFor
    <2>4. Consecutive(c) = streak[s] /\ streak[s] >= check[c].threshold
        BY <1>1, <1>2, <2>1 DEF CountsAt, InFlight
    <2>5. site[s].phase = "live" => site[s].threshold <= streak[s]
        BY <1>2, <2>4
    <2> QED
        BY <1>1, <2>2, <2>3, <2>4, <2>5 DEF CountsOnFrom, Same, Stays
<1> QED
    BY <1>4, <1>5, <1>6

LEMMA CountByCheck ==
    ASSUME TypeOK, TypeOK', InHand, CacheInv, CacheInv', CountInv, Alone, NEW c \in Checks, CheckStep(c)
    PROVE  CountInv'
<1>1. PICK s \in Sites : s = check[c].site
    BY DEF TypeOK, Check
<1>2. InFlight(c) /\ site'[s].phase = site[s].phase /\ site'[s].threshold = site[s].threshold
    BY <1>1, Elsewhere
<1>3. ~Reuse(c)
    BY DEF CacheInv, HoldsTheIncident, Reuse
<1>4. CASE Probe(c) \/ Find(c) \/ Notify(c) \/ Update(c)
    <2>1. UNCHANGED incident
        BY <1>4 DEF Probe, Find, Notify, Update, db
    <2>2. CountsOnFrom(c, s)
        BY <1>1, <1>2, <1>4, <2>1, CountQuietly
    <2> QED
        BY <1>1, <2>2, CountFromOne
<1>5. CASE Record(c)
    BY <1>1, <1>5, CountRecord, CountFromOne
<1>6. CASE Resolve(c) \/ Count(c) \/ Open(c)
    BY <1>1, <1>6, CountIncident, CountFromOne
<1> QED
    BY <1>3, <1>4, <1>5, <1>6 DEF CheckStep

LEMMA CountStep ==
    ASSUME TypeOK, TypeOK', InHand, CacheInv, CacheInv', Alone, Alone', NoRaise, CountInv, Next
    PROVE  CountInv'
<1>1. Undisturbed
    BY NoFault DEF Alone
<1> QED
    BY <1>1, CountBystanders, CountSnapshot, CountByCheck DEF Undisturbed

\* While an incident is open its failedChecks counts the failures of the whole outage,
\* where checks neither overlap nor fail and no threshold is raised while its site is
\* being checked or has an open incident: for any thresholds, sites and sweeps, however
\* often users lower thresholds, pause, resume and delete.
THEOREM OpenIncidentsCount == Spec /\ []Alone /\ [][NoRaise]_vars => []FailuresAreCounted
<1>1. Init => CountInv
    <2> SUFFICES ASSUME Init PROVE CountInv
        OBVIOUS
    <2>1. \A c \in Checks : check[c] = Idle
        BY DEF Init
    <2>2. \A s \in Sites : ActiveFor(s) = {}
        BY DEF Init, ActiveFor
    <2>3. \A c \in Checks : CountOf(c)
        BY <2>1 DEF CountOf, Idle, CountOf
    <2> QED
        BY <2>2, <2>3, CountUnfold DEF CountParts, CountedAt
<1>2. /\ MonitoringInv /\ MonitoringInv' /\ CacheInv /\ CacheInv' /\ Alone /\ Alone'
      /\ CountInv /\ [Next]_vars /\ [NoRaise]_vars
      => CountInv'
    <2> SUFFICES ASSUME MonitoringInv, MonitoringInv', CacheInv, CacheInv', Alone, Alone',
                        CountInv, [Next]_vars, [NoRaise]_vars
                 PROVE  CountInv'
        OBVIOUS
    <2>1. TypeOK /\ TypeOK' /\ InHand
        BY DEF MonitoringInv
    <2>2. CASE UNCHANGED vars
        <3>1. UNCHANGED <<check, streak, site, incident>>
            BY <2>2 DEF vars
        <3>2. \A s \in Sites : site[s].threshold \in Nat
            <4>1. \A s \in Sites : site[s].threshold \in Thresholds
                BY <2>1 DEF TypeOK, Site
            <4> QED
                BY <4>1, ThresholdsNat
        <3>3. \A s \in Sites : ActiveFor(s)' = ActiveFor(s)
            BY <3>1, ActiveSame
        <3>4. \A s \in Sites : Steady(s)
            BY <3>1, <3>2, <3>3 DEF Steady
        <3> QED
            BY <2>1, <3>1, <3>4, CountKept
    <2>3. CASE ~UNCHANGED vars
        BY <2>1, <2>3, CountStep
    <2> QED
        BY <2>2, <2>3
<1>3. CountInv => FailuresAreCounted
    BY DEF CountInv
<1> QED
    BY <1>1, <1>2, <1>3, Monitoring, CacheInvariant, PTL DEF Spec

-----------------------------------------------------------------------------
(* Announcements are bounded by the checks that can make them.             *)

LEMMA ChecksFinite == IsFiniteSet(Checks)
BY MonitoringAssumption, FS_Union DEF Checks

\* An announcement uses up the check that makes it.
LEMMA UsedUp ==
    ASSUME NEW S \in SUBSET Checks, NEW T, NEW m \in Nat, NEW n,
           m + Cardinality(S) <= Cardinality(Checks),
           \/ n = m /\ T \subseteq S
           \/ n = m + 1 /\ \E c \in S : T \subseteq S \ {c}
    PROVE  n + Cardinality(T) <= Cardinality(Checks)
<1>1. IsFiniteSet(S) /\ Cardinality(S) \in Nat /\ Cardinality(Checks) \in Nat
    BY ChecksFinite, FS_Subset, FS_CardinalityType
<1>2. CASE n = m /\ T \subseteq S
    <2>1. Cardinality(T) \in Nat /\ Cardinality(T) <= Cardinality(S)
        BY <1>1, <1>2, FS_Subset, FS_CardinalityType
    <2> QED
        BY <1>1, <1>2, <2>1
<1>3. ASSUME NEW c \in S, n = m + 1, T \subseteq S \ {c}
      PROVE  n + Cardinality(T) <= Cardinality(Checks)
    <2>1. IsFiniteSet(S \ {c}) /\ Cardinality(S \ {c}) = Cardinality(S) - 1
        BY <1>1, FS_RemoveElement
    <2>2. Cardinality(T) \in Nat /\ Cardinality(T) <= Cardinality(S \ {c})
        BY <1>3, <2>1, FS_Subset, FS_CardinalityType
    <2> QED
        BY <1>1, <1>3, <2>1, <2>2
<1> QED
    BY <1>2, <1>3

\* Nothing announced yet leaves all of them.
LEMMA NoneUsed ==
    ASSUME NEW T \in SUBSET Checks PROVE 0 + Cardinality(T) <= Cardinality(Checks)
<1>1. Cardinality(T) \in Nat /\ Cardinality(T) <= Cardinality(Checks)
    BY ChecksFinite, FS_Subset, FS_CardinalityType
<1> QED
    BY <1>1

\* Only a check at its announcement announces, its own incident, and leaves.
Announces(c) == Notify(c) \/ NotifyFails(c)

LEMMA AnnounceAlerts ==
    ASSUME TypeOK, InHand, NEW c \in Checks, Announces(c)
    PROVE  /\ check[c].doc \in Ids /\ incident[check[c].doc].status # "none"
           /\ check[c].pc = "notify" /\ check'[c].pc \in {"update", "idle"} /\ UNCHANGED incident
           /\ \A d \in Checks : d # c => check'[d] = check[d]
           /\ alerts'[check[c].doc].down = alerts[check[c].doc].down + (IF check[c].success THEN 0 ELSE 1)
           /\ alerts'[check[c].doc].up = alerts[check[c].doc].up + (IF check[c].success THEN 1 ELSE 0)
           /\ \A i \in Ids : i # check[c].doc => alerts'[i] = alerts[i]
<1>1. check[c].pc = "notify" /\ UNCHANGED incident /\ Announce(c)
    BY DEF Announces, Notify, NotifyFails
<1>2. check[c].doc \in Ids /\ incident[check[c].doc].status # "none"
    BY <1>1 DEF InHand
<1>3. alerts[check[c].doc].down \in Nat /\ alerts[check[c].doc].up \in Nat
    BY <1>2 DEF TypeOK
<1>4. check'[c].pc \in {"update", "idle"}
    BY NotifyMoves, FinishMoves DEF Announces, NotifyFails
<1>5. \A d \in Checks : d # c => check'[d] = check[d]
    BY OthersStay DEF Announces, CheckStep
<1>6. CASE check[c].success
    BY <1>1, <1>2, <1>3, <1>4, <1>5, <1>6 DEF Announce, TypeOK
<1>7. CASE ~check[c].success
    BY <1>1, <1>2, <1>3, <1>4, <1>5, <1>7 DEF Announce, TypeOK
<1> QED
    BY <1>6, <1>7

LEMMA RequestsTouchNeither ==
    ASSUME UserRequest PROVE UNCHANGED <<check, alerts>>
<1>1. ASSUME NEW e \in Editors, EditSave(e) PROVE UNCHANGED <<check, world>>
    BY <1>1, Zenon DEF EditSave
<1>2. ASSUME NEW e \in Editors, NEW s \in Sites, NEW m, NEW n, EditRead(e, s, m, n)
      PROVE  UNCHANGED <<check, world>>
    BY <1>2, Zenon DEF EditRead
<1>3. ASSUME NEW s \in Sites, NEW enabled, NEW n, CreateSite(s, enabled, n)
      PROVE  UNCHANGED <<check, world>>
    BY <1>3, Zenon DEF CreateSite
<1>4. ASSUME NEW s \in Sites, DeleteSite(s) PROVE UNCHANGED <<check, world>>
    BY <1>4, Zenon DEF DeleteSite
<1>5. UNCHANGED <<check, world>>
    BY <1>1, <1>2, <1>3, <1>4, Zenon DEF UserRequest
<1> QED
    BY <1>5 DEF world

LEMMA AlertWriters ==
    ASSUME Next, ~ \E c \in Checks : Announces(c) PROVE UNCHANGED alerts
<1>1. UserRequest => UNCHANGED alerts
    BY RequestsTouchNeither
<1>2. ASSUME NEW c \in Checks, CheckStep(c) \/ CallFails(c) PROVE UNCHANGED alerts
    <2>1. CASE CallFails(c)
        BY <2>1 DEF CallFails
    <2>2. CASE Find(c) \/ Reuse(c)
        <3>1. UNCHANGED <<db, edit, cascade, world>>
            BY <2>2, Zenon DEF Find, Reuse
        <3> QED
            BY <3>1 DEF world
    <2>3. CASE Probe(c) \/ Record(c) \/ Resolve(c) \/ Count(c) \/ Open(c) \/ Update(c)
        BY <2>3 DEF Probe, Record, Resolve, Count, Open, Update, world
    <2> QED
        BY <1>2, <2>1, <2>2, <2>3 DEF CheckStep, Announces
<1>3. ASSUME NEW c \in Checks, NEW s \in Sites, SweepSnapshot(c, s) \/ ManualSnapshot(c, s)
      PROVE  UNCHANGED alerts
    BY <1>3 DEF SweepSnapshot, ManualSnapshot, world
<1> QED
    BY <1>1, <1>2, <1>3 DEF Next, Announces, DeleteMany, DeleteManyFails, Crash, Flip, world

\* How a check that moves comes to hold an incident that it may announce.
Came(d) ==
    \/ check'[d] = check[d]
    \/ check'[d].pc \in {"idle", "probe", "record", "find", "count", "update"}
    \/ /\ check[d].pc = "find" /\ UNCHANGED incident
       /\ \/ check'[d].pc = "open" /\ ActiveFor(check[d].site) = {} /\ check'[d].site = check[d].site
          \/ check'[d].pc = "resolve" /\ check'[d].doc \in ActiveFor(check[d].site)
    \/ /\ check[d].pc = "resolve" /\ check'[d].pc = "notify" /\ check'[d].doc = check[d].doc
       /\ check'[d].success = check[d].success
    \/ /\ check[d].pc = "open" /\ check'[d].pc = "reuse" /\ UNCHANGED incident
       /\ check'[d].site = check[d].site
    \/ /\ check[d].pc = "open" /\ check'[d].pc = "notify" /\ check'[d].success = check[d].success
       /\ check'[d].doc \in Ids /\ incident[check'[d].doc].status = "none"
    \/ /\ check[d].pc = "reuse" /\ check'[d].pc = "notify" /\ check'[d].success = check[d].success
       /\ check'[d].doc \in ActiveFor(check[d].site)

LEMMA ComesBy ==
    ASSUME TypeOK, InHand, Next, NEW d \in Checks PROVE Came(d)
<1>1. UserRequest => UNCHANGED check
    BY RequestsTouchNeither
<1>2. ASSUME NEW c \in Checks, CheckStep(c) PROVE Came(d)
    <2>1. CASE d # c
        BY <1>2, <2>1, OthersStay DEF Came
    <2>2. CASE d = c
        <3>1. CASE Find(c)
            BY <2>2, <3>1, FindMoves, FindReads DEF Came, Same, Stays
        <3>2. CASE Resolve(c)
            BY <2>2, <3>2, ResolveMoves DEF Came, Same, Resolve
        <3>3. CASE Open(c)
            BY <2>2, <3>3, OpenMoves DEF Came, Same, Stays, Opened, Open
        <3>4. CASE Reuse(c)
            BY <2>2, <3>4, ReuseMoves DEF Came, Same, Reuse
        <3>5. CASE Probe(c) \/ Record(c) \/ Count(c) \/ Notify(c) \/ Update(c)
            BY <2>2, <3>5, ProbeMoves, RecordMoves, CountMoves, NotifyMoves, FinishMoves DEF Came, Update
        <3> QED
            BY <1>2, <3>1, <3>2, <3>3, <3>4, <3>5 DEF CheckStep
    <2> QED
        BY <2>1, <2>2
<1>3. ASSUME NEW c \in Checks, CallFails(c) \/ NotifyFails(c) PROVE Came(d)
    <2>1. d = c => check'[d].pc = "idle"
        BY <1>3, FinishMoves DEF CallFails, NotifyFails
    <2> QED
        BY <1>3, <2>1, OthersStay DEF Came
<1>4. ASSUME NEW c \in Checks, NEW s \in Sites, SweepSnapshot(c, s) \/ ManualSnapshot(c, s)
      PROVE  Came(d)
    BY <1>4, SnapshotMoves DEF Came
<1>5. Crash => Came(d)
    BY DEF Crash, Came, Idle
<1> QED
    BY <1>1, <1>2, <1>3, <1>4, <1>5 DEF Next, DeleteMany, DeleteManyFails, Flip, db, Came

\* Nobody new comes to be able to announce an incident that exists.
LEMMA TellersDown ==
    ASSUME TypeOK, InHand, \A c \in Checks : check[c].pc = "resolve" => check[c].success, Next,
           NEW i \in Ids, incident[i].status # "none"
    PROVE  MayTellDown(i)' \subseteq MayTellDown(i)
<1>1. incident'[i].status = "ACTIVE" =>
          incident[i].status = "ACTIVE" /\ incident'[i].site = incident[i].site
    <2>1. Kept
        BY IncidentStep
    <2>2. incident[i].status \in {"ACTIVE", "RESOLVED", "deleted"}
        BY DEF TypeOK, Incident
    <2> QED
        BY <2>1, <2>2 DEF Kept, Closed
<1> SUFFICES ASSUME NEW d \in Checks, d \in MayTellDown(i)' PROVE d \in MayTellDown(i)
    BY DEF MayTellDown
<1>2. Came(d)
    BY ComesBy
<1>3. CASE check'[d].pc = "notify" /\ check'[d].doc = i /\ ~check'[d].success
    BY <1>2, <1>3 DEF Came, MayTellDown, ActiveFor
<1>4. CASE /\ check'[d].pc \in {"open", "reuse"}
           /\ incident'[i].status = "ACTIVE" /\ incident'[i].site = check'[d].site
    <2>1. CASE check'[d] = check[d]
        BY <1>1, <1>4, <2>1 DEF MayTellDown
    <2>2. CASE check[d].pc = "find" /\ UNCHANGED incident /\ check'[d].site = check[d].site
               /\ ActiveFor(check[d].site) = {}
        BY <1>4, <2>2 DEF ActiveFor
    <2>3. CASE check[d].pc = "open" /\ UNCHANGED incident /\ check'[d].site = check[d].site
        BY <1>4, <2>3 DEF MayTellDown
    <2> QED
        BY <1>2, <1>4, <2>1, <2>2, <2>3 DEF Came
<1> QED
    BY <1>3, <1>4 DEF MayTellDown

\* Nobody new comes to be able to announce the recovery of an incident that is over.
LEMMA TellersUp ==
    ASSUME TypeOK, InHand, Next, NEW i \in Ids, incident[i].status \in Closed
    PROVE  MayTellUp(i)' \subseteq MayTellUp(i)
<1> SUFFICES ASSUME NEW d \in Checks, d \in MayTellUp(i)' PROVE d \in MayTellUp(i)
    BY DEF MayTellUp
<1>1. check'[d].pc \in {"resolve", "notify"} /\ check'[d].doc = i /\ check'[d].success
    BY DEF MayTellUp
<1>2. Came(d)
    BY ComesBy
<1> QED
    BY <1>1, <1>2 DEF Came, MayTellUp, ActiveFor, Closed

\* An announcement is made by a check that could make it and then no longer can.
LEMMA AlertsUseUp ==
    ASSUME TypeOK, InHand, Next, NEW i \in Ids
    PROVE  \/ alerts'[i] = alerts[i]
           \/ /\ incident[i].status # "none"
              /\ alerts'[i].down = alerts[i].down + 1 /\ alerts'[i].up = alerts[i].up
              /\ \E c \in MayTellDown(i) : c \notin MayTellDown(i)'
           \/ /\ incident[i].status \in Closed
              /\ alerts'[i].up = alerts[i].up + 1 /\ alerts'[i].down = alerts[i].down
              /\ \E c \in MayTellUp(i) : c \notin MayTellUp(i)'
<1>1. CASE ~ \E c \in Checks : Announces(c)
    BY <1>1, AlertWriters
<1>2. ASSUME NEW c \in Checks, Announces(c), i # check[c].doc PROVE alerts'[i] = alerts[i]
    BY <1>2, AnnounceAlerts
<1>3. ASSUME NEW c \in Checks, Announces(c), i = check[c].doc
      PROVE  \/ /\ incident[i].status # "none"
                /\ alerts'[i].down = alerts[i].down + 1 /\ alerts'[i].up = alerts[i].up
                /\ c \in MayTellDown(i) /\ c \notin MayTellDown(i)'
             \/ /\ incident[i].status \in Closed
                /\ alerts'[i].up = alerts[i].up + 1 /\ alerts'[i].down = alerts[i].down
                /\ c \in MayTellUp(i) /\ c \notin MayTellUp(i)'
    <2>1. /\ incident[i].status # "none" /\ check[c].pc = "notify"
          /\ check'[c].pc \in {"update", "idle"}
          /\ alerts'[i].down = alerts[i].down + (IF check[c].success THEN 0 ELSE 1)
          /\ alerts'[i].up = alerts[i].up + (IF check[c].success THEN 1 ELSE 0)
        BY <1>3, AnnounceAlerts
    <2>2. alerts[i].down \in Nat /\ alerts[i].up \in Nat
        BY DEF TypeOK
    <2>3. c \notin MayTellDown(i)' /\ c \notin MayTellUp(i)'
        BY <2>1 DEF MayTellDown, MayTellUp
    <2>4. CASE check[c].success
        <3>1. incident[i].status \in Closed /\ c \in MayTellUp(i)
            BY <1>3, <2>1, <2>4 DEF InHand, MayTellUp, Closed
        <3> QED
            BY <2>1, <2>2, <2>3, <2>4, <3>1
    <2>5. CASE ~check[c].success
        <3>1. c \in MayTellDown(i)
            BY <1>3, <2>1, <2>5 DEF MayTellDown
        <3> QED
            BY <2>1, <2>2, <2>3, <2>5, <3>1
    <2> QED
        BY <2>4, <2>5
<1> QED
    BY <1>1, <1>2, <1>3

LEMMA TellersStep ==
    ASSUME TypeOK, InHand, UpOnlyAfterResolve, TypeOK',
           \A c \in Checks : check[c].pc = "resolve" => check[c].success,
           TellersAreBounded, Next
    PROVE  TellersAreBounded'
<1> SUFFICES ASSUME NEW i \in Ids
             PROVE  /\ incident'[i].status = "none" => alerts'[i].down = 0
                    /\ alerts'[i].down + Cardinality(MayTellDown(i)') <= Cardinality(Checks)
                    /\ alerts'[i].up + Cardinality(MayTellUp(i)') <= Cardinality(Checks)
    BY DEF TellersAreBounded
<1>1. alerts[i].down \in Nat /\ alerts[i].up \in Nat
    BY DEF TypeOK
<1>2. /\ MayTellDown(i) \in SUBSET Checks /\ MayTellDown(i)' \in SUBSET Checks
      /\ MayTellUp(i) \in SUBSET Checks /\ MayTellUp(i)' \in SUBSET Checks
    BY DEF MayTellDown, MayTellUp
<1>3. /\ incident[i].status = "none" => alerts[i].down = 0
      /\ alerts[i].down + Cardinality(MayTellDown(i)) <= Cardinality(Checks)
      /\ alerts[i].up + Cardinality(MayTellUp(i)) <= Cardinality(Checks)
    BY DEF TellersAreBounded
<1>4. incident[i].status = "none" => alerts'[i].down = 0
    BY <1>3, AlertsUseUp DEF Closed
<1>5. incident'[i].status = "none" => incident[i].status = "none"
    BY IncidentStep DEF Kept
<1>6. alerts'[i].down + Cardinality(MayTellDown(i)') <= Cardinality(Checks)
    <2>1. CASE incident[i].status = "none"
        BY <1>2, <1>4, <2>1, NoneUsed
    <2>2. CASE incident[i].status # "none"
        <3>1. MayTellDown(i)' \subseteq MayTellDown(i)
            BY <2>2, TellersDown
        <3>2. \/ alerts'[i].down = alerts[i].down /\ MayTellDown(i)' \subseteq MayTellDown(i)
              \/ /\ alerts'[i].down = alerts[i].down + 1
                 /\ \E c \in MayTellDown(i) : MayTellDown(i)' \subseteq MayTellDown(i) \ {c}
            BY <3>1, AlertsUseUp
        <3> QED
            BY <1>1, <1>2, <1>3, <3>2, UsedUp
    <2> QED
        BY <2>1, <2>2
<1>7. alerts'[i].up + Cardinality(MayTellUp(i)') <= Cardinality(Checks)
    <2>1. CASE incident[i].status \in Closed
        <3>1. MayTellUp(i)' \subseteq MayTellUp(i)
            BY <2>1, TellersUp
        <3>2. \/ alerts'[i].up = alerts[i].up /\ MayTellUp(i)' \subseteq MayTellUp(i)
              \/ /\ alerts'[i].up = alerts[i].up + 1
                 /\ \E c \in MayTellUp(i) : MayTellUp(i)' \subseteq MayTellUp(i) \ {c}
            BY <3>1, AlertsUseUp
        <3> QED
            BY <1>1, <1>2, <1>3, <3>2, UsedUp
    <2>2. CASE incident[i].status \notin Closed
        <3>1. alerts[i].up = 0
            BY <1>1, <2>2 DEF UpOnlyAfterResolve, Closed
        <3>2. alerts'[i].up = 0
            BY <2>2, <3>1, AlertsUseUp
        <3> QED
            BY <1>2, <3>2, NoneUsed
    <2> QED
        BY <2>1, <2>2
<1> QED
    BY <1>4, <1>5, <1>6, <1>7

\* However many checks of a site overlap, whatever fails and with or without the unique
\* index, an incident is announced at most once for each check that can be in flight, and
\* so is its recovery.
THEOREM AnnouncementsAreBounded == Spec => []AnnouncementsBounded
<1>1. Init => TellersAreBounded
    <2> SUFFICES ASSUME Init, NEW i \in Ids
                 PROVE  /\ alerts[i].down = 0 /\ alerts[i].up = 0
                        /\ MayTellDown(i) \in SUBSET Checks /\ MayTellUp(i) \in SUBSET Checks
        BY NoneUsed DEF TellersAreBounded
    <2> QED
        BY DEF Init, MayTellDown, MayTellUp
<1>2. MonitoringInv /\ MonitoringInv' /\ AlertsAreOwed /\ TellersAreBounded /\ [Next]_vars
      => TellersAreBounded'
    <2> SUFFICES ASSUME MonitoringInv, MonitoringInv', AlertsAreOwed, TellersAreBounded, [Next]_vars
                 PROVE  TellersAreBounded'
        OBVIOUS
    <2>1. CASE Next
        BY <2>1, TellersStep DEF MonitoringInv, AlertsAreOwed
    <2>2. CASE UNCHANGED vars
        BY <2>2 DEF vars, TellersAreBounded, MayTellDown, MayTellUp
    <2> QED
        BY <2>1, <2>2
<1>3. MonitoringInv /\ TellersAreBounded => AnnouncementsBounded
    <2> SUFFICES ASSUME MonitoringInv, TellersAreBounded, NEW i \in Ids
                 PROVE  alerts[i].down <= Cardinality(Checks) /\ alerts[i].up <= Cardinality(Checks)
        BY DEF AnnouncementsBounded
    <2>1. alerts[i].down \in Nat /\ alerts[i].up \in Nat
        BY DEF MonitoringInv, TypeOK
    <2>2. /\ Cardinality(MayTellDown(i)) \in Nat /\ Cardinality(MayTellUp(i)) \in Nat
          /\ Cardinality(Checks) \in Nat
        <3>1. MayTellDown(i) \subseteq Checks /\ MayTellUp(i) \subseteq Checks
            BY DEF MayTellDown, MayTellUp
        <3> QED
            BY <3>1, ChecksFinite, FS_Subset, FS_CardinalityType
    <2>3. /\ alerts[i].down + Cardinality(MayTellDown(i)) <= Cardinality(Checks)
          /\ alerts[i].up + Cardinality(MayTellUp(i)) <= Cardinality(Checks)
        BY DEF TellersAreBounded
    <2> QED
        BY <2>1, <2>2, <2>3
<1> QED
    BY <1>1, <1>2, <1>3, Monitoring, OwedInvariant, PTL DEF Spec

-----------------------------------------------------------------------------
(* Constants that leave no choice.                                         *)

\* The hypotheses of the theorems above hold of every behaviour when one check at a
\* time is in flight, no call fails and all sites have the same threshold: the case the
\* run engine_alone explores, here with any number of sites, incidents and users.
THEOREM OneCheckAtATime ==
    ASSUME MaxFaults = 0, \A c, d \in Checks : c = d, \A m, n \in Thresholds : m = n
    PROVE  Spec => /\ [](CacheAgrees /\ FailuresAreCounted /\ OneAlertPerTransition)
                   /\ OpensOnConsecutiveFailures /\ ImplementsResponse
<1>1. MonitoringInv => Alone
    BY DEF MonitoringInv, TypeOK, Alone
<1>2. MonitoringInv /\ MonitoringInv' => NoRaise
    <2> SUFFICES ASSUME MonitoringInv, MonitoringInv', NEW s \in Sites
                 PROVE  ~(site'[s].threshold > site[s].threshold)
        BY DEF NoRaise
    <2>1. site[s].threshold \in Thresholds /\ site'[s].threshold \in Thresholds
        BY DEF MonitoringInv, TypeOK, Site
    <2>2. site'[s].threshold = site[s].threshold /\ site[s].threshold \in Nat
        BY <2>1, ThresholdsNat
    <2> QED
        BY <2>2
<1>3. Spec => []Alone
    BY <1>1, Monitoring, PTL
<1>4. Spec => [][NoRaise]_vars
    BY <1>2, Monitoring, PTL
<1> QED
    BY <1>3, <1>4, CachedFieldsAgree, OpenIncidentsCount, OneAnnouncementEach, OpensOnStreak,
       AloneImplementsResponse, PTL

=============================================================================
