--------------------------- MODULE IncidentLifecycle ---------------------------
(***************************************************************************)
(* What the monitoring engine promises of a site's incidents, with the     *)
(* checks that race to open and resolve them left out: an incident opens   *)
(* only while none is open for its site, is resolved once and for good,    *)
(* and leaves the database only when its site is deleted.                  *)
(***************************************************************************)
CONSTANTS Sites, Ids

VARIABLES status,   \* per incident: "none" until created, then its status
          owner,    \* the site of a created incident
          gone      \* sites that have been deleted

vars == <<status, owner, gone>>

Init ==
    /\ status = [i \in Ids |-> "none"]
    /\ owner \in [Ids -> Sites]
    /\ gone = {}

OpenFor(s) == {i \in Ids : status[i] = "ACTIVE" /\ owner[i] = s}

Open(i, s) ==
    /\ status[i] = "none"
    /\ OpenFor(s) = {}
    /\ status' = [status EXCEPT ![i] = "ACTIVE"]
    /\ owner' = [owner EXCEPT ![i] = s]
    /\ UNCHANGED gone

Resolve(i) ==
    /\ status[i] = "ACTIVE"
    /\ status' = [status EXCEPT ![i] = "RESOLVED"]
    /\ UNCHANGED <<owner, gone>>

DeleteSite(s) ==
    /\ gone' = gone \union {s}
    /\ UNCHANGED <<status, owner>>

Purge(s) ==
    /\ s \in gone
    /\ status' = [i \in Ids |-> IF status[i] # "none" /\ owner[i] = s THEN "deleted" ELSE status[i]]
    /\ UNCHANGED <<owner, gone>>

Next ==
    \/ \E i \in Ids, s \in Sites : Open(i, s)
    \/ \E i \in Ids : Resolve(i)
    \/ \E s \in Sites : DeleteSite(s) \/ Purge(s)

Spec == Init /\ [][Next]_vars

=============================================================================
