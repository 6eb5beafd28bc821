---------------------------- MODULE OutageResponse ----------------------------
(***************************************************************************)
(* What the monitoring engine promises while checks of one site neither    *)
(* overlap nor fail: every stored result is answered in full before the    *)
(* next one is stored.  A failure that completes the threshold opens an    *)
(* incident or joins the open one, a success resolves it, and each of the  *)
(* two transitions is told, once, and in this order.                       *)
(***************************************************************************)
EXTENDS Naturals

CONSTANTS Sites, Ids, Thresholds,
          Longest           \* streaks are told apart up to this length

VARIABLES streak,   \* failed results stored since the last success, per site
          status,   \* per incident: "none" until opened, then its status
          owner,    \* the site of an incident
          told,     \* announcements made of an incident
          duty,     \* what the last stored result of a site still asks for
          gone      \* sites that have been deleted

vars == <<streak, status, owner, told, duty, gone>>

Nothing == [down |-> 0, up |-> 0]

Init ==
    /\ streak = [s \in Sites |-> 0]
    /\ status = [i \in Ids |-> "none"]
    /\ owner \in [Ids -> Sites]
    /\ told = [i \in Ids |-> Nothing]
    /\ duty = [s \in Sites |-> "none"]
    /\ gone = {}

OpenFor(s) == {i \in Ids : status[i] = "ACTIVE" /\ owner[i] = s}

\* A duty is taken over by the next or done with.
Becomes(s, from, to) == duty[s] = from /\ duty' = [duty EXCEPT ![s] = to]

\* The next failure in a row, as far as streaks are told apart.
Longer(n) == IF n < Longest THEN n + 1 ELSE n

StoreSuccess(s) ==
    /\ Becomes(s, "none", "recover")
    /\ streak' = [streak EXCEPT ![s] = 0]
    /\ UNCHANGED <<status, owner, told, gone>>

\* A failure is noise below the threshold, and an outage from there on.
StoreFailure(s, threshold) ==
    /\ streak' = [streak EXCEPT ![s] = Longer(@)]
    /\ Becomes(s, "none", IF Longer(streak[s]) < threshold THEN "none" ELSE "open")
    /\ UNCHANGED <<status, owner, told, gone>>

Open(i, s) ==
    /\ status[i] = "none"
    /\ OpenFor(s) = {}
    /\ Becomes(s, "open", "tellOutage")
    /\ status' = [status EXCEPT ![i] = "ACTIVE"]
    /\ owner' = [owner EXCEPT ![i] = s]
    /\ UNCHANGED <<streak, told, gone>>

\* the outage goes on
Join(s) ==
    /\ OpenFor(s) # {}
    /\ Becomes(s, "open", "none")
    /\ UNCHANGED <<streak, status, owner, told, gone>>

Resolve(i) ==
    /\ status[i] = "ACTIVE"
    /\ Becomes(owner[i], "recover", "tellRecovery")
    /\ status' = [status EXCEPT ![i] = "RESOLVED"]
    /\ UNCHANGED <<streak, owner, told, gone>>

\* the site was well already
NothingToResolve(s) ==
    /\ OpenFor(s) = {}
    /\ Becomes(s, "recover", "none")
    /\ UNCHANGED <<streak, status, owner, told, gone>>

TellOutage(i) ==
    /\ Becomes(owner[i], "tellOutage", "none")
    /\ status[i] \in {"ACTIVE", "deleted"}
    /\ told[i] = Nothing
    /\ told' = [told EXCEPT ![i].down = 1]
    /\ UNCHANGED <<streak, status, owner, gone>>

TellRecovery(i) ==
    /\ Becomes(owner[i], "tellRecovery", "none")
    /\ status[i] \in {"RESOLVED", "deleted"}
    /\ told[i] = [Nothing EXCEPT !.down = 1]
    /\ told' = [told EXCEPT ![i].up = 1]
    /\ UNCHANGED <<streak, status, owner, gone>>

DeleteSite(s) ==
    /\ gone' = gone \union {s}
    /\ UNCHANGED <<streak, status, owner, told, duty>>

Purge(s) ==
    /\ s \in gone
    /\ status' = [i \in Ids |-> IF status[i] # "none" /\ owner[i] = s THEN "deleted" ELSE status[i]]
    /\ UNCHANGED <<streak, owner, told, duty, gone>>

Next ==
    \/ \E s \in Sites : \/ StoreSuccess(s)
                        \/ \E n \in Thresholds : StoreFailure(s, n)
                        \/ Join(s) \/ NothingToResolve(s)
                        \/ DeleteSite(s) \/ Purge(s)
                        \/ \E i \in Ids : Open(i, s)
    \/ \E i \in Ids : Resolve(i) \/ TellOutage(i) \/ TellRecovery(i)

Spec == Init /\ [][Next]_vars

=============================================================================
