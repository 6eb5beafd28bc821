--------------------------------- MODULE Pages ---------------------------------
(***************************************************************************)
(* The pages of the dashboard and their copies of the server's data: what  *)
(* each loads, polls, filters and changes, and what it shows meanwhile.    *)
(*                                                                         *)
(* One page is mounted.  One document is followed: a site, an incident, a  *)
(* sweep, a notification, a preference or a channel; the rows of a page do *)
(* not influence one another.  It is "on" or "off" (watched or paused,     *)
(* active or resolved, unread or read, enabled or not), or gone.  A filter *)
(* lets everything through, or what is on.                                 *)
(*                                                                         *)
(* A call is sent, served and answered at different times, so an answer    *)
(* tells what was there when it was served.                                *)
(***************************************************************************)
EXTENDS Naturals, FiniteSets

CONSTANTS
    Mounts,     \* pages that may be mounted
    MaxCalls,   \* bound, per page: changes, checks and retries the user asks for
    MaxFaults,  \* bound: calls that fail or get no answer
    OtherTabs   \* the document also changes elsewhere: a sweep, another tab

AllPages == {"sites", "dashboard", "stats", "incidents", "log", "notifications",
             "analytics", "detail", "charts", "settings", "channels"}

ASSUME PagesAssumption ==
    /\ Mounts \subseteq AllPages
    /\ \A p \in Mounts : MaxCalls[p] \in Nat
    /\ MaxFaults \in Nat
    /\ OtherTabs \in BOOLEAN

Gone    == "gone"
None    == "none"
Left    == "left"         \* the page has been left: /sites is mounted anew
Values  == {"on", "off"}
Rows    == Values \union {Gone}
Filters == {"all", "on"}

\* bound: one list request of the poll's is in flight, and one of a change's
Loads == {"poll", "change"}

\* bound: one call of each kind; "other" is a save of another preference
Kinds == {"update", "delete", "check", "other"}

VARIABLES
    world,      \* the server's document
    page,       \* the page that is mounted
    params,     \* its filter
    row,        \* its copy
    rowFor,     \* the filter the copy answers
    isLoading,
    error,
    load,       \* per list request: how far, its filter, its answer
    latest,     \* useSites: the request numbered requestId.current, None once it is over
    call,       \* per kind: how far, what it does, the document after it, what it remembers
    checking,   \* checkingId, or testingId, is the followed row
    cooling,    \* its Check Now button cools down
    deleting,   \* the delete dialog is open for it
    isDeleting,
    calls,
    faults

vars == <<world, page, params, row, rowFor, isLoading, error, load, latest, call,
          checking, cooling, deleting, isDeleting, calls, faults>>

copy   == <<row, rowFor, isLoading, error, load, latest>>
where  == <<page, params>>
button == <<checking, cooling>>
dialog == <<deleting, isDeleting>>

NoLoad == [st |-> "idle", params |-> "all", found |-> Gone]
NoCall == [st |-> "idle", do |-> None, to |-> Gone, was |-> None]

Doings == {None, "pause", "save", "create", "mark", "mark all", "prefer", "enable",
           "edit", "delete", "check", "test"}

TypeOK ==
    /\ world \in Rows
    /\ page \in AllPages \union {Left} /\ params \in Filters
    /\ row \in Rows /\ rowFor \in Filters \union {None}
    /\ isLoading \in BOOLEAN /\ error \in BOOLEAN
    /\ load \in [Loads -> [st : {"idle", "sent", "answered"}, params : Filters, found : Rows]]
    /\ latest \in Loads \union {None}
    /\ call \in [Kinds -> [st : {"idle", "sent", "answered"}, do : Doings, to : Rows,
                           was : Rows \union Filters \union {None}]]
    /\ checking \in BOOLEAN /\ cooling \in BOOLEAN
    /\ deleting \in BOOLEAN /\ isDeleting \in BOOLEAN
    /\ calls \in Nat /\ faults \in 0 .. MaxFaults

\* what is mounted
Listed   == {"sites", "dashboard"}                    \* useSites
Filtered == {"sites", "incidents", "notifications", "analytics", "charts"}
Polled   == {"sites", "dashboard", "stats", "incidents", "log", "notifications", "charts"}
Blanking == {"analytics", "charts"}                   \* loading again at every request
HasSites == Listed \union {"detail"}

-----------------------------------------------------------------------------
(* Mounting and asking.                                                    *)

\* useSites numbers its requests; the charts show their skeletons again
Ask(l, filter) ==
    /\ load[l].st = "idle"
    /\ load' = [load EXCEPT ![l] = [NoLoad EXCEPT !.st = "sent", !.params = filter]]
    /\ latest' = IF page \in Listed THEN l ELSE None
    /\ isLoading' = (isLoading \/ page \in Blanking)
    /\ UNCHANGED <<row, rowFor, error>>

\* useState, and the effect that loads
Fresh(p) ==
    /\ page = p
    /\ params = "all"
    /\ row = Gone /\ rowFor = None
    /\ isLoading = TRUE /\ error = FALSE
    /\ load = [l \in Loads |-> IF l = "change" THEN [NoLoad EXCEPT !.st = "sent"] ELSE NoLoad]
    /\ latest = IF p \in Listed THEN "change" ELSE None
    /\ call = [k \in Kinds |-> NoCall]
    /\ checking = FALSE /\ cooling = FALSE
    /\ deleting = FALSE /\ isDeleting = FALSE

Init ==
    /\ \E p \in Mounts : Fresh(p)
    /\ world \in Rows
    /\ page = "settings" => world # Gone     \* getSettings upserts
    /\ calls = 0
    /\ faults = 0

Passes(filter, d) == filter = "all" \/ d = "on"

\* The text "false" of ?unreadOnly=false coerces to true: asked for all notifications,
\* the server lists the unread ones.
Understood(filter) == IF page = "notifications" THEN "on" ELSE filter

Matching(filter, d) == IF Passes(Understood(filter), d) THEN d ELSE Gone

\* a list answers with what passes its filter (listSites, listIncidents,
\* listNotifications, ...), one document with itself or 404
ServeLoad(l) ==
    /\ load[l].st = "sent"
    /\ load' = [load EXCEPT ![l] = [@ EXCEPT !.st = "answered", !.found = Matching(load[l].params, world)]]
    /\ UNCHANGED <<world, where, row, rowFor, isLoading, error, latest, call, button, dialog,
                   calls, faults>>

Fault == faults < MaxFaults /\ faults' = faults + 1

-----------------------------------------------------------------------------
(* The answer to a load.                                                   *)

Got(l)  == load[l].st = "answered" /\ UNCHANGED faults
Lost(l) == load[l].st # "idle" /\ Fault

Take(l) == row' = load[l].found /\ rowFor' = load[l].params

Heard(l) ==
    /\ load' = [load EXCEPT ![l] = NoLoad]
    /\ UNCHANGED <<world, where, call, button, dialog, calls>>

ListLoadedUnguarded(l) ==     \* bug: an answer is taken whatever its number
    /\ page \in Listed
    /\ \/ Got(l) /\ Take(l) /\ error' = FALSE
       \/ Lost(l) /\ error' = TRUE /\ UNCHANGED <<row, rowFor>>
    /\ isLoading' = FALSE
    /\ latest' = IF latest = l THEN None ELSE latest
    /\ Heard(l)

\* useSites.load: only the latest request may speak
ListLoaded(l) ==
    /\ page \in Listed
    /\ \/ /\ latest = l
          /\ \/ Got(l) /\ Take(l) /\ error' = FALSE
             \/ Lost(l) /\ error' = TRUE /\ UNCHANGED <<row, rowFor>>
          /\ isLoading' = FALSE
          /\ latest' = None
       \/ /\ latest # l
          /\ Got(l) \/ Lost(l)
          /\ UNCHANGED <<row, rowFor, error, isLoading, latest>>
    /\ Heard(l)

\* the pages without such a guard: the last answer to arrive is what they show
Loaded(l) ==
    /\ \/ Got(l) /\ Take(l) /\ error' = FALSE
       \/ Lost(l) /\ error' = TRUE /\ UNCHANGED <<row, rowFor>>
    /\ isLoading' = FALSE
    /\ Heard(l)
    /\ UNCHANGED latest

StatsLoaded(l)         == page = "stats" /\ Loaded(l)
IncidentsLoaded(l)     == page = "incidents" /\ Loaded(l)
LogLoaded(l)           == page = "log" /\ Loaded(l)
NotificationsLoaded(l) == page = "notifications" /\ Loaded(l)
SettingsLoaded(l)      == page = "settings" /\ Loaded(l)

AnalyticsLoaded(l) == page = "analytics" /\ Loaded(l)

\* loadSite: 404 is an error like any other failure
DetailLoaded(l) ==
    /\ page = "detail"
    /\ \/ Got(l) /\ load[l].found # Gone /\ Take(l) /\ error' = FALSE
       \/ /\ \/ Got(l) /\ load[l].found = Gone
             \/ Lost(l)
          /\ error' = TRUE
          /\ UNCHANGED <<row, rowFor>>
    /\ isLoading' = FALSE
    /\ Heard(l)
    /\ UNCHANGED latest

\* loadAnalytics: a failure leaves the charts empty
ChartsLoaded(l) ==
    /\ page = "charts"
    /\ \/ Got(l) /\ Take(l)
       \/ Lost(l) /\ row' = Gone /\ rowFor' = None
    /\ isLoading' = FALSE
    /\ Heard(l)
    /\ UNCHANGED <<error, latest>>

ChannelsLoadedOnSuccess(l) ==   \* bug: isLoading is cleared with the answer, not in finally
    /\ page = "channels"
    /\ \/ Got(l) /\ Take(l) /\ isLoading' = FALSE
       \/ Lost(l) /\ UNCHANGED <<row, rowFor, isLoading>>
    /\ Heard(l)
    /\ UNCHANGED <<error, latest>>

\* ChannelList.load: a failure is a toast
ChannelsLoaded(l) ==
    /\ page = "channels"
    /\ \/ Got(l) /\ Take(l)
       \/ Lost(l) /\ UNCHANGED <<row, rowFor>>
    /\ isLoading' = FALSE
    /\ Heard(l)
    /\ UNCHANGED <<error, latest>>

Answered(l) ==
    \/ ListLoaded(l) \/ StatsLoaded(l) \/ IncidentsLoaded(l) \/ LogLoaded(l)
    \/ NotificationsLoaded(l) \/ SettingsLoaded(l) \/ AnalyticsLoaded(l)
    \/ DetailLoaded(l) \/ ChartsLoaded(l) \/ ChannelsLoaded(l)

-----------------------------------------------------------------------------
(* What is shown: "skeleton", "error" with a way to try again, "dead end"  *)
(* without one, "empty", or "rows".                                        *)

SitesShown ==
    IF isLoading THEN "skeleton"
    ELSE IF error THEN "error"
    ELSE IF row = Gone THEN "empty" ELSE "rows"

\* hasNoSites is asked before the error
DashboardShown ==
    IF ~isLoading /\ row = Gone THEN "empty"
    ELSE IF isLoading THEN "skeleton"
    ELSE IF error THEN "error" ELSE "rows"

StatsShown == IF error THEN "error" ELSE IF isLoading THEN "skeleton" ELSE "rows"

IncidentsShown     == SitesShown
LogShown           == SitesShown
NotificationsShown == SitesShown

AnalyticsShown ==
    IF error THEN "error"
    ELSE IF isLoading THEN "skeleton"
    ELSE IF row = Gone THEN "empty" ELSE "rows"

DetailShown ==
    IF error THEN "dead end"
    ELSE IF isLoading \/ row = Gone THEN "skeleton" ELSE "rows"

ChartsShown ==
    IF isLoading THEN "skeleton" ELSE IF row = Gone THEN "empty" ELSE "rows"

SettingsShown ==
    IF error THEN "error"
    ELSE IF isLoading \/ row = Gone THEN "skeleton" ELSE "rows"

ChannelsShown == ChartsShown

Shown ==
    CASE page = "sites"         -> SitesShown
      [] page = "dashboard"     -> DashboardShown
      [] page = "stats"         -> StatsShown
      [] page = "incidents"     -> IncidentsShown
      [] page = "log"           -> LogShown
      [] page = "notifications" -> NotificationsShown
      [] page = "analytics"     -> AnalyticsShown
      [] page = "detail"        -> DetailShown
      [] page = "charts"        -> ChartsShown
      [] page = "settings"      -> SettingsShown
      [] page = "channels"      -> ChannelsShown
      [] page = Left            -> "empty"

-----------------------------------------------------------------------------
(* Loading again.                                                          *)

PollListsOnly ==              \* bug: the poll is left out where useSites is not used
    /\ page \in Listed
    /\ Ask("poll", params)
    /\ UNCHANGED <<world, where, call, button, dialog, calls, faults>>

\* usePolling: 30 seconds apart, and a request is over after 20; the site's page
\* polls only while it shows a site
Poll ==
    /\ \/ page \in Polled
       \/ page = "detail" /\ ~isLoading /\ ~error
    /\ Ask("poll", params)
    /\ UNCHANGED <<world, where, call, button, dialog, calls, faults>>

Asking == page \in Mounts /\ calls < MaxCalls[page] /\ calls' = calls + 1

\* ErrorState's button
Retry ==
    /\ Shown = "error"
    /\ Asking
    /\ Ask("change", params)
    /\ UNCHANGED <<world, where, call, button, dialog, faults>>

\* A filter or a range is chosen, 300 ms after the last key for the search field:
\* the effect loads again.
Choose(f) ==
    /\ page \in Filtered
    /\ f # params
    /\ params' = f
    /\ Ask("change", f)
    /\ UNCHANGED <<world, page, call, button, dialog, calls, faults>>

-----------------------------------------------------------------------------
(* Changing the document.                                                  *)

Send(k, do, to, was) ==
    /\ call[k].st = "idle"
    /\ Asking
    /\ call' = [call EXCEPT ![k] = [st |-> "sent", do |-> do, to |-> to, was |-> was]]
    /\ UNCHANGED <<world, where, faults>>

Unclear == Shown = "rows" /\ row # Gone /\ ~deleting

Flipped(d) == IF d = "on" THEN "off" ELSE "on"

\* handleTogglePause, from the row as it is shown
TogglePause ==
    /\ page \in HasSites
    /\ Unclear
    /\ Send("update", "pause", Flipped(row), None)
    /\ UNCHANGED <<copy, button, dialog>>

\* handleSubmit of the edit form sends every field; the form for a new site
SaveForm ==
    /\ ~deleting
    /\ \E d \in Values :
          \/ page \in HasSites /\ Unclear /\ Send("update", "save", d, None)
          \/ page \in Listed /\ world = Gone /\ Send("update", "create", d, None)
    /\ UNCHANGED <<copy, button, dialog>>

\* the dialog: Escape and the overlay close it, a delete under way or not
OpenDelete ==
    /\ page \in HasSites
    /\ Unclear
    /\ deleting' = TRUE
    /\ UNCHANGED <<world, where, copy, call, button, isDeleting, calls, faults>>

CloseDelete ==
    /\ deleting
    /\ deleting' = FALSE
    /\ UNCHANGED <<world, where, copy, call, button, isDeleting, calls, faults>>

Delete ==
    /\ deleting
    /\ ~isDeleting
    /\ isDeleting' = TRUE
    /\ Send("delete", "delete", Gone, None)
    /\ UNCHANGED <<copy, button, deleting>>

\* checkNow: the button is disabled while its site is checked, and cools down after
CheckNow ==
    /\ page \in HasSites
    /\ Unclear
    /\ ~checking /\ ~cooling
    /\ Send("check", "check", Gone, None)
    /\ checking' = TRUE
    /\ UNCHANGED <<copy, cooling, dialog>>

\* a check of another row takes checkingId, or its end clears it
CheckAnother ==
    /\ page \in Listed
    /\ checking
    /\ checking' = FALSE
    /\ UNCHANGED <<world, where, copy, call, cooling, dialog, calls, faults>>

CoolDown ==
    /\ cooling
    /\ cooling' = FALSE
    /\ UNCHANGED <<world, where, copy, call, checking, dialog, calls, faults>>

\* the page changes before the server has
Optimistic(d) == row' = d /\ UNCHANGED <<rowFor, isLoading, error, load, latest>>

\* handleMarkRead and handleMarkAllRead remember whether only unread were listed
MarkRead ==
    /\ page = "notifications"
    /\ Unclear
    /\ row = "on"
    /\ Send("update", "mark", "off", params)
    /\ Optimistic("off")
    /\ UNCHANGED <<button, dialog>>

MarkAllRead ==
    /\ page = "notifications"
    /\ Send("update", "mark all", "off", params)
    /\ UNCHANGED <<copy, button, dialog>>

\* save, of this preference or of another, remembers the settings as they were
Prefer ==
    /\ page = "settings"
    /\ Unclear
    /\ Send("update", "prefer", Flipped(row), row)
    /\ Optimistic(Flipped(row))
    /\ UNCHANGED <<button, dialog>>

PreferOther ==
    /\ page = "settings"
    /\ Unclear
    /\ Send("other", "prefer", Gone, row)
    /\ UNCHANGED <<copy, button, dialog>>

\* handleToggle, handleTest and handleDelete of the channels, and their form
ToggleChannel ==
    /\ page = "channels"
    /\ Unclear
    /\ Send("update", "enable", Flipped(row), None)
    /\ Optimistic(Flipped(row))
    /\ UNCHANGED <<button, dialog>>

TestChannel ==
    /\ page = "channels"
    /\ Unclear
    /\ ~checking
    /\ checking' = TRUE
    /\ Send("check", "test", Gone, None)
    /\ UNCHANGED <<copy, cooling, dialog>>

EditChannel ==
    /\ page = "channels"
    /\ \/ Unclear /\ Send("update", "edit", row, None)
       \/ Shown # "skeleton" /\ world = Gone /\ Send("update", "create", "on", None)
    /\ UNCHANGED <<copy, button, dialog>>

DeleteChannel ==
    /\ page = "channels"
    /\ Unclear
    /\ Send("delete", "delete", Gone, None)
    /\ UNCHANGED <<copy, button, dialog>>

-----------------------------------------------------------------------------
(* The server.  An answer carries the document as it is after the call;    *)
(* Gone stands for 404.                                                    *)

Sent(k, do) == call[k].st = "sent" /\ call[k].do \in do

Serve(k, becomes, said) ==
    /\ world' = becomes
    /\ call' = [call EXCEPT ![k] = [@ EXCEPT !.st = "answered", !.to = said]]
    /\ UNCHANGED <<where, copy, button, dialog, calls, faults>>

\* findOne and save, findOneAndUpdate: nothing is created
ServeUpdate ==
    /\ Sent("update", {"pause", "save", "mark", "mark all", "prefer", "enable"})
    /\ LET now == IF world = Gone THEN Gone ELSE call["update"].to
       IN  Serve("update", now, now)

\* a channel's name and target do not concern whether it is enabled
ServeEdit   == Sent("update", {"edit"}) /\ Serve("update", world, world)
ServeCreate == Sent("update", {"create"}) /\ Serve("update", call["update"].to, call["update"].to)
ServeDelete == Sent("delete", {"delete"}) /\ Serve("delete", Gone, world)
ServeOther  == Sent("other", {"prefer"}) /\ Serve("other", world, world)

\* a check, or a failed test, may move the document
ServeCheck ==
    /\ Sent("check", {"check", "test"})
    /\ \E d \in Values : LET now == IF world = Gone THEN Gone ELSE d IN Serve("check", now, now)

ServeCall ==
    ServeUpdate \/ ServeEdit \/ ServeCreate \/ ServeDelete \/ ServeOther \/ ServeCheck

\* sweeps, other tabs, other users' notifications
Elsewhere ==
    /\ OtherTabs
    /\ ~Sent("update", {"create"})
    /\ \E d \in Rows \ {world} :
          /\ page = "settings" => d # Gone
          /\ world' = d
    /\ UNCHANGED <<where, copy, call, button, dialog, calls, faults>>

-----------------------------------------------------------------------------
(* The answers.                                                            *)

Succeeded(k, do) ==
    /\ call[k].st = "answered"
    /\ call[k].do \in do
    /\ call[k].to # Gone \/ call[k].do = "mark all"
    /\ call' = [call EXCEPT ![k] = NoCall]
    /\ UNCHANGED faults

Failed(k, do) ==
    /\ call[k].do \in do
    /\ \/ /\ call[k].st = "answered"
          /\ call[k].to = Gone
          /\ call[k].do # "mark all"
          /\ UNCHANGED faults
       \/ call[k].st # "idle" /\ Fault
    /\ call' = [call EXCEPT ![k] = NoCall]

Keeping == UNCHANGED <<rowFor, isLoading, error, load, latest>>

\* setSites(map), or setSite on the page of one site
ReplaceSite(d) ==
    row' = IF row = Gone /\ page # "detail" THEN Gone ELSE d

Toggled ==
    /\ \/ Succeeded("update", {"pause"}) /\ ReplaceSite(call["update"].to)
       \/ Failed("update", {"pause"}) /\ UNCHANGED row
    /\ Keeping
    /\ UNCHANGED <<world, where, button, dialog, calls>>

\* onSaved; the dashboard refreshes after an edit too
Saved ==
    /\ page \in HasSites
    /\ \/ /\ Succeeded("update", {"save"})
          /\ ReplaceSite(call["update"].to)
          /\ UNCHANGED <<rowFor, error>>
          /\ IF page = "dashboard"
             THEN /\ load["change"].st = "idle"
                  /\ load' = [load EXCEPT !["change"] = [NoLoad EXCEPT !.st = "sent"]]
                  /\ latest' = "change"
                  /\ UNCHANGED isLoading
             ELSE UNCHANGED <<load, latest, isLoading>>
       \/ Succeeded("update", {"create"}) /\ Ask("change", params)
       \/ Failed("update", {"save", "create"}) /\ UNCHANGED copy
    /\ UNCHANGED <<world, where, button, dialog, calls>>

\* handleDelete: onDeleted removes the row, or leaves the site's page for the list;
\* onClose closes the dialog
Deleted ==
    /\ page \in HasSites
    /\ \/ /\ page = "detail"
          /\ Succeeded("delete", {"delete"})
          /\ page' = Left
          /\ UNCHANGED <<world, params, copy, button, dialog, calls>>
       \/ /\ page # "detail"
          /\ Succeeded("delete", {"delete"})
          /\ row' = Gone
          /\ deleting' = FALSE
          /\ isDeleting' = FALSE
          /\ Keeping
          /\ UNCHANGED <<world, where, button, calls>>
       \/ /\ Failed("delete", {"delete"})
          /\ isDeleting' = FALSE
          /\ UNCHANGED <<world, where, copy, button, deleting, calls>>

CheckedOnSuccess ==      \* bug: the button is released where the row is replaced
    /\ \/ /\ Succeeded("check", {"check"})
          /\ ReplaceSite(call["check"].to)
          /\ cooling' = TRUE
          /\ checking' = FALSE
       \/ Failed("check", {"check"}) /\ UNCHANGED <<row, cooling, checking>>
    /\ Keeping
    /\ UNCHANGED <<world, where, dialog, calls>>

\* checkNow: finally clears checkingId, whoever is being checked by then
Checked ==
    /\ \/ /\ Succeeded("check", {"check"})
          /\ ReplaceSite(call["check"].to)
          /\ cooling' = TRUE
       \/ Failed("check", {"check"}) /\ UNCHANGED <<row, cooling>>
    /\ checking' = FALSE
    /\ Keeping
    /\ UNCHANGED <<world, where, dialog, calls>>

\* only a list of unread ones is loaded again, with the filter of the click
Marked ==
    /\ page = "notifications"
    /\ LET was == call["update"].was
       IN  \/ Succeeded("update", {"mark"}) /\ was = "all" /\ UNCHANGED copy
           \/ Succeeded("update", {"mark"}) /\ was = "on" /\ Ask("change", was)
           \/ Failed("update", {"mark"}) /\ Ask("change", was)
    /\ UNCHANGED <<world, where, button, dialog, calls>>

MarkedAll ==
    /\ page = "notifications"
    /\ \/ /\ Succeeded("update", {"mark all"})
          /\ row' = IF row = Gone THEN Gone ELSE "off"
          /\ UNCHANGED <<rowFor, error, isLoading, latest>>
          /\ IF call["update"].was = "on"
             THEN /\ load["change"].st = "idle"
                  /\ load' = [load EXCEPT !["change"] =
                                 [NoLoad EXCEPT !.st = "sent", !.params = "on"]]
             ELSE UNCHANGED load
       \/ Failed("update", {"mark all"}) /\ UNCHANGED copy
    /\ UNCHANGED <<world, where, button, dialog, calls>>

\* save: the whole of the answer, or the whole of what was before
Preferred(k) ==
    /\ \/ Succeeded(k, {"prefer"}) /\ row' = call[k].to
       \/ Failed(k, {"prefer"}) /\ row' = call[k].was
    /\ Keeping
    /\ UNCHANGED <<world, where, button, dialog, calls>>

ChannelChanged ==
    /\ page = "channels"
    /\ \/ Succeeded("update", {"enable"}) /\ UNCHANGED copy
       \/ Failed("update", {"enable"}) /\ Ask("change", params)
       \/ Succeeded("update", {"edit", "create"}) /\ Ask("change", params)
       \/ Failed("update", {"edit", "create"}) /\ UNCHANGED copy
    /\ UNCHANGED <<world, where, button, dialog, calls>>

\* whatever came of the test, the list is loaded again for lastError
ChannelTested ==
    /\ Succeeded("check", {"test"}) \/ Failed("check", {"test"})
    /\ checking' = FALSE
    /\ Ask("change", params)
    /\ UNCHANGED <<world, where, cooling, dialog, calls>>

ChannelDeleted ==
    /\ page = "channels"
    /\ \/ Succeeded("delete", {"delete"}) /\ row' = Gone
       \/ Failed("delete", {"delete"}) /\ UNCHANGED row
    /\ Keeping
    /\ UNCHANGED <<world, where, button, dialog, calls>>

CallAnswered ==
    \/ Toggled \/ Saved \/ Deleted \/ Checked \/ Marked \/ MarkedAll
    \/ Preferred("update") \/ Preferred("other")
    \/ ChannelChanged \/ ChannelTested \/ ChannelDeleted

Next ==
    \/ \E l \in Loads : ServeLoad(l) \/ Answered(l)
    \/ Poll \/ Retry
    \/ \E f \in Filters : Choose(f)
    \/ TogglePause \/ SaveForm \/ OpenDelete \/ CloseDelete \/ Delete
    \/ CheckNow \/ CheckAnother \/ CoolDown
    \/ MarkRead \/ MarkAllRead \/ Prefer \/ PreferOther
    \/ ToggleChannel \/ TestChannel \/ EditChannel \/ DeleteChannel
    \/ ServeCall \/ Elsewhere \/ CallAnswered

Spec == Init /\ [][Next]_vars

\* timers fire, the server answers, the browser hands the answers over
FairSpec ==
    /\ Spec
    /\ \A l \in Loads : WF_vars(ServeLoad(l)) /\ WF_vars(Answered(l))
    /\ WF_vars(Poll) /\ WF_vars(CoolDown)
    /\ WF_vars(ServeCall) /\ WF_vars(CallAnswered)

-----------------------------------------------------------------------------

\* "A slow request for "rec" must not overwrite the newer results for "recallix""
\* (useSites.ts:41-43): when no list is awaited, the rows answer the filter in force.
RowsAnswerTheFilter ==
    page \in Listed /\ latest = None => ~isLoading /\ (error \/ rowFor = params)

\* A skeleton has a request behind it, on every page, however requests overlap
\* (the finally blocks: useSites.ts:64-70, AnalyticsPage.tsx:40-42, ...).
SkeletonIsBacked == isLoading => \E l \in Loads : load[l].st # "idle"

\* what these rest on: the latest request is out, with the filter in force, and a
\* change in flight remembers what its answer needs
LatestIsOut ==
    /\ latest # None => page \in Listed /\ load[latest].st # "idle" /\ load[latest].params = params
    /\ page = "dashboard" => params = "all"

Remembers ==
    \A k \in Kinds : /\ call[k].do \in {"mark", "mark all"} => call[k].was \in Filters
                     /\ call[k].do = "prefer" => call[k].was \in Rows

PagesInv == TypeOK /\ RowsAnswerTheFilter /\ SkeletonIsBacked /\ LatestIsOut /\ Remembers

\* A document left alone is shown as it is in the end, on every page that polls: late
\* lists that bring a deleted row back or answer an older filter, answers to checks
\* and edits that overtake one another, and failures are all repaired
\* (useSites.ts:77-88, NotificationsPage.tsx:52-81, IncidentsPage.tsx:50).
PolledPageCatchesUp ==
    \A d \in Rows, f \in Filters :
        <>[](page \in Polled /\ world = d /\ params = f)
            => <>[](/\ rowFor = f
                    /\ row = Matching(f, d)
                    /\ ~error
                    /\ page \in Blanking \/ ~isLoading)

\* A Check Now or Test button does not stay disabled, whatever comes of the check and
\* of the other rows' checks (useCheckNow.ts:64-85, ChannelList.tsx:71-74).
ButtonComesBack == (checking \/ cooling) ~> ~(checking \/ cooling)

\* No page keeps its skeleton once its user has settled on a filter, however its
\* requests overtake one another or fail (AnalyticsPage.tsx:33-43, SiteDetailPage.tsx:54-85).
SkeletonGoes ==
    \A f \in Filters : <>[](params = f) => []<>(Shown # "skeleton")

=============================================================================
