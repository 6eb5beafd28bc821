----------------------------- MODULE Pages_proofs -----------------------------
(***************************************************************************)
(* PagesInv is inductive for any set of pages, any number of calls, and    *)
(* faults.  The copy of a page changes in three ways only: a request goes  *)
(* out, its answer comes in, or the row alone changes.                     *)
(***************************************************************************)
EXTENDS Pages, TLAPS

LoadT == [st : {"idle", "sent", "answered"}, params : Filters, found : Rows]
CallT == [st : {"idle", "sent", "answered"}, do : Doings, to : Rows,
          was : Rows \union Filters \union {None}]

WhereT == world \in Rows /\ page \in AllPages \union {Left} /\ params \in Filters

CopyT ==
    /\ row \in Rows /\ rowFor \in Filters \union {None}
    /\ isLoading \in BOOLEAN /\ error \in BOOLEAN
    /\ load \in [Loads -> LoadT]
    /\ latest \in Loads \union {None}

InFlightT == call \in [Kinds -> CallT] /\ calls \in Nat /\ faults \in 0 .. MaxFaults

FlagsT ==
    checking \in BOOLEAN /\ cooling \in BOOLEAN /\ deleting \in BOOLEAN /\ isDeleting \in BOOLEAN

CopyInv == RowsAnswerTheFilter /\ SkeletonIsBacked /\ LatestIsOut

LEMMA Parts ==
    PagesInv <=> WhereT /\ CopyT /\ InFlightT /\ FlagsT /\ CopyInv /\ Remembers
BY DEF PagesInv, TypeOK, WhereT, CopyT, InFlightT, FlagsT, CopyInv, LoadT, CallT

LEMMA InitInv == Init => PagesInv
<1> SUFFICES ASSUME Init PROVE PagesInv
    OBVIOUS
<1>1. PICK p \in Mounts : Fresh(p)
    BY DEF Init
<1>2. p \in AllPages /\ MaxFaults \in Nat
    BY PagesAssumption
<1>3. /\ load \in [Loads -> LoadT]
      /\ load["change"].st = "sent" /\ load["change"].params = "all"
    BY <1>1 DEF Fresh, Loads, LoadT, NoLoad, Filters, Rows, Values
<1>4. WhereT
    BY <1>1, <1>2 DEF Init, Fresh, WhereT, Filters
<1>5. CopyT
    BY <1>1, <1>3 DEF Fresh, CopyT, Loads, Rows
<1>6. calls \in Nat /\ faults \in 0 .. MaxFaults
    BY <1>2, SMT DEF Init
<1>7. InFlightT
    BY <1>1, <1>6 DEF Fresh, InFlightT, NoCall, CallT, Kinds, Doings, Rows
<1>8. FlagsT
    BY <1>1 DEF Fresh, FlagsT
<1>9. CopyInv
    BY <1>1, <1>3
       DEF Fresh, CopyInv, RowsAnswerTheFilter, SkeletonIsBacked, LatestIsOut, Loads, Listed, None
<1>10. Remembers
    BY <1>1 DEF Fresh, Remembers, NoCall, None
<1>11. QED
    BY <1>4, <1>5, <1>7, <1>8, <1>9, <1>10, Parts

-----------------------------------------------------------------------------
(* The copy.                                                               *)

Same == rowFor' = rowFor /\ isLoading' = isLoading /\ error' = error /\ load' = load /\ latest' = latest

\* The row alone changes, or the page of a deleted site is left.
LEMMA RowAlone ==
    ASSUME CopyT, CopyInv, Same, row' \in Rows, params' = params,
           page' = page \/ (page = "detail" /\ page' = Left)
    PROVE  CopyT' /\ CopyInv'
<1>1. CopyT'
    BY DEF CopyT, Same
<1>2. page' # page => page \notin Listed /\ page' \notin Listed /\ page' # "dashboard"
    BY DEF Listed, Left
<1>3. RowsAnswerTheFilter'
    BY <1>2 DEF CopyInv, RowsAnswerTheFilter, Same
<1>4. SkeletonIsBacked'
    BY DEF CopyInv, SkeletonIsBacked, Same
<1>5. LatestIsOut'
    BY <1>2 DEF CopyInv, LatestIsOut, Same
<1>6. QED
    BY <1>1, <1>3, <1>4, <1>5 DEF CopyInv

\* A request that goes out is the latest, where requests are numbered.
LEMMA RequestOut ==
    ASSUME CopyT, CopyInv, NEW l \in Loads, NEW new \in LoadT, new.st = "sent",
           page \in Listed => new.params = params',
           load' = [load EXCEPT ![l] = new],
           latest' = IF page \in Listed THEN l ELSE None,
           isLoading' \in BOOLEAN, row' \in Rows, rowFor' = rowFor, error' = error,
           page' = page, page = "dashboard" => params' = params
    PROVE  CopyT' /\ CopyInv'
<1>1. load' \in [Loads -> LoadT] /\ load'[l] = new
    BY DEF CopyT
<1>2. CopyT'
    BY <1>1 DEF CopyT
<1>3. l # None
    BY DEF Loads, None
<1>4. LatestIsOut'
    BY <1>1 DEF CopyInv, LatestIsOut
<1>5. RowsAnswerTheFilter'
    BY <1>3 DEF RowsAnswerTheFilter
<1>6. SkeletonIsBacked'
    BY <1>1 DEF SkeletonIsBacked
<1>7. QED
    BY <1>2, <1>4, <1>5, <1>6 DEF CopyInv

LEMMA NewLoad ==
    ASSUME NEW f \in Filters
    PROVE  LET new == [NoLoad EXCEPT !.st = "sent", !.params = f]
           IN  new \in LoadT /\ new.st = "sent" /\ new.params = f
BY DEF NoLoad, LoadT, Rows

LEMMA AskKeeps ==
    ASSUME CopyT, CopyInv, NEW l \in Loads, NEW f \in Filters, Ask(l, f),
           page' = page, page \in Listed => f = params', page = "dashboard" => params' = params
    PROVE  CopyT' /\ CopyInv'
<1> DEFINE new == [NoLoad EXCEPT !.st = "sent", !.params = f]
<1>1. new \in LoadT /\ new.st = "sent" /\ new.params = f
    BY NewLoad
<1>2. /\ load' = [load EXCEPT ![l] = new]
      /\ latest' = IF page \in Listed THEN l ELSE None
      /\ row' = row /\ rowFor' = rowFor /\ error' = error
    BY DEF Ask
<1>3. isLoading' \in BOOLEAN
    <2>1. isLoading' = (isLoading \/ page \in Blanking)
        BY DEF Ask
    <2>2. (isLoading \/ page \in Blanking) \in BOOLEAN
        OBVIOUS
    <2>3. QED
        BY <2>1, <2>2, Zenon
<1>4. row' \in Rows
    BY <1>2 DEF CopyT
<1> HIDE DEF new
<1>5. QED
    BY <1>1, <1>2, <1>3, <1>4, RequestOut

LEMMA ServeLoadKeeps ==
    ASSUME WhereT, CopyT, CopyInv, NEW l \in Loads, ServeLoad(l)
    PROVE  CopyT' /\ CopyInv'
<1> DEFINE found == Matching(load[l].params, world)
<1>1. found \in Rows
    BY DEF WhereT, Matching, Rows
<1>2. load[l] \in LoadT /\ load[l].st = "sent"
    BY DEF CopyT, ServeLoad
<1>3. load' = [load EXCEPT ![l] = [load[l] EXCEPT !.st = "answered", !.found = found]]
    BY DEF ServeLoad
<1> HIDE DEF found
<1> DEFINE new == [load[l] EXCEPT !.st = "answered", !.found = found]
<1>4. new \in LoadT /\ new.st = "answered" /\ new.params = load[l].params
    BY <1>1, <1>2 DEF LoadT
<1>5. load' = [load EXCEPT ![l] = new]
    BY <1>3
<1> HIDE DEF new
<1>6. /\ load' \in [Loads -> LoadT]
      /\ \A m \in Loads : /\ load'[m].params = load[m].params
                          /\ load[m].st # "idle" => load'[m].st # "idle"
    BY <1>4, <1>5 DEF CopyT
<1>7. UNCHANGED <<page, params, row, rowFor, isLoading, error, latest>>
    BY DEF ServeLoad, where
<1>8. CopyT'
    BY <1>6, <1>7 DEF CopyT
<1>9. RowsAnswerTheFilter'
    BY <1>7 DEF CopyInv, RowsAnswerTheFilter
<1>10. SkeletonIsBacked'
    BY <1>6, <1>7 DEF CopyInv, SkeletonIsBacked
<1>11. LatestIsOut'
    BY <1>6, <1>7 DEF CopyInv, LatestIsOut, CopyT
<1>12. QED
    BY <1>8, <1>9, <1>10, <1>11 DEF CopyInv

LEMMA FaultKeeps ==
    ASSUME faults \in 0 .. MaxFaults, Fault \/ faults' = faults
    PROVE  faults' \in 0 .. MaxFaults
<1>1. MaxFaults \in Nat
    BY PagesAssumption
<1>2. QED
    BY <1>1, SMT DEF Fault

\* An answer that is taken, given up, or passed over ends its request.
LEMMA HeardKeeps ==
    ASSUME CopyT, NEW l \in Loads, Heard(l)
    PROVE  /\ load' \in [Loads -> LoadT]
           /\ \A m \in Loads : m # l => load'[m] = load[m]
           /\ UNCHANGED <<world, page, params, call, checking, cooling, deleting, isDeleting, calls>>
BY DEF CopyT, Heard, NoLoad, LoadT, Filters, Rows, where, button, dialog

LEMMA ListLoadedKeeps ==
    ASSUME WhereT, CopyT, CopyInv, NEW l \in Loads, ListLoaded(l)
    PROVE  CopyT' /\ CopyInv'
<1>1. /\ load' \in [Loads -> LoadT]
      /\ \A m \in Loads : m # l => load'[m] = load[m]
      /\ page' = page /\ params' = params /\ page \in Listed
    BY HeardKeeps DEF ListLoaded
<1>2. load[l].params \in Filters /\ load[l].found \in Rows
    BY DEF CopyT, LoadT
<1>3. CASE latest = l
    <2>0. l # None
        BY DEF Loads, None
    <2>1. /\ isLoading' = FALSE /\ latest' = None
          /\ \/ Take(l) /\ error' = FALSE
             \/ error' = TRUE /\ UNCHANGED <<row, rowFor>>
        BY <1>3 DEF ListLoaded
    <2>2. error' \in BOOLEAN
        BY <2>1
    <2>3. row' \in Rows /\ rowFor' \in Filters \union {None}
        BY <2>1, <1>2 DEF Take, CopyT
    <2>4. CopyT'
        BY <1>1, <2>1, <2>2, <2>3 DEF CopyT
    <2>5. load[l].params = params
        BY <1>3, <2>0 DEF CopyInv, LatestIsOut
    <2>6. RowsAnswerTheFilter'
        BY <1>1, <2>1, <2>5 DEF RowsAnswerTheFilter, Take
    <2>7. SkeletonIsBacked'
        BY <2>1 DEF SkeletonIsBacked
    <2>8. LatestIsOut'
        BY <1>1, <2>1 DEF CopyInv, LatestIsOut
    <2>9. QED
        BY <2>4, <2>6, <2>7, <2>8 DEF CopyInv
<1>4. CASE latest # l
    <2>1. UNCHANGED <<row, rowFor, error, isLoading, latest>>
        BY <1>4 DEF ListLoaded
    <2>2. CopyT'
        BY <1>1, <2>1 DEF CopyT
    <2>3. RowsAnswerTheFilter'
        BY <1>1, <2>1 DEF CopyInv, RowsAnswerTheFilter
    <2>4. LatestIsOut'
        BY <1>1, <1>4, <2>1 DEF CopyInv, CopyT, LatestIsOut
    <2>5. SkeletonIsBacked'
        <3>1. CASE latest = None
            BY <1>1, <2>1, <3>1 DEF CopyInv, RowsAnswerTheFilter, SkeletonIsBacked
        <3>2. CASE latest # None
            BY <1>1, <1>4, <2>1, <3>2 DEF CopyInv, CopyT, LatestIsOut, SkeletonIsBacked
        <3>3. QED
            BY <3>1, <3>2
    <2>6. QED
        BY <2>2, <2>3, <2>4, <2>5 DEF CopyInv
<1>5. QED
    BY <1>3, <1>4

\* Elsewhere the skeleton ends with any answer, and no rows are promised.
LEMMA AnswerKeeps ==
    ASSUME WhereT, CopyT, CopyInv, NEW l \in Loads, Heard(l), page \notin Listed,
           isLoading' = FALSE, latest' = latest, row' \in Rows,
           rowFor' \in Filters \union {None}, error' \in BOOLEAN
    PROVE  CopyT' /\ CopyInv'
<1>1. load' \in [Loads -> LoadT] /\ page' = page /\ params' = params
    BY HeardKeeps
<1>2. CopyT'
    BY <1>1 DEF CopyT
<1>3. RowsAnswerTheFilter' /\ SkeletonIsBacked'
    BY <1>1 DEF RowsAnswerTheFilter, SkeletonIsBacked
<1>4. LatestIsOut'
    BY <1>1 DEF CopyInv, LatestIsOut, Listed
<1>5. QED
    BY <1>2, <1>3, <1>4 DEF CopyInv

LEMMA AnsweredKeeps ==
    ASSUME WhereT, CopyT, CopyInv, NEW l \in Loads, Answered(l)
    PROVE  CopyT' /\ CopyInv'
<1>1. load[l].params \in Filters /\ load[l].found \in Rows /\ Gone \in Rows
    BY DEF CopyT, LoadT, Rows
<1>2. CASE Loaded(l) /\ page \notin Listed
    <2>1. row' \in Rows /\ rowFor' \in Filters \union {None}
        BY <1>1, <1>2 DEF Loaded, Take, CopyT
    <2>2. error' \in BOOLEAN
        BY <1>2 DEF Loaded
    <2>3. QED
        BY <1>2, <2>1, <2>2, AnswerKeeps DEF Loaded
<1>3. CASE DetailLoaded(l)
    <2>1. row' \in Rows /\ rowFor' \in Filters \union {None}
        BY <1>1, <1>3 DEF DetailLoaded, Take, CopyT
    <2>2. error' \in BOOLEAN
        BY <1>3 DEF DetailLoaded
    <2>3. QED
        BY <1>3, <2>1, <2>2, AnswerKeeps DEF DetailLoaded, Listed
<1>4. CASE ChartsLoaded(l) \/ ChannelsLoaded(l)
    <2>1. row' \in Rows /\ rowFor' \in Filters \union {None}
        BY <1>1, <1>4 DEF ChartsLoaded, ChannelsLoaded, Take, CopyT
    <2>2. error' = error
        BY <1>4 DEF ChartsLoaded, ChannelsLoaded
    <2>3. error' \in BOOLEAN
        BY <2>2 DEF CopyT
    <2>4. QED
        BY <1>4, <2>1, <2>3, AnswerKeeps DEF ChartsLoaded, ChannelsLoaded, Listed
<1>5. CASE ListLoaded(l)
    BY <1>5, ListLoadedKeeps
<1>6. QED
    BY <1>2, <1>3, <1>4, <1>5
       DEF Answered, StatsLoaded, IncidentsLoaded, LogLoaded, NotificationsLoaded,
           SettingsLoaded, AnalyticsLoaded, Listed

-----------------------------------------------------------------------------
(* Calls in flight.                                                        *)

\* One more call is still a number of calls.
LEMMA OneMore ==
    ASSUME NEW n \in Nat
    PROVE  n + 1 \in Nat
OBVIOUS

\* A request that changes the document goes out with what its rollback needs.
LEMMA SendKeeps ==
    ASSUME InFlightT, Remembers, NEW k \in Kinds, NEW do \in Doings, NEW to \in Rows,
           NEW was \in Rows \union Filters \union {None}, Send(k, do, to, was),
           do \in {"mark", "mark all"} => was \in Filters,
           do = "prefer" => was \in Rows
    PROVE  InFlightT' /\ Remembers' /\ UNCHANGED <<world, page, params>>
<1>1. /\ call' = [call EXCEPT ![k] = [st |-> "sent", do |-> do, to |-> to, was |-> was]]
      /\ UNCHANGED <<world, page, params, faults>>
      /\ calls' = calls + 1
    BY DEF Send, Asking, where
<1>2. /\ call' \in [Kinds -> CallT]
      /\ \A j \in Kinds : j # k => call'[j] = call[j]
      /\ call'[k].do = do /\ call'[k].was = was
    BY <1>1 DEF InFlightT, CallT
<1>3. calls' \in Nat
    <2>1. calls \in Nat
        BY DEF InFlightT
    <2>2. calls + 1 \in Nat
        BY <2>1, OneMore
    <2>3. QED
        BY <1>1, <2>2, Zenon
<1>4. InFlightT'
    BY <1>1, <1>2, <1>3 DEF InFlightT
<1>5. Remembers'
    BY <1>2 DEF Remembers
<1>6. QED
    BY <1>1, <1>4, <1>5

LEMMA ServeKeeps ==
    ASSUME InFlightT, Remembers, NEW k \in Kinds, NEW becomes \in Rows, NEW said \in Rows,
           Serve(k, becomes, said)
    PROVE  InFlightT' /\ Remembers'
<1>1. call[k] \in CallT
    BY DEF InFlightT
<1>2. call' = [call EXCEPT ![k] = [call[k] EXCEPT !.st = "answered", !.to = said]]
    BY DEF Serve
<1> DEFINE new == [call[k] EXCEPT !.st = "answered", !.to = said]
<1>3. new \in CallT /\ new.do = call[k].do /\ new.was = call[k].was
    BY <1>1 DEF CallT
<1>4. call' = [call EXCEPT ![k] = new]
    BY <1>2
<1> HIDE DEF new
<1>5. /\ call' \in [Kinds -> CallT]
      /\ \A j \in Kinds : call'[j].do = call[j].do /\ call'[j].was = call[j].was
    BY <1>3, <1>4 DEF InFlightT
<1>6. UNCHANGED <<calls, faults>>
    BY DEF Serve
<1>7. QED
    BY <1>5, <1>6 DEF InFlightT, Remembers

LEMMA DoneKeeps ==
    ASSUME InFlightT, Remembers, NEW k \in Kinds, NEW do \in SUBSET Doings,
           Succeeded(k, do) \/ Failed(k, do), calls' = calls
    PROVE  InFlightT' /\ Remembers' /\ call[k] \in CallT /\ call[k].do \in do
<1>1. call' = [call EXCEPT ![k] = NoCall] /\ call[k].do \in do
    BY DEF Succeeded, Failed
<1>2. NoCall \in CallT
    BY DEF NoCall, CallT, Rows, Doings
<1>3. /\ call' \in [Kinds -> CallT]
      /\ \A j \in Kinds : call'[j] = call[j] \/ call'[j] = NoCall
    BY <1>1, <1>2 DEF InFlightT
<1>4. faults' \in 0 .. MaxFaults
    BY FaultKeeps DEF Succeeded, Failed, InFlightT
<1>5. InFlightT'
    BY <1>3, <1>4 DEF InFlightT
<1>6. NoCall.do = "none"
    BY DEF NoCall, None
<1>7. Remembers'
    BY <1>3, <1>6 DEF Remembers
<1>8. QED
    BY <1>1, <1>5, <1>7 DEF InFlightT

-----------------------------------------------------------------------------
(* The actions.                                                            *)

LEMMA LoadingKeepsInv ==
    ASSUME PagesInv, NEW l \in Loads, ServeLoad(l) \/ Answered(l)
    PROVE  PagesInv'
<1>a. WhereT /\ CopyT /\ InFlightT /\ FlagsT /\ CopyInv /\ Remembers
    BY Parts
<1>1. CopyT' /\ CopyInv'
    BY <1>a, ServeLoadKeeps, AnsweredKeeps
<1>2. UNCHANGED <<world, page, params, call, checking, cooling, deleting, isDeleting, calls>>
    <2>1. CASE ServeLoad(l)
        BY <2>1 DEF ServeLoad, where, button, dialog
    <2>2. CASE Answered(l)
        <3>1. Heard(l)
            BY <2>2 DEF Answered, ListLoaded, StatsLoaded, IncidentsLoaded, LogLoaded,
                        NotificationsLoaded, SettingsLoaded, AnalyticsLoaded, DetailLoaded,
                        ChartsLoaded, ChannelsLoaded, Loaded
        <3>2. QED
            BY <3>1 DEF Heard, where, button, dialog
    <2>3. QED
        BY <2>1, <2>2
<1>3. Fault \/ faults' = faults
    BY DEF ServeLoad, Answered, ListLoaded, StatsLoaded, IncidentsLoaded, LogLoaded,
           NotificationsLoaded, SettingsLoaded, AnalyticsLoaded, DetailLoaded, ChartsLoaded,
           ChannelsLoaded, Loaded, Got, Lost
<1>4. faults' \in 0 .. MaxFaults
    BY <1>a, <1>3, FaultKeeps DEF InFlightT
<1>5. WhereT' /\ InFlightT' /\ FlagsT' /\ Remembers'
    BY <1>a, <1>2, <1>4 DEF WhereT, InFlightT, FlagsT, Remembers
<1>6. QED
    BY <1>1, <1>5 DEF PagesInv, TypeOK, WhereT, CopyT, InFlightT, FlagsT, CopyInv, LoadT, CallT

\* The parts of the invariant after a step, put together.
LEMMA Together ==
    ASSUME WhereT', CopyT', InFlightT', FlagsT', CopyInv', Remembers'
    PROVE  PagesInv'
BY DEF PagesInv, TypeOK, WhereT, CopyT, InFlightT, FlagsT, CopyInv, LoadT, CallT

LEMMA AskingKeepsInv ==
    ASSUME PagesInv, Poll \/ Retry \/ \E f \in Filters : Choose(f)
    PROVE  PagesInv'
<1>a. WhereT /\ CopyT /\ InFlightT /\ FlagsT /\ CopyInv /\ Remembers
    BY Parts
<1>1. PICK l \in Loads, f \in Filters :
          Ask(l, f) /\ page' = page /\ params' = f /\ (page = "dashboard" => params' = params)
    BY <1>a DEF Poll, Retry, Choose, WhereT, where, Loads, Filtered
<1>2. CopyT' /\ CopyInv'
    BY <1>a, <1>1, AskKeeps
<1>3. UNCHANGED <<world, call, checking, cooling, deleting, isDeleting, faults>>
    BY DEF Poll, Retry, Choose, button, dialog
<1>4. calls' \in Nat
    BY <1>a DEF Poll, Retry, Choose, Asking, InFlightT
<1>5. WhereT' /\ InFlightT' /\ FlagsT' /\ Remembers'
    BY <1>a, <1>1, <1>3, <1>4 DEF WhereT, InFlightT, FlagsT, Remembers
<1>6. QED
    BY <1>2, <1>5, Together

\* A change is sent; at most the row follows at once.
LEMMA SendingKeepsInv ==
    ASSUME PagesInv, NEW k \in Kinds, NEW do \in Doings, NEW to \in Rows,
           NEW was \in Rows \union Filters \union {None}, Send(k, do, to, was),
           do \in {"mark", "mark all"} => was \in Filters,
           do = "prefer" => was \in Rows,
           Same, row' \in Rows, FlagsT'
    PROVE  PagesInv'
<1>a. WhereT /\ CopyT /\ InFlightT /\ FlagsT /\ CopyInv /\ Remembers
    BY Parts
<1>1. InFlightT' /\ Remembers' /\ UNCHANGED <<world, page, params>>
    BY <1>a, SendKeeps
<1>2. CopyT' /\ CopyInv'
    BY <1>a, <1>1, RowAlone
<1>3. WhereT'
    BY <1>a, <1>1 DEF WhereT
<1>4. QED
    BY <1>1, <1>2, <1>3, Together

LEMMA SitesSendKeepInv ==
    ASSUME PagesInv, TogglePause \/ SaveForm \/ Delete \/ CheckNow
    PROVE  PagesInv'
<1>a. CopyT /\ FlagsT /\ row' = row /\ Same
    BY Parts DEF TogglePause, SaveForm, Delete, CheckNow, copy, Same
<1>b. row' \in Rows
    BY <1>a DEF CopyT
<1>c. FlagsT'
    BY <1>a DEF TogglePause, SaveForm, Delete, CheckNow, FlagsT, button, dialog
<1>d. /\ "update" \in Kinds /\ "delete" \in Kinds /\ "check" \in Kinds
      /\ {"pause", "save", "create", "delete", "check"} \subseteq Doings
      /\ Gone \in Rows /\ Values \subseteq Rows /\ Flipped(row) \in Rows
    BY DEF Kinds, Doings, Rows, Values, Flipped
<1>1. CASE TogglePause
    BY <1>1, <1>a, <1>b, <1>c, <1>d, SendingKeepsInv DEF TogglePause
<1>2. CASE SaveForm
    BY <1>2, <1>a, <1>b, <1>c, <1>d, SendingKeepsInv DEF SaveForm
<1>3. CASE Delete
    BY <1>3, <1>a, <1>b, <1>c, <1>d, SendingKeepsInv DEF Delete
<1>4. CASE CheckNow
    BY <1>4, <1>a, <1>b, <1>c, <1>d, SendingKeepsInv DEF CheckNow
<1>5. QED
    BY <1>1, <1>2, <1>3, <1>4

LEMMA OthersSendKeepInv ==
    ASSUME PagesInv,
           \/ MarkRead \/ MarkAllRead \/ Prefer \/ PreferOther
           \/ ToggleChannel \/ TestChannel \/ EditChannel \/ DeleteChannel
    PROVE  PagesInv'
<1>a. WhereT /\ CopyT /\ FlagsT
    BY Parts
<1>b. Same
    BY DEF MarkRead, MarkAllRead, Prefer, PreferOther, ToggleChannel, TestChannel, EditChannel,
           DeleteChannel, Optimistic, copy, Same
<1>c. FlagsT'
    BY <1>a DEF MarkRead, MarkAllRead, Prefer, PreferOther, ToggleChannel, TestChannel,
                EditChannel, DeleteChannel, FlagsT, button, dialog
<1>d. /\ "update" \in Kinds /\ "delete" \in Kinds /\ "check" \in Kinds /\ "other" \in Kinds
      /\ {"mark", "mark all", "prefer", "enable", "test", "edit", "create", "delete"} \subseteq Doings
      /\ Gone \in Rows /\ "on" \in Rows /\ "off" \in Rows /\ Flipped(row) \in Rows
      /\ row \in Rows /\ params \in Filters
    BY <1>a DEF Kinds, Doings, Rows, Values, Flipped, CopyT, WhereT
<1>1. CASE MarkRead
    <2>1. row' \in Rows
        BY <1>1, <1>d DEF MarkRead, Optimistic
    <2>2. QED
        BY <1>1, <2>1, <1>b, <1>c, <1>d, SendingKeepsInv DEF MarkRead
<1>2. CASE MarkAllRead
    <2>1. row' \in Rows
        BY <1>2, <1>d DEF MarkAllRead, copy
    <2>2. QED
        BY <1>2, <2>1, <1>b, <1>c, <1>d, SendingKeepsInv DEF MarkAllRead
<1>3. CASE Prefer
    <2>1. row' \in Rows
        BY <1>3, <1>d DEF Prefer, Optimistic
    <2>2. QED
        BY <1>3, <2>1, <1>b, <1>c, <1>d, SendingKeepsInv DEF Prefer
<1>4. CASE PreferOther
    <2>1. row' \in Rows
        BY <1>4, <1>d DEF PreferOther, copy
    <2>2. QED
        BY <1>4, <2>1, <1>b, <1>c, <1>d, SendingKeepsInv DEF PreferOther
<1>5. CASE ToggleChannel
    <2>1. row' \in Rows
        BY <1>5, <1>d DEF ToggleChannel, Optimistic
    <2>2. QED
        BY <1>5, <2>1, <1>b, <1>c, <1>d, SendingKeepsInv DEF ToggleChannel
<1>6. CASE TestChannel \/ EditChannel \/ DeleteChannel
    <2>1. row' \in Rows
        BY <1>6, <1>d DEF TestChannel, EditChannel, DeleteChannel, copy
    <2>2. CASE TestChannel
        BY <2>2, <2>1, <1>b, <1>c, <1>d, SendingKeepsInv DEF TestChannel
    <2>3. CASE EditChannel
        BY <2>3, <2>1, <1>b, <1>c, <1>d, SendingKeepsInv DEF EditChannel
    <2>4. CASE DeleteChannel
        BY <2>4, <2>1, <1>b, <1>c, <1>d, SendingKeepsInv DEF DeleteChannel
    <2>5. QED
        BY <1>6, <2>2, <2>3, <2>4
<1>7. QED
    BY <1>1, <1>2, <1>3, <1>4, <1>5, <1>6

\* What touches the document, or a button, alone.
LEMMA RestKeepsInv ==
    ASSUME PagesInv, OpenDelete \/ CloseDelete \/ CheckAnother \/ CoolDown \/ Elsewhere
    PROVE  PagesInv'
<1>a. WhereT /\ CopyT /\ InFlightT /\ FlagsT /\ CopyInv /\ Remembers
    BY Parts
<1>1. UNCHANGED <<page, params, row, rowFor, isLoading, error, load, latest, call, calls, faults>>
    BY DEF OpenDelete, CloseDelete, CheckAnother, CoolDown, Elsewhere, where, copy
<1>2. CopyT' /\ CopyInv'
    BY <1>a, <1>1, RowAlone DEF Same, CopyT
<1>3. FlagsT'
    BY <1>a DEF OpenDelete, CloseDelete, CheckAnother, CoolDown, Elsewhere, FlagsT, button, dialog
<1>4. world' \in Rows
    BY <1>a DEF OpenDelete, CloseDelete, CheckAnother, CoolDown, Elsewhere, WhereT
<1>5. WhereT' /\ InFlightT' /\ Remembers'
    BY <1>a, <1>1, <1>4 DEF WhereT, InFlightT, Remembers
<1>6. QED
    BY <1>2, <1>3, <1>5, Together

LEMMA ServeCallKeepsInv ==
    ASSUME PagesInv, ServeCall
    PROVE  PagesInv'
<1>a. WhereT /\ CopyT /\ InFlightT /\ FlagsT /\ CopyInv /\ Remembers
    BY Parts
<1>b. Gone \in Rows /\ Values \subseteq Rows /\ world \in Rows /\ call["update"].to \in Rows
    BY <1>a DEF Rows, WhereT, InFlightT, CallT, Kinds
<1>1. PICK k \in Kinds, becomes \in Rows, said \in Rows : Serve(k, becomes, said)
    <2>1. "update" \in Kinds /\ "delete" \in Kinds /\ "check" \in Kinds /\ "other" \in Kinds
        BY DEF Kinds
    <2>2. QED
        BY <1>b, <2>1 DEF ServeCall, ServeUpdate, ServeEdit, ServeCreate, ServeDelete, ServeOther,
                          ServeCheck
<1>2. InFlightT' /\ Remembers'
    BY <1>a, <1>1, ServeKeeps
<1>3. /\ UNCHANGED <<page, params, row, rowFor, isLoading, error, load, latest, checking, cooling,
                     deleting, isDeleting>>
      /\ world' \in Rows
    BY <1>1 DEF Serve, where, copy, button, dialog
<1>4. CopyT' /\ CopyInv'
    BY <1>a, <1>3, RowAlone DEF Same, CopyT
<1>5. WhereT' /\ FlagsT'
    BY <1>a, <1>3 DEF WhereT, FlagsT
<1>6. QED
    BY <1>2, <1>4, <1>5, Together

-----------------------------------------------------------------------------
(* The answers to calls.                                                   *)

\* An answer after which at most the row, a button or a dialog is different.
LEMMA DoneKeepsInv ==
    ASSUME PagesInv, NEW k \in Kinds, NEW do \in SUBSET Doings,
           Succeeded(k, do) \/ Failed(k, do), UNCHANGED <<world, params, calls>>,
           Same, row' \in Rows, FlagsT', page' = page \/ (page = "detail" /\ page' = Left)
    PROVE  PagesInv'
<1>a. WhereT /\ CopyT /\ InFlightT /\ FlagsT /\ CopyInv /\ Remembers
    BY Parts
<1>1. InFlightT' /\ Remembers'
    BY <1>a, DoneKeeps
<1>2. CopyT' /\ CopyInv'
    BY <1>a, RowAlone
<1>3. WhereT'
    BY <1>a DEF WhereT
<1>4. QED
    BY <1>1, <1>2, <1>3, Together

\* An answer after which the page is loaded again.
LEMMA DoneAndAsk ==
    ASSUME PagesInv, NEW k \in Kinds, NEW do \in SUBSET Doings,
           Succeeded(k, do) \/ Failed(k, do), UNCHANGED <<world, page, params, calls>>,
           NEW f \in Filters, Ask("change", f), page \in Listed => f = params, FlagsT'
    PROVE  PagesInv'
<1>a. WhereT /\ CopyT /\ InFlightT /\ FlagsT /\ CopyInv /\ Remembers
    BY Parts
<1>1. InFlightT' /\ Remembers'
    BY <1>a, DoneKeeps
<1>2. "change" \in Loads
    BY DEF Loads
<1>3. CopyT' /\ CopyInv'
    BY <1>a, <1>2, AskKeeps
<1>4. WhereT'
    BY <1>a DEF WhereT
<1>5. QED
    BY <1>1, <1>3, <1>4, Together

LEMMA ToInRows ==
    ASSUME PagesInv
    PROVE  \A k \in Kinds : call[k].to \in Rows
<1>1. call \in [Kinds -> CallT]
    BY Parts DEF InFlightT
<1>2. QED
    BY <1>1 DEF CallT

LEMMA RowAnswersKeepInv ==
    ASSUME PagesInv,
           \/ Toggled \/ Deleted \/ Checked \/ ChannelDeleted
           \/ Preferred("update") \/ Preferred("other")
    PROVE  PagesInv'
<1>a. WhereT /\ CopyT /\ InFlightT /\ FlagsT /\ Remembers
    BY Parts
<1>b. /\ "update" \in Kinds /\ "delete" \in Kinds /\ "check" \in Kinds /\ "other" \in Kinds
      /\ {"pause"} \subseteq Doings /\ {"delete"} \subseteq Doings
      /\ {"check"} \subseteq Doings /\ {"prefer"} \subseteq Doings
    BY DEF Kinds, Doings
<1>c. Gone \in Rows /\ row \in Rows
    BY <1>a DEF Rows, CopyT
<1>1. CASE Toggled
    <2>1. row' \in Rows
        BY <1>1, <1>b, <1>c, ToInRows DEF Toggled, ReplaceSite
    <2>2. Same /\ UNCHANGED <<world, page, params, calls>> /\ FlagsT'
        BY <1>1, <1>a DEF Toggled, Keeping, Same, FlagsT, where, button, dialog
    <2>3. Succeeded("update", {"pause"}) \/ Failed("update", {"pause"})
        BY <1>1 DEF Toggled
    <2>4. QED
        BY <2>1, <2>2, <2>3, <1>b, DoneKeepsInv
<1>2. CASE Deleted
    <2>1. row' \in Rows
        BY <1>2, <1>c DEF Deleted, copy
    <2>2. Same /\ UNCHANGED <<world, params, calls>>
        BY <1>2 DEF Deleted, Keeping, Same, where, copy
    <2>3. FlagsT'
        BY <1>2, <1>a DEF Deleted, FlagsT, button, dialog
    <2>4. page' = page \/ (page = "detail" /\ page' = Left)
        BY <1>2 DEF Deleted, where
    <2>5. Succeeded("delete", {"delete"}) \/ Failed("delete", {"delete"})
        BY <1>2 DEF Deleted
    <2>6. QED
        BY <2>1, <2>2, <2>3, <2>4, <2>5, <1>b, DoneKeepsInv
<1>3. CASE Checked
    <2>1. row' \in Rows
        BY <1>3, <1>b, <1>c, ToInRows DEF Checked, ReplaceSite
    <2>2. Same /\ UNCHANGED <<world, page, params, calls>>
        BY <1>3 DEF Checked, Keeping, Same, where
    <2>3. FlagsT'
        BY <1>3, <1>a DEF Checked, FlagsT, dialog
    <2>4. Succeeded("check", {"check"}) \/ Failed("check", {"check"})
        BY <1>3 DEF Checked
    <2>5. QED
        BY <2>1, <2>2, <2>3, <2>4, <1>b, DoneKeepsInv
<1>4. CASE ChannelDeleted
    <2>1. row' \in Rows
        BY <1>4, <1>c DEF ChannelDeleted
    <2>2. Same /\ UNCHANGED <<world, page, params, calls>> /\ FlagsT'
        BY <1>4, <1>a DEF ChannelDeleted, Keeping, Same, FlagsT, where, button, dialog
    <2>3. Succeeded("delete", {"delete"}) \/ Failed("delete", {"delete"})
        BY <1>4 DEF ChannelDeleted
    <2>4. QED
        BY <2>1, <2>2, <2>3, <1>b, DoneKeepsInv
<1>5. ASSUME NEW k \in {"update", "other"}, Preferred(k) PROVE PagesInv'
    <2>1. k \in Kinds
        BY <1>b
    <2>2. Succeeded(k, {"prefer"}) \/ Failed(k, {"prefer"})
        BY <1>5 DEF Preferred
    <2>3. call[k].do = "prefer"
        BY <2>2 DEF Succeeded, Failed
    <2>4. call[k].was \in Rows
        BY <1>a, <2>1, <2>3 DEF Remembers
    <2>5. row' \in Rows
        BY <1>5, <2>1, <2>4, ToInRows DEF Preferred
    <2>6. Same /\ UNCHANGED <<world, page, params, calls>> /\ FlagsT'
        BY <1>5, <1>a DEF Preferred, Keeping, Same, FlagsT, where, button, dialog
    <2>7. QED
        BY <2>1, <2>2, <2>5, <2>6, <1>b, DoneKeepsInv
<1>6. QED
    BY <1>1, <1>2, <1>3, <1>4, <1>5

LEMMA SavedKeepsInv ==
    ASSUME PagesInv, Saved
    PROVE  PagesInv'
<1>a. WhereT /\ CopyT /\ InFlightT /\ FlagsT /\ CopyInv /\ Remembers
    BY Parts
<1>b. /\ UNCHANGED <<world, page, params, calls>> /\ FlagsT'
      /\ "update" \in Kinds /\ {"save"} \subseteq Doings /\ {"create"} \subseteq Doings
      /\ {"save", "create"} \subseteq Doings
      /\ Gone \in Rows /\ row \in Rows /\ params \in Filters
    BY <1>a DEF Saved, FlagsT, where, button, dialog, Kinds, Doings, Rows, CopyT, WhereT
<1>1. CASE Succeeded("update", {"create"}) /\ Ask("change", params)
    BY <1>1, <1>b, DoneAndAsk
<1>2. CASE Failed("update", {"save", "create"}) /\ UNCHANGED copy
    BY <1>2, <1>b, DoneKeepsInv DEF copy, Same
<1>3. CASE /\ Succeeded("update", {"save"}) /\ ReplaceSite(call["update"].to)
           /\ UNCHANGED <<rowFor, error, load, latest, isLoading>>
    <2>1. row' \in Rows
        BY <1>3, <1>b, ToInRows DEF ReplaceSite
    <2>2. QED
        BY <1>3, <2>1, <1>b, DoneKeepsInv DEF Same
<1>4. CASE /\ Succeeded("update", {"save"}) /\ ReplaceSite(call["update"].to)
           /\ UNCHANGED <<rowFor, error, isLoading>>
           /\ page = "dashboard"
           /\ load' = [load EXCEPT !["change"] = [NoLoad EXCEPT !.st = "sent"]]
           /\ latest' = "change"
    <2>1. row' \in Rows
        BY <1>4, <1>b, ToInRows DEF ReplaceSite
    <2> DEFINE new == [NoLoad EXCEPT !.st = "sent"]
    <2>2. new \in LoadT /\ new.st = "sent" /\ new.params = "all"
        BY DEF NoLoad, LoadT, Rows, Filters
    <2>3. params = "all"
        BY <1>a, <1>4 DEF CopyInv, LatestIsOut
    <2>4. page \in Listed /\ "change" \in Loads /\ isLoading' \in BOOLEAN
        BY <1>a, <1>4 DEF Listed, Loads, CopyT
    <2>5. load' = [load EXCEPT !["change"] = new]
        BY <1>4
    <2> HIDE DEF new
    <2>6. CopyT' /\ CopyInv'
        BY <1>a, <1>b, <1>4, <2>1, <2>2, <2>3, <2>4, <2>5, RequestOut
    <2>7. InFlightT' /\ Remembers'
        BY <1>a, <1>b, <1>4, DoneKeeps
    <2>8. WhereT'
        BY <1>a, <1>b DEF WhereT
    <2>9. QED
        BY <1>b, <2>6, <2>7, <2>8, Together
<1>5. QED
    BY <1>1, <1>2, <1>3, <1>4 DEF Saved

LEMMA MarkedKeepsInv ==
    ASSUME PagesInv, Marked \/ MarkedAll
    PROVE  PagesInv'
<1>a. WhereT /\ CopyT /\ InFlightT /\ FlagsT /\ CopyInv /\ Remembers
    BY Parts
<1>b. /\ UNCHANGED <<world, page, params, calls>> /\ FlagsT'
      /\ "update" \in Kinds /\ {"mark"} \subseteq Doings /\ {"mark all"} \subseteq Doings
      /\ page = "notifications" /\ page \notin Listed
      /\ Gone \in Rows /\ "off" \in Rows /\ row \in Rows
    BY <1>a DEF Marked, MarkedAll, FlagsT, where, button, dialog, Kinds, Doings, Rows, Values,
                CopyT, Listed
<1>1. CASE Marked
    <2>1. Succeeded("update", {"mark"}) \/ Failed("update", {"mark"})
        BY <1>1 DEF Marked
    <2>2. call["update"].was \in Filters
        BY <1>a, <1>b, <2>1 DEF Remembers, Succeeded, Failed
    <2>3. CASE UNCHANGED copy
        BY <2>1, <2>3, <1>b, DoneKeepsInv DEF copy, Same
    <2>4. CASE Ask("change", call["update"].was)
        BY <2>1, <2>2, <2>4, <1>b, DoneAndAsk
    <2>5. QED
        BY <1>1, <2>3, <2>4 DEF Marked
<1>2. CASE MarkedAll
    <2>1. Succeeded("update", {"mark all"}) \/ Failed("update", {"mark all"})
        BY <1>2 DEF MarkedAll
    <2>2. row' \in Rows
        BY <1>2, <1>b DEF MarkedAll, copy
    <2>3. CASE UNCHANGED load
        <3>1. Same
            BY <1>2, <2>3 DEF MarkedAll, copy, Same
        <3>2. QED
            BY <2>1, <2>2, <3>1, <1>b, DoneKeepsInv
    <2>4. CASE /\ load' = [load EXCEPT !["change"] = [NoLoad EXCEPT !.st = "sent", !.params = "on"]]
               /\ UNCHANGED <<rowFor, error, isLoading, latest>>
        <3> DEFINE new == [NoLoad EXCEPT !.st = "sent", !.params = "on"]
        <3>1. new \in LoadT /\ new.st = "sent"
            BY NewLoad DEF Filters
        <3>2. load' = [load EXCEPT !["change"] = new]
            BY <2>4
        <3> HIDE DEF new
        <3>3. latest = None /\ "change" \in Loads /\ isLoading' \in BOOLEAN
            BY <1>a, <1>b, <2>4 DEF CopyInv, LatestIsOut, Loads, CopyT
        <3>4. CopyT' /\ CopyInv'
            BY <1>a, <1>b, <2>2, <2>4, <3>1, <3>2, <3>3, RequestOut
        <3>5. InFlightT' /\ Remembers'
            BY <1>a, <1>b, <2>1, DoneKeeps
        <3>6. WhereT'
            BY <1>a, <1>b DEF WhereT
        <3>7. QED
            BY <1>b, <3>4, <3>5, <3>6, Together
    <2>5. QED
        BY <1>2, <2>3, <2>4 DEF MarkedAll, copy
<1>3. QED
    BY <1>1, <1>2

LEMMA ChannelAnswersKeepInv ==
    ASSUME PagesInv, ChannelChanged \/ ChannelTested
    PROVE  PagesInv'
<1>a. WhereT /\ CopyT /\ FlagsT
    BY Parts
<1>b. /\ UNCHANGED <<world, page, params, calls>>
      /\ "update" \in Kinds /\ "check" \in Kinds
      /\ {"enable"} \subseteq Doings /\ {"edit", "create"} \subseteq Doings
      /\ {"test"} \subseteq Doings
      /\ row \in Rows /\ params \in Filters
    BY <1>a DEF ChannelChanged, ChannelTested, where, Kinds, Doings, CopyT, WhereT
<1>c. FlagsT'
    BY <1>a DEF ChannelChanged, ChannelTested, FlagsT, button, dialog
<1>1. CASE ChannelChanged
    <2>1. \/ Succeeded("update", {"enable"}) \/ Failed("update", {"enable"})
          \/ Succeeded("update", {"edit", "create"}) \/ Failed("update", {"edit", "create"})
        BY <1>1 DEF ChannelChanged
    <2>2. CASE UNCHANGED copy
        BY <2>1, <2>2, <1>b, <1>c, DoneKeepsInv DEF copy, Same
    <2>3. CASE Ask("change", params)
        BY <2>1, <2>3, <1>b, <1>c, DoneAndAsk
    <2>4. QED
        BY <1>1, <2>2, <2>3 DEF ChannelChanged
<1>2. CASE ChannelTested
    BY <1>2, <1>b, <1>c, DoneAndAsk DEF ChannelTested
<1>3. QED
    BY <1>1, <1>2

-----------------------------------------------------------------------------

LEMMA StepInv == PagesInv /\ [Next]_vars => PagesInv'
<1> SUFFICES ASSUME PagesInv, [Next]_vars PROVE PagesInv'
    OBVIOUS
<1>1. CASE UNCHANGED vars
    BY <1>1, ZenonT(60) DEF vars, PagesInv, TypeOK, RowsAnswerTheFilter, SkeletonIsBacked, LatestIsOut, Remembers
<1>2. CASE \E l \in Loads : ServeLoad(l) \/ Answered(l)
    BY <1>2, LoadingKeepsInv
<1>3. CASE Poll \/ Retry \/ \E f \in Filters : Choose(f)
    BY <1>3, AskingKeepsInv
<1>4. CASE TogglePause \/ SaveForm \/ Delete \/ CheckNow
    BY <1>4, SitesSendKeepInv
<1>5. CASE \/ MarkRead \/ MarkAllRead \/ Prefer \/ PreferOther
           \/ ToggleChannel \/ TestChannel \/ EditChannel \/ DeleteChannel
    BY <1>5, OthersSendKeepInv
<1>6. CASE OpenDelete \/ CloseDelete \/ CheckAnother \/ CoolDown \/ Elsewhere
    BY <1>6, RestKeepsInv
<1>7. CASE ServeCall
    BY <1>7, ServeCallKeepsInv
<1>8. CASE CallAnswered
    BY <1>8, RowAnswersKeepInv, SavedKeepsInv, MarkedKeepsInv, ChannelAnswersKeepInv
       DEF CallAnswered
<1>9. QED
    BY <1>1, <1>2, <1>3, <1>4, <1>5, <1>6, <1>7, <1>8 DEF Next

\* The rows of a list answer the filter in force whenever no list is awaited, and a
\* skeleton always has a request behind it: on every page, however many requests,
\* changes and failures overlap.
THEOREM PagesSafe == Spec => []PagesInv
<1>1. Init => PagesInv
    BY InitInv
<1>2. PagesInv /\ [Next]_vars => PagesInv'
    BY StepInv
<1>3. QED
    BY <1>1, <1>2, PTL DEF Spec

=============================================================================
