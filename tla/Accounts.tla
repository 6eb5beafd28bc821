------------------------------- MODULE Accounts -------------------------------
(***************************************************************************)
(* Accounts and what is kept for them: registerUser (auth.service.ts), the *)
(* upserts of settings.service.ts, and the cleanup that deletes health     *)
(* checks past each account's retention window (cleanupJob.ts).            *)
(*                                                                         *)
(* A registration and a cleanup give way at every await.  Each account has *)
(* one health check whose age is followed: documents are deleted by their  *)
(* own age and owner alone, so one stands for all.  Time is whole days.    *)
(***************************************************************************)
EXTENDS Naturals, FiniteSets

CONSTANTS
    Requests,     \* POST /api/auth/register requests; an account is named after the one that wrote it
    Emails,
    Windows,      \* dataRetentionDays a user may choose
    Default,      \* the one the schema fills in
    RunWindow,    \* MONITOR_RUN_RETENTION_DAYS
    MaxAge,       \* bound: ages saturate here, above every window
    Cleanups,     \* cleanups in flight at once: cron does not wait for the last one
    UniqueEmail,  \* users has its unique index on email
    MaxFaults     \* bound: failed database calls and crashes

ASSUME AccountsAssumption ==
    /\ MaxAge \in Nat /\ MaxFaults \in Nat
    /\ Windows \subseteq 1 .. MaxAge
    /\ Default \in Windows
    /\ RunWindow \in 1 .. MaxAge
    /\ UniqueEmail \in BOOLEAN
    /\ "no user" \notin Emails

NoUser     == "no user"
NoSettings == 0
Gone       == MaxAge + 1      \* the age of a document that is not there
Ages       == 0 .. MaxAge

VARIABLES
    user,      \* email of each account's document in users
    window,    \* dataRetentionDays of each account's settings
    check,     \* age of each account's health check
    run,       \* age of the monitor-run record that is followed
    request,   \* per registration: where registerUser is, and its input
    cleanup,   \* per cleanup: where it is, and usersByRetention with what is left to do
    held,      \* per cleanup: the windows each account has had since it read them
    faults

vars == <<user, window, check, run, request, cleanup, held, faults>>

TypeOK ==
    /\ user \in [Requests -> Emails \union {NoUser}]
    /\ window \in [Requests -> Windows \union {NoSettings}]
    /\ check \in [Requests -> Ages \union {Gone}]
    /\ run \in Ages \union {Gone}
    /\ request \in [Requests -> [pc : {"new", "exists", "create", "settings", "created", "conflict", "failed"},
                                 email : Emails]]
    /\ cleanup \in [Cleanups -> [pc : {"idle", "checks", "runs"},
                                 plan : [Requests -> Windows \union {NoSettings}]]]
    /\ held \in [Cleanups -> [Requests -> SUBSET Windows]]
    /\ faults \in 0 .. MaxFaults

Nobody == [u \in Requests |-> NoSettings]

Init ==
    /\ user = [u \in Requests |-> NoUser]
    /\ window = Nobody
    /\ check = [u \in Requests |-> Gone]
    /\ run = Gone
    /\ request \in [Requests -> [pc : {"new"}, email : Emails]]
    /\ cleanup = [k \in Cleanups |-> [pc |-> "idle", plan |-> Nobody]]
    /\ held = [k \in Cleanups |-> [u \in Requests |-> {}]]
    /\ faults = 0

Taken(email) == \E u \in Requests : user[u] = email

-----------------------------------------------------------------------------
(* registerUser.                                                           *)

Answer(r, pc) == request' = [request EXCEPT ![r].pc = pc]

Register(r) ==
    /\ request[r].pc = "new"
    /\ Answer(r, "exists")
    /\ UNCHANGED <<user, window, check, run, cleanup, held, faults>>

\* User.exists: a friendly answer, not what keeps addresses apart
Exists(r) ==
    /\ request[r].pc = "exists"
    /\ Answer(r, IF Taken(request[r].email) THEN "conflict" ELSE "create")
    /\ UNCHANGED <<user, window, check, run, cleanup, held, faults>>

CreateUserUnchecked(r) ==    \* bug: exists is trusted, and email has no unique index
    /\ request[r].pc = "create"
    /\ user' = [user EXCEPT ![r] = request[r].email]
    /\ Answer(r, "settings")
    /\ UNCHANGED <<window, check, run, cleanup, held, faults>>

\* User.create, after the bcrypt hash; error 11000 is answered 409
CreateUser(r) ==
    /\ request[r].pc = "create"
    /\ \/ /\ UniqueEmail /\ Taken(request[r].email)
          /\ Answer(r, "conflict")
          /\ UNCHANGED user
       \/ /\ ~(UniqueEmail /\ Taken(request[r].email))
          /\ user' = [user EXCEPT ![r] = request[r].email]
          /\ Answer(r, "settings")
    /\ UNCHANGED <<window, check, run, cleanup, held, faults>>

Holding(u, w) == held' = [k \in Cleanups |-> [held[k] EXCEPT ![u] = @ \union {w}]]

\* Settings.create; userId is unique, and a settings page may have been quicker
CreateSettings(r) ==
    /\ request[r].pc = "settings"
    /\ \/ /\ window[r] = NoSettings
          /\ window' = [window EXCEPT ![r] = Default]
          /\ Holding(r, Default)
          /\ Answer(r, "created")
       \/ /\ window[r] # NoSettings
          /\ Answer(r, "conflict")
          /\ UNCHANGED <<window, held>>
    /\ UNCHANGED <<user, check, run, cleanup, faults>>

-----------------------------------------------------------------------------
(* The account at work: its settings, its health checks, and time.         *)

\* findOneAndUpdate with upsert: getSettings inserts the defaults where nothing
\* is, updateSettings sets what the user chose
GetSettings(u) ==
    /\ user[u] # NoUser
    /\ window[u] = NoSettings
    /\ window' = [window EXCEPT ![u] = Default]
    /\ Holding(u, Default)
    /\ UNCHANGED <<user, check, run, request, cleanup, faults>>

UpdateSettings(u, w) ==
    /\ user[u] # NoUser
    /\ window' = [window EXCEPT ![u] = w]
    /\ Holding(u, w)
    /\ UNCHANGED <<user, check, run, request, cleanup, faults>>

StoreCheck(u) ==
    /\ user[u] # NoUser
    /\ check[u] = Gone
    /\ check' = [check EXCEPT ![u] = 0]
    /\ UNCHANGED <<user, window, run, request, cleanup, held, faults>>

StoreRun ==
    /\ run = Gone
    /\ run' = 0
    /\ UNCHANGED <<user, window, check, request, cleanup, held, faults>>

Older(age) == IF age < MaxAge THEN age + 1 ELSE age

Day ==
    /\ check' = [u \in Requests |-> Older(check[u])]
    /\ run' = Older(run)
    /\ UNCHANGED <<user, window, request, cleanup, held, faults>>

-----------------------------------------------------------------------------
(* runRetentionCleanup.                                                    *)

\* Settings.find, grouped by window
ReadSettings(k) ==
    /\ cleanup[k].pc = "idle"
    /\ cleanup' = [cleanup EXCEPT ![k] = [pc |-> "checks", plan |-> window]]
    /\ held' = [held EXCEPT ![k] = [u \in Requests |-> {window[u]} \ {NoSettings}]]
    /\ UNCHANGED <<user, window, check, run, request, faults>>

DeleteEverybodys(k) ==       \* bug: deleteMany without the list of users
    \E w \in Windows :
        /\ cleanup[k].pc = "checks"
        /\ \E u \in Requests : cleanup[k].plan[u] = w
        /\ check' = [u \in Requests |-> IF check[u] > w THEN Gone ELSE check[u]]
        /\ cleanup' = [cleanup EXCEPT ![k].plan =
                          [u \in Requests |-> IF @[u] = w THEN NoSettings ELSE @[u]]]
        /\ UNCHANGED <<user, window, run, request, held, faults>>

DeleteFirst(k) ==            \* bug: leaves after the first window
    \E w \in Windows :
        LET mine == {u \in Requests : cleanup[k].plan[u] = w}
        IN  /\ cleanup[k].pc = "checks"
            /\ mine # {}
            /\ check' = [u \in Requests |-> IF u \in mine /\ check[u] > w THEN Gone ELSE check[u]]
            /\ cleanup' = [cleanup EXCEPT ![k] = [pc |-> "runs", plan |-> Nobody]]
            /\ UNCHANGED <<user, window, run, request, held, faults>>

\* one deleteMany per distinct window, in the order the settings came
DeleteChecks(k) ==
    \E w \in Windows :
        LET mine == {u \in Requests : cleanup[k].plan[u] = w}
        IN  /\ cleanup[k].pc = "checks"
            /\ mine # {}
            /\ check' = [u \in Requests |-> IF u \in mine /\ check[u] > w THEN Gone ELSE check[u]]
            /\ cleanup' = [cleanup EXCEPT ![k].plan =
                              [u \in Requests |-> IF u \in mine THEN NoSettings ELSE @[u]]]
            /\ UNCHANGED <<user, window, run, request, held, faults>>

ChecksDone(k) ==
    /\ cleanup[k].pc = "checks"
    /\ cleanup[k].plan = Nobody
    /\ cleanup' = [cleanup EXCEPT ![k].pc = "runs"]
    /\ UNCHANGED <<user, window, check, run, request, held, faults>>

\* MonitorRun.deleteMany
DeleteRuns(k) ==
    /\ cleanup[k].pc = "runs"
    /\ run' = IF run > RunWindow THEN Gone ELSE run
    /\ cleanup' = [cleanup EXCEPT ![k].pc = "idle"]
    /\ UNCHANGED <<user, window, check, request, held, faults>>

CleanupStep(k) == DeleteChecks(k) \/ ChecksDone(k) \/ DeleteRuns(k)

-----------------------------------------------------------------------------
(* What goes wrong.                                                        *)

Fault == faults < MaxFaults /\ faults' = faults + 1

InFlight(r) == request[r].pc \in {"exists", "create", "settings"}

RegistrationFails(r) ==
    /\ Fault
    /\ InFlight(r)
    /\ Answer(r, "failed")
    /\ UNCHANGED <<user, window, check, run, cleanup, held>>

Stopped == [pc |-> "idle", plan |-> Nobody]

\* runRetentionCleanup rejects: the windows not reached wait for the next night
CleanupFails(k) ==
    /\ Fault
    /\ cleanup[k].pc # "idle"
    /\ cleanup' = [cleanup EXCEPT ![k] = Stopped]
    /\ UNCHANGED <<user, window, check, run, request, held>>

\* The process stops and is started again.
Crash ==
    /\ Fault
    /\ request' = [r \in Requests |-> IF InFlight(r) THEN [request[r] EXCEPT !.pc = "failed"]
                                      ELSE request[r]]
    /\ cleanup' = [k \in Cleanups |-> Stopped]
    /\ UNCHANGED <<user, window, check, run, held>>

Next ==
    \/ \E r \in Requests : Register(r) \/ Exists(r) \/ CreateUser(r) \/ CreateSettings(r)
    \/ \E u \in Requests : GetSettings(u) \/ StoreCheck(u)
    \/ \E u \in Requests, w \in Windows : UpdateSettings(u, w)
    \/ StoreRun
    \/ Day
    \/ \E k \in Cleanups : ReadSettings(k) \/ CleanupStep(k) \/ CleanupFails(k)
    \/ \E r \in Requests : RegistrationFails(r)
    \/ Crash

Spec == Init /\ [][Next]_vars

\* cron starts a cleanup every night, and the event loop runs it on
FairSpec ==
    /\ Spec
    /\ \A k \in Cleanups : WF_vars(ReadSettings(k)) /\ WF_vars(CleanupStep(k))

-----------------------------------------------------------------------------

\* Two registrations of one address that both find it free leave one account: the
\* unique index decides, and its error is the same 409 (auth.service.ts:36-51,
\* errorHandler.ts:71-84).
OneAccountPerEmail ==
    UniqueEmail => \A u, v \in Requests : user[u] # NoUser /\ user[u] = user[v] => u = v

\* A registration is answered 409 only when the address does have an account.
ConflictIsTrue == \A r \in Requests : request[r].pc = "conflict" => Taken(request[r].email)

\* "The settings document is created alongside the user so every later read of
\* /api/settings finds one" (auth.service.ts:31-33): whoever is told that the
\* account exists has it, with settings, whatever stopped or failed meanwhile.
RegisteredIsWhole ==
    \A r \in Requests :
        request[r].pc = "created" => user[r] = request[r].email /\ window[r] # NoSettings

\* the parts the proofs need besides
RequestInHand ==
    \A r \in Requests :
        /\ user[r] \in {NoUser, request[r].email}
        /\ request[r].pc = "settings" => user[r] = request[r].email

\* What a cleanup is about to use as a window has been the owner's since it began.
PlanWasHeld ==
    \A k \in Cleanups, u \in Requests :
        cleanup[k].plan[u] # NoSettings => cleanup[k].plan[u] \in held[k][u]

AccountsInv ==
    /\ TypeOK
    /\ RequestInHand
    /\ OneAccountPerEmail
    /\ ConflictIsTrue
    /\ RegisteredIsWhole
    /\ PlanWasHeld

\* Retention is each user's own: a health check is deleted only when it is older
\* than a window its owner had since the cleanup that deletes it read the settings,
\* with other cleanups, other windows and changes of mind in between
\* (cleanupJob.ts:16-44).
OnlyExpiredDeleted ==
    [][\A u \in Requests :
          check[u] # Gone /\ check'[u] = Gone =>
              \E k \in Cleanups : \E w \in held[k][u] : check[u] > w]_vars

\* A window left alone is kept: no check older than it stays, though a cleanup
\* fails half way or dies with the process (cleanupJob.ts:34-43).
ExpiredGoes ==
    \A u \in Requests, w \in Windows :
        <>[](window[u] = w) => []<>(check[u] = Gone \/ check[u] <= w)

=============================================================================
