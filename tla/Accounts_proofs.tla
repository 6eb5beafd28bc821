---------------------------- MODULE Accounts_proofs ----------------------------
(***************************************************************************)
(* AccountsInv is inductive for any number of registrations, addresses,    *)
(* windows and cleanups; that only expired checks are deleted follows from *)
(* one part of it, PlanWasHeld.                                            *)
(***************************************************************************)
EXTENDS Accounts, TLAPS

Pcs       == {"new", "exists", "create", "settings", "created", "conflict", "failed"}
RequestsT == [Requests -> [pc : Pcs, email : Emails]]
PlansT    == [Requests -> Windows \union {NoSettings}]
CleanupsT == [Cleanups -> [pc : {"idle", "checks", "runs"}, plan : PlansT]]

LEMMA Numbers ==
    /\ \A w \in Windows : w \in Nat /\ w # NoSettings /\ w <= MaxAge
    /\ Default \in Windows
    /\ \A n \in Ages \union {Gone} : n \in Nat /\ Older(n) \in Ages \union {Gone}
    /\ 0 \in Ages
    /\ Gone \notin Ages
    /\ NoUser \notin Emails
<1>1. MaxAge \in Nat /\ Windows \subseteq 1 .. MaxAge
    BY AccountsAssumption, Zenon
<1>2. Default \in Windows /\ NoUser \notin Emails
    BY AccountsAssumption, Zenon DEF NoUser
<1>3. \A w \in Windows : w \in Nat /\ w # NoSettings /\ w <= MaxAge
    BY <1>1, SMT DEF NoSettings
<1>4. \A n \in Ages \union {Gone} : n \in Nat /\ Older(n) \in Ages \union {Gone}
    BY <1>1, SMT DEF Ages, Gone, Older
<1>5. 0 \in Ages /\ Gone \notin Ages
    BY <1>1, SMT DEF Ages, Gone
<1>6. QED
    BY <1>2, <1>3, <1>4, <1>5

LEMMA InitInv == Init => AccountsInv
<1> SUFFICES ASSUME Init PROVE AccountsInv
    OBVIOUS
<1>1. request \in RequestsT
    BY DEF Init, RequestsT, Pcs
<1>2. cleanup \in CleanupsT /\ held \in [Cleanups -> [Requests -> SUBSET Windows]]
    BY DEF Init, CleanupsT, PlansT, Nobody
<1>3. /\ user \in [Requests -> Emails \union {NoUser}]
      /\ window \in PlansT
      /\ check \in [Requests -> Ages \union {Gone}]
      /\ run \in Ages \union {Gone}
    BY DEF Init, PlansT, Nobody
<1>4. faults \in 0 .. MaxFaults
    <2>1. MaxFaults \in Nat
        BY AccountsAssumption, Zenon
    <2>2. QED
        BY <2>1, SMT DEF Init
<1>5. TypeOK
    BY <1>1, <1>2, <1>3, <1>4 DEF TypeOK, RequestsT, Pcs, CleanupsT, PlansT
<1>6. RequestInHand /\ OneAccountPerEmail /\ ConflictIsTrue /\ RegisteredIsWhole /\ PlanWasHeld
    BY DEF Init, RequestInHand, OneAccountPerEmail, ConflictIsTrue, RegisteredIsWhole,
           PlanWasHeld, Nobody
<1>7. QED
    BY <1>5, <1>6 DEF AccountsInv

-----------------------------------------------------------------------------
(* Registrations.                                                          *)

\* What the invariant says of users, windows and requests.
Registered ==
    RequestInHand /\ OneAccountPerEmail /\ ConflictIsTrue /\ RegisteredIsWhole

\* An answer that promises nothing, or a conflict with an account that is there,
\* changes nothing of it.
LEMMA AnswerKeeps ==
    ASSUME TypeOK, Registered, UNCHANGED <<user, window>>,
           NEW r \in Requests, NEW pc \in Pcs, Answer(r, pc),
           pc \notin {"settings", "created"},
           pc = "conflict" => Taken(request[r].email)
    PROVE  Registered' /\ request' \in RequestsT
<1>1. request \in RequestsT /\ request' = [request EXCEPT ![r].pc = pc]
    BY DEF TypeOK, RequestsT, Pcs, Answer
<1>2. request' \in RequestsT /\ \A q \in Requests : /\ request'[q].email = request[q].email
                                                    /\ q # r => request'[q] = request[q]
    BY <1>1 DEF RequestsT
<1>3. request'[r].pc = pc
    BY <1>1 DEF RequestsT
<1>4. RequestInHand' /\ OneAccountPerEmail'
    BY <1>2, <1>3 DEF Registered, RequestInHand, OneAccountPerEmail
<1>5. ConflictIsTrue'
    BY <1>2, <1>3 DEF Registered, ConflictIsTrue, Taken
<1>6. RegisteredIsWhole'
    BY <1>2, <1>3 DEF Registered, RegisteredIsWhole
<1>7. QED
    BY <1>2, <1>4, <1>5, <1>6 DEF Registered

\* No account leaves its address, and no window is taken back.
LEMMA RequestStep ==
    ASSUME TypeOK, Registered, NEW r \in Requests,
           Register(r) \/ Exists(r) \/ CreateUser(r) \/ CreateSettings(r) \/ RegistrationFails(r)
    PROVE  Registered' /\ request' \in RequestsT
<1>a. request \in RequestsT
    BY DEF TypeOK, RequestsT, Pcs
<1>1. CASE Register(r)
    BY <1>1, AnswerKeeps DEF Register, Pcs
<1>2. CASE Exists(r)
    <2>1. CASE Taken(request[r].email)
        BY <1>2, <2>1, AnswerKeeps DEF Exists, Pcs
    <2>2. CASE ~Taken(request[r].email)
        BY <1>2, <2>2, AnswerKeeps DEF Exists, Pcs
    <2>3. QED
        BY <2>1, <2>2
<1>3. CASE CreateUser(r)
    <2>1. CASE UniqueEmail /\ Taken(request[r].email)
        BY <1>3, <2>1, AnswerKeeps DEF CreateUser, Pcs
    <2>2. CASE ~(UniqueEmail /\ Taken(request[r].email))
        <3>1. /\ user' = [user EXCEPT ![r] = request[r].email]
              /\ request' = [request EXCEPT ![r].pc = "settings"]
              /\ window' = window
            BY <1>3, <2>2 DEF CreateUser, Answer
        <3>2. /\ request' \in RequestsT
              /\ \A q \in Requests : /\ request'[q].email = request[q].email
                                     /\ q # r => request'[q] = request[q]
              /\ request'[r].pc = "settings"
            BY <3>1, <1>a DEF RequestsT, Pcs
        <3>3. \A q \in Requests : user'[q] = IF q = r THEN request[r].email ELSE user[q]
            BY <3>1 DEF TypeOK
        <3>4. RequestInHand'
            BY <3>2, <3>3 DEF Registered, RequestInHand
        <3>5. OneAccountPerEmail'
            BY <2>2, <3>3 DEF Registered, OneAccountPerEmail, Taken
        <3>6. \A email : email # NoUser /\ Taken(email) => Taken(email)'
            BY <3>3 DEF Registered, RequestInHand, Taken
        <3>7. ConflictIsTrue'
            BY <3>2, <3>6, <1>a, Numbers DEF Registered, ConflictIsTrue, RequestsT
        <3>8. RegisteredIsWhole'
            BY <3>1, <3>2, <3>3 DEF Registered, RegisteredIsWhole
        <3>9. QED
            BY <3>2, <3>4, <3>5, <3>7, <3>8 DEF Registered
    <2>3. QED
        BY <2>1, <2>2
<1>4. CASE CreateSettings(r)
    <2>1. user[r] = request[r].email /\ user' = user
        BY <1>4 DEF CreateSettings, Registered, RequestInHand
    <2>2. CASE window[r] # NoSettings
        <3>1. Taken(request[r].email)
            BY <2>1 DEF Taken
        <3>2. QED
            BY <1>4, <2>2, <3>1, AnswerKeeps DEF CreateSettings, Pcs
    <2>3. CASE window[r] = NoSettings
        <3>1. /\ window' = [window EXCEPT ![r] = Default]
              /\ request' = [request EXCEPT ![r].pc = "created"]
            BY <1>4, <2>3 DEF CreateSettings, Answer
        <3>2. /\ request' \in RequestsT
              /\ \A q \in Requests : /\ request'[q].email = request[q].email
                                     /\ q # r => request'[q] = request[q]
              /\ request'[r].pc = "created"
            BY <3>1, <1>a DEF RequestsT, Pcs
        <3>3. \A q \in Requests : window'[q] = IF q = r THEN Default ELSE window[q]
            BY <3>1 DEF TypeOK
        <3>4. RequestInHand' /\ OneAccountPerEmail'
            BY <2>1, <3>2 DEF Registered, RequestInHand, OneAccountPerEmail
        <3>5. ConflictIsTrue'
            BY <2>1, <3>2 DEF Registered, ConflictIsTrue, Taken
        <3>6. RegisteredIsWhole'
            BY <2>1, <3>2, <3>3, Numbers DEF Registered, RegisteredIsWhole
        <3>7. QED
            BY <3>2, <3>4, <3>5, <3>6 DEF Registered
    <2>4. QED
        BY <2>2, <2>3
<1>5. CASE RegistrationFails(r)
    BY <1>5, AnswerKeeps DEF RegistrationFails, Pcs
<1>6. QED
    BY <1>1, <1>2, <1>3, <1>4, <1>5

\* The settings of an account change, or its owner asks for them: a window that is
\* there stays there.
LEMMA SettingsStep ==
    ASSUME TypeOK, Registered, NEW u \in Requests, NEW w \in Windows,
           window' = [window EXCEPT ![u] = w], UNCHANGED <<user, request>>
    PROVE  Registered'
<1>1. \A q \in Requests : window'[q] = IF q = u THEN w ELSE window[q]
    BY DEF TypeOK
<1>2. RequestInHand' /\ OneAccountPerEmail' /\ ConflictIsTrue'
    BY DEF Registered, RequestInHand, OneAccountPerEmail, ConflictIsTrue, Taken
<1>3. RegisteredIsWhole'
    BY <1>1, Numbers DEF Registered, RegisteredIsWhole
<1>4. QED
    BY <1>2, <1>3 DEF Registered

\* A restart fails what was in flight, and promises nothing.
LEMMA CrashKeepsRegistered ==
    ASSUME TypeOK, Registered, Crash
    PROVE  Registered' /\ request' \in RequestsT
<1>1. /\ request \in RequestsT
      /\ request' = [r \in Requests |-> IF InFlight(r) THEN [request[r] EXCEPT !.pc = "failed"]
                                        ELSE request[r]]
      /\ UNCHANGED <<user, window>>
    BY DEF TypeOK, RequestsT, Pcs, Crash
<1>2. \A r \in Requests : /\ request'[r].email = request[r].email
                          /\ request'[r] = request[r] \/ request'[r].pc = "failed"
    BY <1>1 DEF RequestsT, Pcs
<1>3. request' \in RequestsT
    BY <1>1 DEF RequestsT, Pcs
<1>4. RequestInHand' /\ OneAccountPerEmail'
    BY <1>1, <1>2 DEF Registered, RequestInHand, OneAccountPerEmail
<1>5. ConflictIsTrue'
    BY <1>1, <1>2 DEF Registered, ConflictIsTrue, Taken
<1>6. RegisteredIsWhole'
    BY <1>1, <1>2 DEF Registered, RegisteredIsWhole
<1>7. QED
    BY <1>3, <1>4, <1>5, <1>6 DEF Registered

-----------------------------------------------------------------------------
(* Cleanups.                                                               *)

HeldT == [Cleanups -> [Requests -> SUBSET Windows]]

\* A plan that only loses windows has been held as before.
LEMMA PlanShrinks ==
    ASSUME PlanWasHeld, UNCHANGED held,
           \A k \in Cleanups, u \in Requests :
               cleanup'[k].plan[u] \in {cleanup[k].plan[u], NoSettings}
    PROVE  PlanWasHeld'
BY DEF PlanWasHeld

\* A window an account comes to have is noted for every cleanup that is running.
LEMMA HoldingGrows ==
    ASSUME TypeOK, NEW u \in Requests, NEW w \in Windows, Holding(u, w)
    PROVE  /\ held' \in HeldT
           /\ \A k \in Cleanups, v \in Requests : held[k][v] \subseteq held'[k][v]
<1>1. /\ held \in HeldT
      /\ held' = [k \in Cleanups |-> [held[k] EXCEPT ![u] = held[k][u] \union {w}]]
    BY DEF TypeOK, HeldT, Holding
<1>2. \A k \in Cleanups : /\ held[k] \in [Requests -> SUBSET Windows]
                          /\ held'[k] = [held[k] EXCEPT ![u] = held[k][u] \union {w}]
    BY <1>1 DEF HeldT
<1>3. \A k \in Cleanups : /\ held'[k] \in [Requests -> SUBSET Windows]
                          /\ \A v \in Requests : held[k][v] \subseteq held'[k][v]
    <2>1. SUFFICES ASSUME NEW k \in Cleanups
                   PROVE  /\ held'[k] \in [Requests -> SUBSET Windows]
                          /\ \A v \in Requests : held[k][v] \subseteq held'[k][v]
        OBVIOUS
    <2> DEFINE h == held[k]
    <2>2. h \in [Requests -> SUBSET Windows] /\ held'[k] = [h EXCEPT ![u] = h[u] \union {w}]
        BY <1>2
    <2> HIDE DEF h
    <2>3. h[u] \union {w} \in SUBSET Windows
        BY <2>2
    <2>4. held'[k] \in [Requests -> SUBSET Windows] /\ \A v \in Requests : h[v] \subseteq held'[k][v]
        BY <2>2, <2>3
    <2>5. QED
        BY <2>4 DEF h
<1>4. QED
    BY <1>1, <1>3 DEF HeldT

\* No plan changes when only what was held grows.
LEMMA HeldGrows ==
    ASSUME PlanWasHeld, UNCHANGED cleanup,
           \A k \in Cleanups, v \in Requests : held[k][v] \subseteq held'[k][v]
    PROVE  PlanWasHeld'
BY DEF PlanWasHeld

\* Every step of a cleanup uses windows its owners have had since it read them.
LEMMA CleanupKeeps ==
    ASSUME TypeOK, PlanWasHeld, NEW k \in Cleanups,
           ReadSettings(k) \/ CleanupStep(k) \/ CleanupFails(k)
    PROVE  /\ PlanWasHeld'
           /\ cleanup' \in CleanupsT
           /\ held' \in HeldT
           /\ check' \in [Requests -> Ages \union {Gone}]
           /\ run' \in Ages \union {Gone}
<1>a. /\ cleanup \in CleanupsT /\ held \in HeldT /\ window \in PlansT
      /\ check \in [Requests -> Ages \union {Gone}] /\ run \in Ages \union {Gone}
    BY DEF TypeOK, CleanupsT, PlansT, HeldT
<1>b. /\ \A j \in Cleanups : cleanup[j] \in [pc : {"idle", "checks", "runs"}, plan : PlansT]
      /\ Nobody \in PlansT /\ \A u \in Requests : Nobody[u] = NoSettings
    BY <1>a DEF CleanupsT, PlansT, Nobody
<1>1. CASE ReadSettings(k)
    <2>1. /\ cleanup' = [cleanup EXCEPT ![k] = [pc |-> "checks", plan |-> window]]
          /\ held' = [held EXCEPT ![k] = [u \in Requests |-> {window[u]} \ {NoSettings}]]
          /\ UNCHANGED <<check, run>>
        BY <1>1 DEF ReadSettings
    <2>2. cleanup' \in CleanupsT
        BY <2>1, <1>a DEF CleanupsT
    <2>3. [u \in Requests |-> {window[u]} \ {NoSettings}] \in [Requests -> SUBSET Windows]
        BY <1>a DEF PlansT
    <2>4. held' \in HeldT
        BY <2>1, <2>3, <1>a DEF HeldT
    <2>5. /\ cleanup'[k].plan = window
          /\ \A u \in Requests : held'[k][u] = {window[u]} \ {NoSettings}
          /\ \A j \in Cleanups : j # k => cleanup'[j] = cleanup[j] /\ held'[j] = held[j]
        BY <2>1, <1>a DEF CleanupsT, HeldT
    <2>6. PlanWasHeld'
        BY <2>5 DEF PlanWasHeld
    <2>7. QED
        BY <2>1, <2>2, <2>4, <2>6, <1>a
<1>2. CASE DeleteChecks(k)
    <2>1. PICK w \in Windows :
              LET mine == {u \in Requests : cleanup[k].plan[u] = w}
              IN  /\ check' = [u \in Requests |-> IF u \in mine /\ check[u] > w THEN Gone
                                                 ELSE check[u]]
                  /\ cleanup' = [cleanup EXCEPT ![k].plan =
                                    [u \in Requests |-> IF u \in mine THEN NoSettings
                                                        ELSE cleanup[k].plan[u]]]
        BY <1>2 DEF DeleteChecks
    <2> DEFINE mine == {u \in Requests : cleanup[k].plan[u] = w}
               left == [u \in Requests |-> IF u \in mine THEN NoSettings
                                           ELSE cleanup[k].plan[u]]
    <2>2. UNCHANGED <<held, run>>
        BY <1>2 DEF DeleteChecks
    <2>3. left \in PlansT
        BY <1>b DEF PlansT
    <2>4. check' \in [Requests -> Ages \union {Gone}]
        BY <2>1, <1>a
    <2>5. \A u \in Requests : left[u] \in {cleanup[k].plan[u], NoSettings}
        OBVIOUS
    <2>6. cleanup' = [cleanup EXCEPT ![k].plan = left]
        BY <2>1
    <2> HIDE DEF left, mine
    <2>7. cleanup' \in CleanupsT
        BY <2>3, <2>6, <1>a DEF CleanupsT
    <2>8. /\ cleanup'[k].plan = left
          /\ \A j \in Cleanups : j # k => cleanup'[j] = cleanup[j]
        BY <2>6, <1>a DEF CleanupsT
    <2>9. PlanWasHeld'
        BY <2>2, <2>5, <2>8, PlanShrinks
    <2>10. QED
        BY <2>2, <2>4, <2>7, <2>9, <1>a
<1>3. CASE ChecksDone(k) \/ DeleteRuns(k)
    <2>1. /\ \E pc \in {"runs", "idle"} : cleanup' = [cleanup EXCEPT ![k].pc = pc]
          /\ UNCHANGED <<check, held>>
          /\ run' \in {run, Gone}
        BY <1>3 DEF ChecksDone, DeleteRuns
    <2>2. cleanup' \in CleanupsT /\ \A j \in Cleanups : cleanup'[j].plan = cleanup[j].plan
        BY <2>1, <1>a DEF CleanupsT
    <2>3. PlanWasHeld'
        BY <2>1, <2>2, PlanShrinks
    <2>4. QED
        BY <2>1, <2>2, <2>3, <1>a
<1>4. CASE CleanupFails(k)
    <2>1. cleanup' = [cleanup EXCEPT ![k] = Stopped] /\ UNCHANGED <<check, held, run>>
        BY <1>4 DEF CleanupFails
    <2>2. /\ cleanup' \in CleanupsT
          /\ cleanup'[k].plan = Nobody
          /\ \A j \in Cleanups : j # k => cleanup'[j] = cleanup[j]
        BY <2>1, <1>a, <1>b DEF CleanupsT, Stopped
    <2>3. PlanWasHeld'
        BY <2>1, <2>2, <1>b, PlanShrinks
    <2>4. QED
        BY <2>1, <2>2, <2>3, <1>a
<1>5. QED
    BY <1>1, <1>2, <1>3, <1>4 DEF CleanupStep

-----------------------------------------------------------------------------

LEMMA TypeAndFaults ==
    ASSUME TypeOK, Fault
    PROVE  faults' \in 0 .. MaxFaults
<1>1. MaxFaults \in Nat /\ faults \in 0 .. MaxFaults
    BY AccountsAssumption, Zenon DEF TypeOK
<1>2. QED
    BY <1>1, SMT DEF Fault

\* The parts of the invariant, as the lemmas above have them.
LEMMA Parts ==
    /\ TypeOK <=> /\ user \in [Requests -> Emails \union {NoUser}]
                  /\ window \in PlansT
                  /\ check \in [Requests -> Ages \union {Gone}]
                  /\ run \in Ages \union {Gone}
                  /\ request \in RequestsT
                  /\ cleanup \in CleanupsT
                  /\ held \in HeldT
                  /\ faults \in 0 .. MaxFaults
    /\ AccountsInv <=> TypeOK /\ Registered /\ PlanWasHeld
BY DEF TypeOK, AccountsInv, Registered, RequestsT, Pcs, PlansT, CleanupsT, HeldT

LEMMA RegistrationKeepsInv ==
    ASSUME AccountsInv, NEW r \in Requests,
           Register(r) \/ Exists(r) \/ CreateUser(r) \/ CreateSettings(r) \/ RegistrationFails(r)
    PROVE  AccountsInv'
<1>a. TypeOK /\ Registered /\ PlanWasHeld
    BY Parts
<1>1. Registered' /\ request' \in RequestsT
    BY <1>a, RequestStep
<1>2. UNCHANGED <<check, run, cleanup>>
    BY DEF Register, Exists, CreateUser, CreateSettings, RegistrationFails
<1>3. user' \in [Requests -> Emails \union {NoUser}]
    <2>1. request[r].email \in Emails
        BY <1>a, Parts DEF RequestsT
    <2>2. UNCHANGED user \/ user' = [user EXCEPT ![r] = request[r].email]
        BY DEF Register, Exists, CreateUser, CreateSettings, RegistrationFails
    <2>3. QED
        BY <1>a, <2>1, <2>2 DEF TypeOK
<1>4. \/ UNCHANGED <<window, held>>
      \/ window' = [window EXCEPT ![r] = Default] /\ Holding(r, Default)
    BY DEF Register, Exists, CreateUser, CreateSettings, RegistrationFails
<1>5. window' \in PlansT
    BY <1>a, <1>4, Numbers, Parts DEF PlansT
<1>6. held' \in HeldT /\ PlanWasHeld'
    <2>1. CASE UNCHANGED held
        BY <1>a, <1>2, <2>1, Parts, HeldGrows
    <2>2. CASE Holding(r, Default)
        BY <1>a, <1>2, <2>2, Numbers, HoldingGrows, HeldGrows
    <2>3. QED
        BY <1>4, <2>1, <2>2
<1>7. faults' \in 0 .. MaxFaults
    <2>1. CASE UNCHANGED faults
        BY <1>a, <2>1 DEF TypeOK
    <2>2. CASE Fault
        BY <1>a, <2>2, TypeAndFaults
    <2>3. QED
        BY <2>1, <2>2 DEF Register, Exists, CreateUser, CreateSettings, RegistrationFails
<1>8. TypeOK'
    BY <1>a, <1>1, <1>2, <1>3, <1>5, <1>6, <1>7
       DEF TypeOK, RequestsT, Pcs, PlansT, CleanupsT, HeldT
<1>9. QED
    BY <1>1, <1>6, <1>8 DEF AccountsInv, Registered

LEMMA SettingsKeepInv ==
    ASSUME AccountsInv, NEW u \in Requests, NEW w \in Windows,
           GetSettings(u) \/ UpdateSettings(u, w)
    PROVE  AccountsInv'
<1>a. TypeOK /\ Registered /\ PlanWasHeld
    BY Parts
<1>1. PICK v \in Windows : window' = [window EXCEPT ![u] = v] /\ Holding(u, v)
    BY Numbers DEF GetSettings, UpdateSettings
<1>2. UNCHANGED <<user, check, run, request, cleanup, faults>>
    BY DEF GetSettings, UpdateSettings
<1>3. Registered'
    BY <1>a, <1>1, <1>2, SettingsStep
<1>4. window' \in PlansT
    BY <1>a, <1>1, Parts DEF PlansT
<1>5. held' \in HeldT /\ PlanWasHeld'
    BY <1>a, <1>1, <1>2, HoldingGrows, HeldGrows
<1>6. TypeOK'
    BY <1>a, <1>2, <1>4, <1>5 DEF TypeOK, PlansT, HeldT
<1>7. QED
    BY <1>3, <1>5, <1>6 DEF AccountsInv, Registered

\* Time and what is stored: nothing of an account but its check and the run record.
LEMMA StoringKeepsInv ==
    ASSUME AccountsInv, (\E u \in Requests : StoreCheck(u)) \/ StoreRun \/ Day
    PROVE  AccountsInv'
<1>a. TypeOK
    BY Parts
<1>1. UNCHANGED <<user, window, request, cleanup, held, faults>>
    BY DEF StoreCheck, StoreRun, Day
<1>2. check' \in [Requests -> Ages \union {Gone}] /\ run' \in Ages \union {Gone}
    <2>1. CASE \E u \in Requests : StoreCheck(u)
        BY <1>a, <2>1, Numbers DEF StoreCheck, TypeOK
    <2>2. CASE StoreRun
        BY <1>a, <2>2, Numbers DEF StoreRun, TypeOK
    <2>3. CASE Day
        BY <1>a, <2>3, Numbers DEF Day, TypeOK
    <2>4. QED
        BY <2>1, <2>2, <2>3
<1>3. TypeOK'
    BY <1>a, <1>1, <1>2 DEF TypeOK
<1>4. RequestInHand' /\ OneAccountPerEmail' /\ ConflictIsTrue' /\ RegisteredIsWhole' /\ PlanWasHeld'
    BY <1>1 DEF AccountsInv, RequestInHand, OneAccountPerEmail, ConflictIsTrue, Taken,
                RegisteredIsWhole, PlanWasHeld
<1>5. QED
    BY <1>3, <1>4 DEF AccountsInv

LEMMA CleanupKeepsInv ==
    ASSUME AccountsInv, NEW k \in Cleanups,
           ReadSettings(k) \/ CleanupStep(k) \/ CleanupFails(k)
    PROVE  AccountsInv'
<1>a. TypeOK /\ Registered /\ PlanWasHeld
    BY Parts
<1>1. /\ PlanWasHeld'
      /\ cleanup' \in CleanupsT
      /\ held' \in HeldT
      /\ check' \in [Requests -> Ages \union {Gone}]
      /\ run' \in Ages \union {Gone}
    BY <1>a, CleanupKeeps
<1>2. UNCHANGED <<user, window, request>>
    BY DEF ReadSettings, CleanupStep, DeleteChecks, ChecksDone, DeleteRuns, CleanupFails
<1>3. faults' \in 0 .. MaxFaults
    <2>1. CASE UNCHANGED faults
        BY <1>a, <2>1 DEF TypeOK
    <2>2. CASE Fault
        BY <1>a, <2>2, TypeAndFaults
    <2>3. QED
        BY <2>1, <2>2
           DEF ReadSettings, CleanupStep, DeleteChecks, ChecksDone, DeleteRuns, CleanupFails
<1>4. TypeOK'
    BY <1>a, <1>1, <1>2, <1>3 DEF TypeOK, CleanupsT, PlansT, HeldT
<1>5. RequestInHand' /\ OneAccountPerEmail' /\ ConflictIsTrue' /\ RegisteredIsWhole'
    BY <1>a, <1>2 DEF Registered, RequestInHand, OneAccountPerEmail, ConflictIsTrue, Taken,
                      RegisteredIsWhole
<1>6. QED
    BY <1>1, <1>4, <1>5 DEF AccountsInv

LEMMA CrashKeepsInv ==
    ASSUME AccountsInv, Crash
    PROVE  AccountsInv'
<1>a. TypeOK /\ Registered /\ PlanWasHeld
    BY Parts
<1>1. Registered' /\ request' \in RequestsT
    BY <1>a, CrashKeepsRegistered
<1>2. /\ cleanup' = [k \in Cleanups |-> Stopped]
      /\ UNCHANGED <<user, window, check, run, held>>
      /\ faults' \in 0 .. MaxFaults
    BY <1>a, TypeAndFaults DEF Crash
<1>3. /\ cleanup' \in CleanupsT
      /\ \A k \in Cleanups, u \in Requests : cleanup'[k].plan[u] = NoSettings
    BY <1>2 DEF CleanupsT, PlansT, Stopped, Nobody
<1>4. TypeOK'
    BY <1>a, <1>1, <1>2, <1>3 DEF TypeOK, RequestsT, Pcs, CleanupsT, PlansT
<1>5. PlanWasHeld'
    BY <1>3 DEF PlanWasHeld
<1>6. QED
    BY <1>1, <1>4, <1>5 DEF AccountsInv, Registered

LEMMA StepInv == AccountsInv /\ [Next]_vars => AccountsInv'
<1> SUFFICES ASSUME AccountsInv, [Next]_vars PROVE AccountsInv'
    OBVIOUS
<1>1. CASE UNCHANGED vars
    BY <1>1 DEF vars, AccountsInv, TypeOK, RequestInHand, OneAccountPerEmail, ConflictIsTrue,
                Taken, RegisteredIsWhole, PlanWasHeld
<1>2. CASE Next
    BY <1>2, RegistrationKeepsInv, SettingsKeepInv, StoringKeepsInv, CleanupKeepsInv,
       CrashKeepsInv, Numbers DEF Next
<1>3. QED
    BY <1>1, <1>2

\* One account to an address, 409 only where there is one, an account that is whole
\* when its owner is told of it, and cleanups that use no window its owner has not had
\* since they began: for any number of requests, addresses, windows and cleanups,
\* whatever fails in between.
THEOREM AccountsSafe == Spec => []AccountsInv
<1>1. Init => AccountsInv
    BY InitInv
<1>2. AccountsInv /\ [Next]_vars => AccountsInv'
    BY StepInv
<1>3. QED
    BY <1>1, <1>2, PTL DEF Spec

-----------------------------------------------------------------------------

Deletes(u) == check[u] # Gone /\ check'[u] = Gone

LEMMA OnlyCleanupDeletes ==
    ASSUME TypeOK, NEW u \in Requests, Deletes(u), Next
    PROVE  \E k \in Cleanups : DeleteChecks(k)
<1>1. CASE \E v \in Requests : StoreCheck(v)
    BY <1>1, Numbers DEF StoreCheck, Deletes, TypeOK
<1>2. CASE Day
    <2>1. check[u] \in Ages /\ check'[u] = Older(check[u])
        BY <1>2 DEF Day, Deletes, TypeOK
    <2>2. MaxAge \in Nat
        BY AccountsAssumption, Zenon
    <2>3. check'[u] # Gone
        BY <2>1, <2>2, SMT DEF Older, Ages, Gone
    <2>4. QED
        BY <2>3 DEF Deletes
<1>3. CASE check' = check
    BY <1>3 DEF Deletes
<1>4. QED
    BY <1>1, <1>2, <1>3
       DEF Next, Register, Exists, CreateUser, CreateSettings, GetSettings, UpdateSettings,
           StoreRun, ReadSettings, CleanupStep, ChecksDone, DeleteRuns, CleanupFails,
           RegistrationFails, Crash

LEMMA DeletesExpired ==
    ASSUME AccountsInv, NEW u \in Requests, Deletes(u), Next
    PROVE  \E k \in Cleanups : \E w \in held[k][u] : check[u] > w
<1>a. TypeOK /\ PlanWasHeld
    BY DEF AccountsInv
<1>1. PICK k \in Cleanups : DeleteChecks(k)
    BY <1>a, OnlyCleanupDeletes
<1>2. PICK w \in Windows :
          check' = [v \in Requests |->
                       IF v \in {x \in Requests : cleanup[k].plan[x] = w} /\ check[v] > w
                       THEN Gone ELSE check[v]]
    BY <1>1 DEF DeleteChecks
<1>3. cleanup[k].plan[u] = w /\ check[u] > w
    BY <1>2 DEF Deletes
<1>4. w \in held[k][u]
    BY <1>a, <1>3, Numbers DEF PlanWasHeld
<1>5. QED
    BY <1>3, <1>4

\* A health check is deleted only when it is older than a window that its owner has had
\* since the cleanup that deletes it read the settings, with any number of cleanups
\* and of changes of mind in between.
THEOREM OnlyExpired == Spec => OnlyExpiredDeleted
<1>1. AccountsInv /\ [Next]_vars =>
          [\A u \in Requests :
              check[u] # Gone /\ check'[u] = Gone =>
                  \E k \in Cleanups : \E w \in held[k][u] : check[u] > w]_vars
    <2> SUFFICES ASSUME AccountsInv, Next, NEW u \in Requests, Deletes(u)
                 PROVE  \E k \in Cleanups : \E w \in held[k][u] : check[u] > w
        BY DEF Deletes
    <2>1. QED
        BY DeletesExpired
<1>2. QED
    BY <1>1, AccountsSafe, PTL DEF Spec, OnlyExpiredDeleted

=============================================================================
