-------------------------- MODULE CertificateWarnings --------------------------
(***************************************************************************)
(* The expiry warnings of one https site: the certificate that             *)
(* performRequest reads off its connection (healthCheck.service.ts),       *)
(* handleCertificate (ssl.service.ts) and the site update that checkSite   *)
(* folds its result into (monitoring.service.ts).                          *)
(*                                                                         *)
(* Days pass, certificates are replaced, and checks of the same site may   *)
(* overlap.  Each carries the sslWarnedAtDays of the document it was       *)
(* queued with to its last write.  The site's owner may switch expiry      *)
(* warnings off and on: notify() then returns without telling anyone, and  *)
(* its caller does not learn of it.  The expiry date and issuer, which are *)
(* only shown, are left out; so are the bookkeeping and the incident       *)
(* handling of checkSite, which are SiteMonitoring.                        *)
(***************************************************************************)
EXTENDS Integers, FiniteSets

CONSTANTS Checks,        \* checks of the site that can be in flight at once
          Bands,         \* SSL_WARNING_DAYS
          Lifetimes,     \* days a certificate is good for when it is put in place
          MaxRenewals,   \* bound: certificates that replace another
          MaxFaults      \* bound: failed database calls and restarts

ASSUME CertificateAssumption ==
    /\ Bands \subseteq Nat \ {0}
    /\ Lifetimes # {} /\ Lifetimes \subseteq Nat
    /\ MaxRenewals \in Nat /\ MaxFaults \in Nat

NoBand  == 0
Expired == -1            \* bound: days do not count below this
Certs   == 0 .. MaxRenewals
Days    == Nat \union {Expired}
BandOr0 == Bands \union {NoBand}

VARIABLES cert,          \* the certificate in place: the number of renewals so far
          days,          \* days it has left, rounded down
          warned,        \* sslWarnedAtDays of the site
          check,         \* per check: where it is, its snapshot and its observation
          muted,         \* the owner's onSslExpiry is off
          told,          \* per certificate and band: warnings announced, at most 2 counted
          withheld,      \* per certificate: bands that came due while the owner was muted
          vetted,        \* certificates a finished check has seen outside every band
          handled,       \* band of the last observation a finished check recorded of cert
          overlapped,    \* whether two checks have been in flight at once
          faults

vars == <<cert, days, warned, check, muted, told, withheld, vetted, handled, overlapped, faults>>

Check == [pc : {"idle", "handshake", "respond", "clear", "notify", "update"},
          known : BandOr0, cert : Certs, days : Days, write : BandOr0]

TypeOK ==
    /\ cert \in Certs
    /\ days \in Days
    /\ warned \in BandOr0
    /\ check \in [Checks -> Check]
    /\ muted \in BOOLEAN
    /\ told \in [Certs -> [Bands -> 0 .. 2]]
    /\ withheld \in [Certs -> SUBSET Bands]
    /\ vetted \subseteq Certs
    /\ handled \in BandOr0
    /\ overlapped \in BOOLEAN
    /\ faults \in 0 .. MaxFaults

Idle == [pc |-> "idle", known |-> NoBand, cert |-> 0, days |-> 0, write |-> NoBand]

Init ==
    /\ cert = 0
    /\ days \in Lifetimes
    /\ warned = NoBand
    /\ check = [c \in Checks |-> Idle]
    /\ muted = FALSE
    /\ told = [k \in Certs |-> [b \in Bands |-> 0]]
    /\ withheld = [k \in Certs |-> {}]
    /\ vetted = {}
    /\ handled = NoBand
    /\ overlapped = FALSE
    /\ faults = 0

history == <<told, withheld, vetted, handled, overlapped>>

-----------------------------------------------------------------------------
(* ssl.service.ts *)

\* the tightest threshold that has been crossed
BandFor(d) ==
    LET crossed == {b \in Bands : d <= b}
    IN  IF crossed = {} THEN NoBand ELSE CHOOSE b \in crossed : \A a \in crossed : b <= a

ShouldWarnAgain(d, known) ==      \* bug: <= instead of <
    LET band == BandFor(d)
    IN  band # NoBand /\ (known = NoBand \/ band <= known)

ShouldWarn(d, known) ==
    LET band == BandFor(d)
    IN  band # NoBand /\ (known = NoBand \/ band < known)

-----------------------------------------------------------------------------
(* A check *)

Goto(c, pc) == check' = [check EXCEPT ![c].pc = pc]

\* The site document is read (findDueSites, runManualCheck) and queued.
Queue(c) ==
    /\ check[c].pc = "idle"
    /\ check' = [check EXCEPT ![c] = [Idle EXCEPT !.pc = "handshake", !.known = warned]]
    /\ overlapped' = (overlapped \/ \E d \in Checks : check[d].pc # "idle")
    /\ UNCHANGED <<cert, days, warned, muted, told, withheld, vetted, handled, faults>>

\* The TLS handshake: a certificate out of date is refused by the transport, and
\* the outcome, a failed one, carries no certificate.
Handshake(c) ==
    /\ check[c].pc = "handshake"
    /\ check' = IF days = Expired THEN [check EXCEPT ![c] = Idle]
                ELSE [check EXCEPT ![c].pc = "respond", ![c].cert = cert, ![c].days = days]
    /\ UNCHANGED <<cert, days, warned, muted, history, faults>>

RespondRecords(c) ==      \* bug: sslWarnedAtDays is stored before the warning goes out
    LET x    == check[c]
        warn == ShouldWarn(x.days, x.known)
    IN  /\ x.pc = "respond"
        /\ check' = [check EXCEPT ![c].pc = IF warn THEN "notify" ELSE "update",
                                  ![c].write = IF warn THEN BandFor(x.days) ELSE x.known]
        /\ warned' = IF warn THEN BandFor(x.days) ELSE warned
        /\ UNCHANGED <<cert, days, muted, history, faults>>

RespondKeeps(c) ==        \* bug: a renewal leaves sslWarnedAtDays as it stands
    LET x    == check[c]
        warn == ShouldWarn(x.days, x.known)
    IN  /\ x.pc = "respond"
        /\ check' = [check EXCEPT ![c].pc = IF warn THEN "notify" ELSE "update",
                                  ![c].write = IF warn THEN BandFor(x.days) ELSE x.known]
        /\ UNCHANGED <<cert, days, warned, muted, history, faults>>

\* The response arrives, and handleCertificate decides, by the days the certificate
\* of the connection has left: up to its first await, or to its return.
Respond(c) ==
    LET x    == check[c]
        band == BandFor(x.days)
        warn == ShouldWarn(x.days, x.known)
    IN  /\ x.pc = "respond"
        /\ check' = [check EXCEPT
              ![c].pc = IF warn THEN "notify"
                        ELSE IF band = NoBand /\ x.known # NoBand THEN "clear" ELSE "update",
              ![c].write = IF warn THEN band ELSE IF band = NoBand THEN NoBand ELSE x.known]
        /\ UNCHANGED <<cert, days, warned, muted, history, faults>>

\* $unset of sslWarnedAtDays: the certificate has been renewed
Clear(c) ==
    /\ check[c].pc = "clear"
    /\ warned' = NoBand
    /\ Goto(c, "update")
    /\ UNCHANGED <<cert, days, muted, history, faults>>

\* notify() with SSL_EXPIRING or SSL_EXPIRED, to an owner who has onSslExpiry on, and
\* to one who has it off
Announce(c) ==
    LET x == check[c]
    IN  /\ ~muted
        /\ told' = [told EXCEPT ![x.cert][x.write] = IF @ < 2 THEN @ + 1 ELSE @]
        /\ UNCHANGED withheld

Withhold(c) ==
    LET x == check[c]
    IN  /\ muted
        /\ withheld' = [withheld EXCEPT ![x.cert] = @ \union {x.write}]
        /\ UNCHANGED told

Notify(c) ==
    /\ check[c].pc = "notify"
    /\ Announce(c) \/ Withhold(c)
    /\ Goto(c, "update")
    /\ UNCHANGED <<cert, days, warned, muted, vetted, handled, overlapped, faults>>

\* Site.updateOne with what handleCertificate returned folded in
Update(c) ==
    LET x == check[c]
    IN  /\ x.pc = "update"
        /\ warned' = IF x.write = NoBand THEN warned ELSE x.write
        /\ vetted' = IF BandFor(x.days) = NoBand THEN vetted \union {x.cert} ELSE vetted
        /\ handled' = IF x.cert = cert THEN BandFor(x.days) ELSE handled
        /\ check' = [check EXCEPT ![c] = Idle]
        /\ UNCHANGED <<cert, days, muted, told, withheld, overlapped, faults>>

CheckStep(c) ==
    Queue(c) \/ Handshake(c) \/ Respond(c) \/ Clear(c) \/ Notify(c) \/ Update(c)

-----------------------------------------------------------------------------
(* Around the checks *)

Earlier(d) == IF d = Expired THEN Expired ELSE d - 1

\* A day passes, also for the certificate a connection has already shown.
Day ==
    /\ days # Expired
    /\ days' = days - 1
    /\ check' = [c \in Checks |-> IF check[c].pc = "respond"
                                  THEN [check[c] EXCEPT !.days = Earlier(@)] ELSE check[c]]
    /\ UNCHANGED <<cert, warned, muted, history, faults>>

\* The certificate is replaced, early or late; a site that is given another URL, which
\* resets nothing of its record, is the same.
Renew(d) ==
    /\ cert < MaxRenewals
    /\ cert' = cert + 1
    /\ days' = d
    /\ handled' = NoBand
    /\ UNCHANGED <<warned, check, muted, told, withheld, vetted, overlapped, faults>>

\* The owner switches expiry warnings off or on (PATCH /api/settings).
Mute ==
    /\ muted' = ~muted
    /\ UNCHANGED <<cert, days, warned, check, history, faults>>

Fault == faults < MaxFaults /\ faults' = faults + 1

\* A database call of the check throws, the warning sent or not; checkSite's catch
\* touches nothing of the certificate record.
CallFails(c) ==
    /\ Fault
    /\ check[c].pc \in {"respond", "clear", "notify", "update"}
    /\ \/ UNCHANGED <<told, withheld>>
       \/ check[c].pc = "notify" /\ Announce(c)
    /\ check' = [check EXCEPT ![c] = Idle]
    /\ UNCHANGED <<cert, days, warned, muted, vetted, handled, overlapped>>

\* The process restarts.
Crash ==
    /\ Fault
    /\ check' = [c \in Checks |-> Idle]
    /\ UNCHANGED <<cert, days, warned, muted, history>>

Next ==
    \/ \E c \in Checks : CheckStep(c) \/ CallFails(c)
    \/ Day
    \/ \E d \in Lifetimes : Renew(d)
    \/ Mute
    \/ Crash

Spec == Init /\ [][Next]_vars

-----------------------------------------------------------------------------
(* Properties *)

\* Told, or kept from an owner who had expiry warnings off when the band came due.
Settled(k, b) == told[k][b] > 0 \/ b \in withheld[k]

\* The record never claims a warning that went missing: whatever overlaps, fails or
\* restarts, a band in sslWarnedAtDays has been announced, unless its owner had
\* switched expiry warnings off at that moment (ssl.test.ts:156-166).  The opposite
\* order of warning and record would lose the one warning of that band for good.
RecordIsHonest == warned # NoBand => \E k \in Certs : Settled(k, warned)

\* "At most once per band" (MONITORING.md:115), of one certificate, as long as
\* checks of the site do not overlap and none fails.
WarnedOncePerBand ==
    ~overlapped /\ faults = 0 => \A k \in Certs, b \in Bands : told[k][b] <= 1

\* "Renewing the certificate clears the record, so the next genuine approach is
\* announced again" (MONITORING.md:117-118): a certificate that was seen valid
\* beyond every band, and has since been recorded in one, has been announced in it or
\* in a tighter one, unless its owner had expiry warnings off when that one came due;
\* failed calls and restarts notwithstanding.
NextApproachAnnounced ==
    /\ ~overlapped
    /\ \A c \in Checks : check[c].pc = "idle"
    /\ cert \in vetted
    /\ handled # NoBand
    => \E b \in Bands : b <= handled /\ Settled(cert, b)

\* What the checks in flight hold: the part of RecordIsHonest the proof needs.
SnapshotsAreHonest ==
    \A c \in Checks :
        /\ check[c].known # NoBand => \E k \in Certs : Settled(k, check[c].known)
        /\ check[c].pc = "update" /\ check[c].write # NoBand =>
              \E k \in Certs : Settled(k, check[c].write)
        /\ check[c].pc = "notify" => check[c].write \in Bands
        /\ check[c].pc = "clear" => check[c].write = NoBand

\* The inductive invariant.
CertificateInv == TypeOK /\ RecordIsHonest /\ SnapshotsAreHonest

-----------------------------------------------------------------------------
(* The invariant of checks that do not overlap                             *)

Seen(c) == check[c].pc \in {"respond", "clear", "notify", "update"}

OneInFlight == \A c, d \in Checks : check[c].pc # "idle" /\ check[d].pc # "idle" => c = d

\* A check's snapshot is still the record; what it has seen is the certificate in
\* place, or one that was replaced by another of which nothing is known yet; and
\* what it writes follows from what it has seen.
SnapshotsAreFresh ==
    \A c \in Checks :
        LET x == check[c]
        IN  /\ x.pc \in {"handshake", "respond", "clear", "notify"} => x.known = warned
            /\ Seen(c) => /\ x.cert <= cert
                          /\ x.cert = cert => days <= x.days
                          /\ x.cert < cert =>
                                cert \notin vetted /\ \A b \in Bands : told[cert][b] = 0
            /\ x.pc = "clear" => BandFor(x.days) = NoBand
            /\ x.pc = "notify" => x.write = BandFor(x.days) /\ ShouldWarn(x.days, x.known)
            /\ x.pc = "update" /\ x.write = NoBand =>
                  warned = NoBand /\ BandFor(x.days) = NoBand
            /\ x.pc = "update" /\ x.write # NoBand =>
                  BandFor(x.days) # NoBand /\ x.write <= BandFor(x.days)

\* Nothing is known of certificates to come.
FutureUntouched ==
    \A k \in Certs : k > cert => k \notin vetted /\ \A b \in Bands : told[k][b] = 0

\* Of a certificate that was seen beyond every band, the record holds only what was
\* announced or withheld of it.
VettedIsAnnounced ==
    cert \in vetted =>
        /\ warned # NoBand => Settled(cert, warned)
        /\ handled # NoBand => \E b \in Bands : b <= handled /\ Settled(cert, b)
        /\ \A c \in Checks : check[c].pc = "update" /\ check[c].write # NoBand =>
              Settled(cert, check[c].write)

\* what a check goes by, and what it leaves
Known(c) == IF check[c].pc = "update" THEN check[c].write ELSE check[c].known

\* The bands announced of a certificate go down: each has been reached, and the
\* record is at the lowest.
BandsGoDown ==
    /\ \A k \in Certs, b \in Bands : told[k][b] <= 1
    /\ \A b \in Bands : told[cert][b] > 0 =>
          /\ days <= b
          /\ (\A c \in Checks : check[c].pc # "update") => warned # NoBand /\ warned <= b
    /\ \A c \in Checks, b \in Bands : Seen(c) /\ told[check[c].cert][b] > 0 =>
          check[c].days <= b /\ Known(c) # NoBand /\ Known(c) <= b

\* The inductive invariant of checks that do not overlap.
AloneInv ==
    ~overlapped =>
        /\ OneInFlight
        /\ SnapshotsAreFresh
        /\ FutureUntouched
        /\ VettedIsAnnounced
        /\ faults = 0 => BandsGoDown

=============================================================================
