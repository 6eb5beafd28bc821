----------------------------- MODULE HealthProbe -----------------------------
(***************************************************************************)
(* One run of runHealthCheck (healthCheck.service.ts): the guard on the    *)
(* URL (urlGuard.ts), one request per hop with its lookup, its idle        *)
(* timeout and its answer, redirects that are followed by hand, and the    *)
(* outcome the monitoring engine acts on.                                  *)
(*                                                                         *)
(* Every await is a step boundary, and what a name resolves to may change  *)
(* at any of them.  Time is counted in ticks.  A status code is the class  *)
(* the code puts it in, a name's DNS answer the set of its addresses.      *)
(* The module performs one probe: probes share nothing.                    *)
(***************************************************************************)
EXTENDS Naturals

CONSTANTS Urls,          \* what can be monitored or redirected to; each has a host of its own
          Secure,        \* the https ones
          Literals,      \* those whose host is an IP address: nothing is looked up
          Malformed,     \* those parseAllowedUrl refuses by their text alone
          Addresses,
          Public,        \* addresses of the range "unicast" that are not on the list
          MaxRedirects,  \* MONITOR_MAX_REDIRECTS
          Timeout,       \* timeoutSeconds of the site, in ticks
          SlowThreshold, \* slowThresholdMs of the site, in ticks
          MaxRebinds,    \* bound: times a DNS answer changes
          MaxTrickles    \* bound: times a server sends something short of its headers

ASSUME ProbeAssumption ==
    /\ Secure \subseteq Urls /\ Literals \subseteq Urls /\ Malformed \subseteq Urls
    /\ Public \subseteq Addresses
    /\ MaxRedirects \in Nat /\ Timeout \in Nat \ {0} /\ SlowThreshold \in Nat
    /\ MaxRebinds \in Nat /\ MaxTrickles \in Nat

NoUrl == "no URL"        \* a Location that does not parse, or no certificate
ASSUME NoUrlAssumption == NoUrl \notin Urls

VARIABLES pc,            \* the await runHealthCheck stands at
          configured,    \* rawUrl
          url,           \* current
          next,          \* the redirect target being validated
          redirects, total,
          tls,           \* tlsInfo: the URL whose certificate it is
          elapsed, idle, \* of the request: ticks since its start, since the socket's last activity
          outcome,
          dns,           \* what each host resolves to
          rebinds, trickles,
          reached,       \* history: addresses a socket was connected to
          requests,      \* history: calls of performRequest
          spent,         \* history: ticks during which a request was under way
          uncertified    \* history: URLs that answered without a readable certificate

probe   == <<configured, url, next, redirects, total, tls>>
request == <<elapsed, idle>>
budget  == <<rebinds, trickles>>
history == <<reached, requests, spent, uncertified>>
vars == <<pc, probe, request, outcome, dns, budget, history>>

ErrorTypes == {"TIMEOUT", "DNS_ERROR", "CONNECTION_ERROR", "HTTP_ERROR", "SERVER_ERROR",
               "BLOCKED_URL", "UNKNOWN"}
Codes      == {"success", "redirect", "noLocation", "clientError", "serverError"}

Outcome == [success : BOOLEAN, status : {"ONLINE", "SLOW", "OFFLINE"},
            errorType : ErrorTypes \union {"none"},
            timed : BOOLEAN, time : Nat,         \* responseTimeMs, if there is one
            tls : Urls \union {NoUrl}]

TypeOK ==
    /\ pc \in {"assert", "request", "answer", "reassert", "done"}
    /\ configured \in Urls /\ url \in Urls
    /\ next \in Urls \union {NoUrl}
    /\ redirects \in 0 .. MaxRedirects
    /\ total \in Nat /\ elapsed \in Nat /\ idle \in 0 .. Timeout
    /\ tls \in Urls \union {NoUrl}
    /\ outcome \in Outcome
    /\ dns \in [Urls -> SUBSET Addresses]
    /\ rebinds \in 0 .. MaxRebinds /\ trickles \in 0 .. MaxTrickles
    /\ reached \subseteq Addresses
    /\ requests \in Nat /\ spent \in Nat
    /\ uncertified \subseteq Urls

\* decideStatus: over the threshold is slow, at it is not
DecideStatus(success, time) ==
    IF ~success THEN "OFFLINE" ELSE IF time > SlowThreshold THEN "SLOW" ELSE "ONLINE"

\* failed returns, without and with a response time
Failure(type) ==
    [success |-> FALSE, status |-> "OFFLINE", errorType |-> type,
     timed |-> FALSE, time |-> 0, tls |-> NoUrl]

TimedFailure(type, time) ==
    [success |-> FALSE, status |-> "OFFLINE", errorType |-> type,
     timed |-> TRUE, time |-> time, tls |-> NoUrl]

Init ==
    /\ pc = "assert"
    /\ configured \in Urls /\ url = configured /\ next = NoUrl
    /\ redirects = 0 /\ total = 0 /\ tls = NoUrl
    /\ elapsed = 0 /\ idle = 0
    /\ outcome = Failure("none")
    /\ dns \in [Urls -> SUBSET Addresses]
    /\ \A u \in Literals : \E a \in Addresses : dns[u] = {a}
    /\ rebinds = 0 /\ trickles = 0
    /\ reached = {} /\ requests = 0 /\ spent = 0 /\ uncertified = {}

-----------------------------------------------------------------------------
(* The guard (urlGuard.ts)                                                 *)

\* parseAllowedUrl, which judges an address given literally
Parses(u) == u \in Urls \ Malformed /\ (u \in Literals => dns[u] \subseteq Public)

\* assertUrlAllowed: a name must resolve, and to public addresses only
AssertAllowed(u) == Parses(u) /\ (u \in Literals \/ (dns[u] # {} /\ dns[u] \subseteq Public))

\* What the socket is told to look up may be one address or all of them, and the
\* guard judges what it is told.
LookedUp(u) == {A \in SUBSET dns[u] : A = dns[u] \/ \E a \in dns[u] : A = {a}} \ {{}}

-----------------------------------------------------------------------------
(* runHealthCheck                                                          *)

Done(o) ==
    /\ pc' = "done"
    /\ outcome' = o

\* performRequest is called
Request ==
    /\ pc' = "request"
    /\ elapsed' = 0 /\ idle' = 0
    /\ requests' = requests + 1

\* assertUrlAllowed(rawUrl), done again at each check because DNS answers change
Assert ==
    /\ pc = "assert"
    /\ \/ /\ AssertAllowed(url)
          /\ Request
          /\ UNCHANGED outcome
       \/ /\ ~AssertAllowed(url)
          /\ Done(Failure("BLOCKED_URL"))
          /\ UNCHANGED <<request, requests>>
    /\ UNCHANGED <<probe, dns, budget, reached, spent, uncertified>>

ConnectUnguarded ==      \* bug: the transport's own lookup
    /\ pc = "request"
    /\ \E a \in dns[url] : reached' = reached \union {a}
    /\ pc' = "answer"
    /\ idle' = 0
    /\ UNCHANGED <<probe, elapsed, outcome, dns, budget, requests, spent, uncertified>>

\* The socket resolves the host through createGuardedLookup and connects, which is
\* activity; an IP address is connected to as it stands.
Connect ==
    /\ pc = "request"
    /\ \E A \in LookedUp(url) :
          /\ url \in Literals \/ A \subseteq Public
          /\ \E a \in A : reached' = reached \union {a}
    /\ pc' = "answer"
    /\ idle' = 0
    /\ UNCHANGED <<probe, elapsed, outcome, dns, budget, requests, spent, uncertified>>

\* The guarded lookup finds nothing, or refuses what it finds.
LookupFails ==
    /\ pc = "request"
    /\ url \notin Literals
    /\ \/ dns[url] = {} /\ Done(Failure("DNS_ERROR"))
       \/ /\ \E A \in LookedUp(url) : ~(A \subseteq Public)
          /\ Done(Failure("BLOCKED_URL"))
    /\ UNCHANGED <<probe, request, dns, budget, history>>

\* Connecting or the exchange fails; ETIMEDOUT is the operating system's.
Fails ==
    /\ pc \in {"request", "answer"}
    /\ \E type \in {"CONNECTION_ERROR", "UNKNOWN", "TIMEOUT"} : Done(Failure(type))
    /\ UNCHANGED <<probe, request, dns, budget, history>>

TimesOutConnecting ==    \* bug: the timer is cleared when the socket connects
    /\ pc = "request"
    /\ idle = Timeout
    /\ Done(Failure("TIMEOUT"))
    /\ UNCHANGED <<probe, request, dns, budget, history>>

\* The request's 'timeout' event: the socket has been idle for timeoutMs.
TimesOut ==
    /\ pc \in {"request", "answer"}
    /\ idle = Timeout
    /\ Done(Failure("TIMEOUT"))
    /\ UNCHANGED <<probe, request, dns, budget, history>>

\* readCertificate: an https answer has the certificate of the URL or none it can read
Certificates == IF url \in Secure THEN {url, NoUrl} ELSE {NoUrl}

AtRedirects == redirects >= MaxRedirects

\* What follows from an answer: the outcome, or the validation of a redirect.
Answered(code, location, time, cert) ==
    \/ /\ code \in {"success", "noLocation"}
       /\ Done([success |-> TRUE, status |-> DecideStatus(TRUE, time), errorType |-> "none",
                timed |-> TRUE, time |-> time, tls |-> cert])
       /\ UNCHANGED next
    \/ /\ code \in {"clientError", "serverError"}
       /\ Done([success |-> FALSE, status |-> DecideStatus(FALSE, time),
                errorType |-> IF code = "clientError" THEN "HTTP_ERROR" ELSE "SERVER_ERROR",
                timed |-> TRUE, time |-> time, tls |-> cert])
       /\ UNCHANGED next
    \/ /\ code = "redirect" /\ AtRedirects
       /\ Done(TimedFailure("HTTP_ERROR", time))
       /\ UNCHANGED next
    \/ /\ code = "redirect" /\ ~AtRedirects
       /\ pc' = "reassert"
       /\ next' = location
       /\ UNCHANGED outcome

LastTime  == elapsed             \* bug: the last hop's time
WholeTime == total + elapsed

LastCertificate(cert)  == IF cert = NoUrl THEN tls ELSE cert      \* bug: the last one read
FirstCertificate(cert) == IF tls = NoUrl THEN cert ELSE tls

\* The headers arrive: the time is added, the first certificate kept.
Respond(code, location, cert) ==
    /\ pc = "answer"
    /\ cert \in Certificates
    /\ code # "redirect" => location = NoUrl          \* it is not read
    /\ total' = WholeTime
    /\ tls' = FirstCertificate(cert)
    /\ Answered(code, location, total', tls')
    /\ elapsed' = 0
    /\ uncertified' = IF cert = NoUrl THEN uncertified \union {url} ELSE uncertified
    /\ UNCHANGED <<configured, url, redirects, idle, dns, budget, reached, requests, spent>>

\* assertRedirectAllowed accepts the target: round the loop with it
Follow ==
    /\ pc = "reassert"
    /\ AssertAllowed(next)
    /\ url' = next
    /\ redirects' = redirects + 1
    /\ Request
    /\ UNCHANGED <<configured, next, total, tls, outcome, dns, budget, reached, spent, uncertified>>

\* or refuses it
RefuseRedirect ==
    /\ pc = "reassert"
    /\ ~AssertAllowed(next)
    /\ Done(TimedFailure("BLOCKED_URL", total))
    /\ UNCHANGED <<probe, request, dns, budget, history>>

-----------------------------------------------------------------------------
(* The world                                                               *)

\* A tick passes during a request; the timeout is due when the idle time is up.
Tick ==
    /\ pc \in {"request", "answer"}
    /\ idle < Timeout
    /\ elapsed' = elapsed + 1 /\ idle' = idle + 1
    /\ spent' = spent + 1
    /\ UNCHANGED <<pc, probe, outcome, dns, budget, reached, requests, uncertified>>

\* The server sends part of its headers: the socket is not idle.
Trickle ==
    /\ pc = "answer"
    /\ trickles < MaxTrickles
    /\ trickles' = trickles + 1
    /\ idle' = 0
    /\ UNCHANGED <<pc, probe, elapsed, outcome, dns, rebinds, history>>

\* A name resolves to something else, or to nothing.
Rebind(u, A) ==
    /\ pc # "done"
    /\ rebinds < MaxRebinds
    /\ u \notin Literals
    /\ rebinds' = rebinds + 1
    /\ dns' = [dns EXCEPT ![u] = A]
    /\ UNCHANGED <<pc, probe, request, outcome, trickles, history>>

Answers == \E code \in Codes, location \in Urls \union {NoUrl}, cert \in Urls \union {NoUrl} :
               Respond(code, location, cert)

Step == Assert \/ Connect \/ LookupFails \/ Fails \/ TimesOut \/ Answers \/ Follow \/ RefuseRedirect

Next ==
    \/ Step \/ Tick \/ Trickle
    \/ \E u \in Urls, A \in SUBSET Addresses : Rebind(u, A)

Spec == Init /\ [][Next]_vars

\* The lookup of a validation is answered, clocks go on and timers fire.  No server
\* is assumed to accept a connection or to answer.
FairSpec ==
    /\ Spec
    /\ WF_vars(Assert) /\ WF_vars(Follow) /\ WF_vars(RefuseRedirect)
    /\ WF_vars(Tick) /\ WF_vars(TimesOut)

-----------------------------------------------------------------------------
(* Properties *)

\* "The address checked is the address connected to" (SECURITY-SSRF.md:107-108): no
\* probe connects to an address that is not public, however the answers of DNS
\* change between the validations of a hop and its connection.
GuardHolds == reached \subseteq Public

\* Redirects are followed to the limit and no further: never more requests than the
\* limit and one, whatever chain or loop the servers make up.
RequestsBounded == requests <= MaxRedirects + 1

\* "Across redirects, the times for all hops are summed" (MONITORING.md:52-54): an
\* outcome that reports a time reports all of it, a given-up chain's included, and
\* its status is decided on that.
TimeIsWhole ==
    pc = "done" /\ outcome.timed =>
        /\ outcome.time = spent
        /\ outcome.success => (outcome.status = "SLOW" <=> spent > SlowThreshold)

\* "The certificate from the first https hop is kept.  That is the URL the user
\* configured" (MONITORING.md:123-125): another site's certificate is reported only
\* if the configured URL has shown none.
CertificateIsOwn ==
    pc = "done" /\ outcome.tls \notin {NoUrl, configured} => configured \in uncertified

\* "Times out rather than waiting indefinitely" (healthCheck.test.ts:153): every
\* probe ends, whatever the servers do, as long as none trickles its headers for ever.
ProbeEnds == <>(pc = "done")

\* The part of CertificateIsOwn the proof needs: the configured URL is the first to be
\* requested, and from its answer on its certificate is held or known to be missing.
FirstHopIsOwn ==
    /\ pc = "assert" \/ (pc \in {"request", "answer"} /\ redirects = 0) =>
          url = configured /\ tls = NoUrl
    /\ pc = "reassert" \/ (pc \in {"request", "answer"} /\ redirects > 0) =>
          tls = configured \/ configured \in uncertified

\* The inductive invariant: what was connected to was public, and so is the address
\* of a literal that is being requested; the counters go with one another, the time
\* of a hop being counted in total once it is answered.
ProbeInv ==
    /\ TypeOK
    /\ GuardHolds
    /\ pc \in {"request", "answer"} /\ url \in Literals => dns[url] \subseteq Public
    /\ pc = "assert" => redirects = 0 /\ requests = 0
    /\ pc = "reassert" => redirects < MaxRedirects
    /\ requests <= redirects + 1
    /\ spent = total + elapsed
    /\ pc \in {"assert", "reassert"} => elapsed = 0
    /\ TimeIsWhole

=============================================================================
