-------------------------- MODULE HealthProbe_proofs --------------------------
(***************************************************************************)
(* A probe never connects to an address that is not public, never makes    *)
(* more requests than its redirects allow, and reports the whole time it   *)
(* has measured, for any URLs, DNS answers, limits and timeouts.           *)
(***************************************************************************)
EXTENDS HealthProbe, TLAPS

LEMMA FailureType ==
    ASSUME NEW type \in ErrorTypes \union {"none"}, NEW time \in Nat
    PROVE  /\ Failure(type) \in Outcome /\ ~Failure(type).timed
           /\ TimedFailure(type, time) \in Outcome
           /\ ~TimedFailure(type, time).success
           /\ TimedFailure(type, time).time = time
BY DEF Failure, TimedFailure, Outcome

\* A probe starts in the invariant.
LEMMA InitInv == Init => ProbeInv
<1> SUFFICES ASSUME Init PROVE ProbeInv
    OBVIOUS
<1>1. outcome \in Outcome /\ ~outcome.timed
    BY FailureType, 0 \in Nat DEF Init
<1>2. TypeOK
    BY <1>1, ProbeAssumption DEF Init, TypeOK
<1> QED
    BY <1>2 DEF Init, ProbeInv, GuardHolds, TimeIsWhole

\* The URL the guard accepts parses, and if it is an address it is a public one.
LEMMA AllowedIsPublic ==
    ASSUME NEW u, AssertAllowed(u)
    PROVE  u \in Urls /\ (u \in Literals => dns[u] \subseteq Public)
BY DEF AssertAllowed, Parses

\* The outcome of an answered request, and where it leads.
LEMMA AnsweredTypes ==
    ASSUME TypeOK, pc = "answer",
           NEW code \in Codes, NEW location \in Urls \union {NoUrl},
           NEW time \in Nat, NEW cert \in Urls \union {NoUrl},
           Answered(code, location, time, cert)
    PROVE  /\ pc' \in {"reassert", "done"}
           /\ outcome' \in Outcome
           /\ next' \in Urls \union {NoUrl}
           /\ pc' = "reassert" => redirects < MaxRedirects
           /\ pc' = "done" /\ outcome'.timed =>
                 /\ outcome'.time = time
                 /\ outcome'.success => (outcome'.status = "SLOW" <=> time > SlowThreshold)
<1>1. CASE code \in {"success", "noLocation"}
  <2>1. /\ pc' = "done" /\ next' = next
        /\ outcome' = [success |-> TRUE, status |-> DecideStatus(TRUE, time),
                       errorType |-> "none", timed |-> TRUE, time |-> time, tls |-> cert]
    BY <1>1 DEF Answered, Done
  <2>2. /\ DecideStatus(TRUE, time) \in {"ONLINE", "SLOW", "OFFLINE"}
        /\ DecideStatus(TRUE, time) = "SLOW" <=> time > SlowThreshold
    BY DEF DecideStatus
  <2> HIDE DEF DecideStatus
  <2> QED
    BY <2>1, <2>2 DEF Outcome, TypeOK
<1>2. CASE code \in {"clientError", "serverError"}
  <2> DEFINE type == IF code = "clientError" THEN "HTTP_ERROR" ELSE "SERVER_ERROR"
  <2>1. /\ pc' = "done" /\ next' = next
        /\ outcome' = [success |-> FALSE, status |-> DecideStatus(FALSE, time),
                       errorType |-> type, timed |-> TRUE, time |-> time, tls |-> cert]
    BY <1>2 DEF Answered, Done
  <2>2. DecideStatus(FALSE, time) = "OFFLINE" /\ type \in ErrorTypes
    BY DEF DecideStatus, ErrorTypes
  <2> HIDE DEF type
  <2> QED
    BY <2>1, <2>2 DEF Outcome, TypeOK
<1>3. CASE code = "redirect" /\ AtRedirects
  <2>1. pc' = "done" /\ next' = next /\ outcome' = TimedFailure("HTTP_ERROR", time)
    BY <1>3 DEF Answered, Done
  <2>2. "HTTP_ERROR" \in ErrorTypes
    BY DEF ErrorTypes
  <2> QED
    BY <2>1, <2>2, FailureType DEF TypeOK
<1>4. CASE code = "redirect" /\ ~AtRedirects
  <2>1. pc' = "reassert" /\ next' = location /\ outcome' = outcome
    BY <1>4 DEF Answered
  <2>2. redirects < MaxRedirects
    BY <1>4, ProbeAssumption DEF TypeOK, AtRedirects
  <2> QED
    BY <2>1, <2>2 DEF TypeOK
<1> QED
    BY <1>1, <1>2, <1>3, <1>4 DEF Codes

\* Every step keeps the invariant.
LEMMA StepInv == ProbeInv /\ [Next]_vars => ProbeInv'
<1> SUFFICES ASSUME ProbeInv, [Next]_vars PROVE ProbeInv'
    OBVIOUS
<1> USE ProbeAssumption
<1>a. TypeOK
    BY DEF ProbeInv
<1>b. \A type \in ErrorTypes :
         /\ Failure(type) \in Outcome /\ ~Failure(type).timed
         /\ TimedFailure(type, total) \in Outcome
         /\ ~TimedFailure(type, total).success
         /\ TimedFailure(type, total).time = total
    BY <1>a, FailureType DEF TypeOK
<1>1. CASE Assert
  <2>1. CASE AssertAllowed(url) /\ Request /\ UNCHANGED outcome
    <3>1. url \in Literals => dns[url] \subseteq Public
        BY <2>1, AllowedIsPublic
    <3> QED
        BY <1>1, <2>1, <3>1
        DEF Assert, Request, ProbeInv, TypeOK, GuardHolds, TimeIsWhole, probe, budget
  <2>2. CASE Done(Failure("BLOCKED_URL")) /\ UNCHANGED <<request, requests>>
    <3>1. outcome' \in Outcome /\ ~outcome'.timed
        BY <1>b, <2>2 DEF Done, ErrorTypes
    <3> QED
        BY <1>1, <2>2, <3>1
        DEF Assert, Done, ProbeInv, TypeOK, GuardHolds, TimeIsWhole, probe, request, budget
  <2> QED
    BY <1>1, <2>1, <2>2 DEF Assert
<1>2. CASE Connect
  <2>1. PICK A \in LookedUp(url) : /\ url \in Literals \/ A \subseteq Public
                                   /\ \E a \in A : reached' = reached \union {a}
    BY <1>2 DEF Connect
  <2>2. A \subseteq dns[url]
    BY DEF LookedUp
  <2>3. A \subseteq Public
    BY <1>2, <2>1, <2>2 DEF Connect, ProbeInv
  <2>4. reached' \subseteq Public
    BY <2>1, <2>3 DEF ProbeInv, GuardHolds
  <2> QED
    BY <1>2, <2>4
    DEF Connect, ProbeInv, TypeOK, GuardHolds, TimeIsWhole, probe, budget
<1>3. CASE LookupFails
  <2>1. /\ pc' = "done" /\ outcome' \in Outcome /\ ~outcome'.timed
    BY <1>3, <1>b DEF LookupFails, Done, ErrorTypes
  <2> QED
    BY <1>3, <2>1
    DEF LookupFails, ProbeInv, TypeOK, GuardHolds, TimeIsWhole, probe, request, budget, history
<1>4. CASE Fails \/ TimesOut
  <2>1. /\ pc' = "done" /\ outcome' \in Outcome /\ ~outcome'.timed
        /\ pc \in {"request", "answer"}
        /\ UNCHANGED <<probe, request, dns, budget, history>>
    BY <1>4, <1>b DEF Fails, TimesOut, Done, ErrorTypes
  <2> QED
    BY <2>1
    DEF ProbeInv, TypeOK, GuardHolds, TimeIsWhole, probe, request, budget, history
<1>5. CASE Answers
  <2>1. PICK code \in Codes, location \in Urls \union {NoUrl}, cert \in Urls \union {NoUrl} :
           Respond(code, location, cert)
    BY <1>5 DEF Answers
  <2>2. /\ pc = "answer" /\ total' = total + elapsed /\ elapsed' = 0
        /\ tls' \in Urls \union {NoUrl}
        /\ Answered(code, location, total', tls')
        /\ uncertified' \subseteq Urls
        /\ UNCHANGED <<configured, url, redirects, idle, dns, budget, reached, requests, spent>>
    BY <2>1, <1>a DEF Respond, WholeTime, FirstCertificate, TypeOK
  <2>3. total' \in Nat /\ total' = spent
    BY <2>2, <1>a DEF TypeOK, ProbeInv
  <2>4. /\ pc' \in {"reassert", "done"}
        /\ outcome' \in Outcome
        /\ next' \in Urls \union {NoUrl}
        /\ pc' = "reassert" => redirects < MaxRedirects
        /\ pc' = "done" /\ outcome'.timed =>
              /\ outcome'.time = total'
              /\ outcome'.success => (outcome'.status = "SLOW" <=> total' > SlowThreshold)
    BY <2>2, <2>3, <1>a, AnsweredTypes
  <2>5. TypeOK'
    BY <1>a, <2>2, <2>3, <2>4 DEF TypeOK, budget
  <2>6. TimeIsWhole'
    BY <2>2, <2>3, <2>4 DEF TimeIsWhole
  <2> QED
    BY <2>2, <2>3, <2>4, <2>5, <2>6 DEF ProbeInv, GuardHolds, TypeOK
<1>6. CASE Follow
  <2>1. next \in Urls /\ (next \in Literals => dns[next] \subseteq Public)
    BY <1>6, AllowedIsPublic DEF Follow
  <2>2. redirects + 1 \in 0 .. MaxRedirects
    BY <1>6, <1>a DEF Follow, ProbeInv, TypeOK
  <2> QED
    BY <1>6, <2>1, <2>2
    DEF Follow, Request, ProbeInv, TypeOK, GuardHolds, TimeIsWhole, budget
<1>7. CASE RefuseRedirect
  <2>1. /\ pc' = "done" /\ outcome' \in Outcome /\ ~outcome'.success
        /\ outcome'.time = total
    BY <1>7, <1>b DEF RefuseRedirect, Done, ErrorTypes
  <2> QED
    BY <1>7, <2>1
    DEF RefuseRedirect, ProbeInv, TypeOK, GuardHolds, TimeIsWhole, probe, request, budget, history
<1>8. CASE Tick
    BY <1>8 DEF Tick, ProbeInv, TypeOK, GuardHolds, TimeIsWhole, probe, budget
<1>9. CASE Trickle
    BY <1>9 DEF Trickle, ProbeInv, TypeOK, GuardHolds, TimeIsWhole, probe, history
<1>10. CASE \E u \in Urls, A \in SUBSET Addresses : Rebind(u, A)
  <2>1. PICK u \in Urls, A \in SUBSET Addresses : Rebind(u, A)
    BY <1>10
  <2>2. dns' \in [Urls -> SUBSET Addresses] /\ \A l \in Literals : dns'[l] = dns[l]
    BY <2>1, <1>a DEF Rebind, TypeOK
  <2> QED
    BY <2>1, <2>2
    DEF Rebind, ProbeInv, TypeOK, GuardHolds, TimeIsWhole, probe, request, history
<1>11. CASE UNCHANGED vars
    BY <1>11
    DEF vars, ProbeInv, TypeOK, GuardHolds, TimeIsWhole, probe, request, budget, history
<1> QED
    BY <1>1, <1>2, <1>3, <1>4, <1>5, <1>6, <1>7, <1>8, <1>9, <1>10, <1>11 DEF Next, Step

\* ProbeInv holds in every state of a probe.
THEOREM Probing == Spec => []ProbeInv
<1> QED
    BY InitInv, StepInv, PTL DEF Spec

\* No socket is ever connected to an address that is not public, although DNS may
\* answer differently each time it is asked.
THEOREM OnlyPublicAddresses == Spec => []GuardHolds
<1>1. ProbeInv => GuardHolds
    BY DEF ProbeInv
<1> QED
    BY <1>1, Probing, PTL

\* One request, and one more for each redirect the limit allows.
THEOREM RedirectsAreLimited == Spec => []RequestsBounded
<1>1. ProbeInv => RequestsBounded
    BY ProbeAssumption DEF ProbeInv, RequestsBounded, TypeOK
<1> QED
    BY <1>1, Probing, PTL

\* A reported response time is the sum over every hop, and SLOW is judged on it.
THEOREM HopsAreSummed == Spec => []TimeIsWhole
<1>1. ProbeInv => TimeIsWhole
    BY DEF ProbeInv
<1> QED
    BY <1>1, Probing, PTL

-----------------------------------------------------------------------------
(* The certificate.                                                        *)

\* What an answer does to the certificate held, and to the one reported.
LEMMA AnsweredCertificate ==
    ASSUME TypeOK, NEW code, NEW location, NEW cert, Respond(code, location, cert), code \in Codes
    PROVE  /\ tls' = FirstCertificate(cert) /\ cert \in {url, NoUrl}
           /\ cert = NoUrl => url \in uncertified'
           /\ uncertified \subseteq uncertified'
           /\ pc' \in {"done", "reassert"}
           /\ pc' = "done" => outcome'.tls \in {tls', NoUrl}
           /\ pc = "answer" /\ UNCHANGED <<configured, url, redirects>>
<1>1. /\ pc = "answer" /\ cert \in Certificates /\ tls' = FirstCertificate(cert)
      /\ Answered(code, location, total', tls')
      /\ uncertified' = IF cert = NoUrl THEN uncertified \union {url} ELSE uncertified
      /\ UNCHANGED <<configured, url, redirects>>
    BY DEF Respond
<1>2. cert \in {url, NoUrl}
    BY <1>1 DEF Certificates
<1>3. /\ pc' \in {"done", "reassert"}
      /\ pc' = "done" => outcome'.tls \in {tls', NoUrl}
  <2>1. CASE code \in {"success", "noLocation"}
    <3>1. /\ pc' = "done"
          /\ outcome' = [success |-> TRUE, status |-> DecideStatus(TRUE, total'),
                         errorType |-> "none", timed |-> TRUE, time |-> total', tls |-> tls']
      BY <1>1, <2>1 DEF Answered, Done
    <3> QED
      BY <3>1
  <2>2. CASE code \in {"clientError", "serverError"}
    <3>1. /\ pc' = "done"
          /\ outcome' = [success |-> FALSE, status |-> DecideStatus(FALSE, total'),
                         errorType |-> IF code = "clientError" THEN "HTTP_ERROR" ELSE "SERVER_ERROR",
                         timed |-> TRUE, time |-> total', tls |-> tls']
      BY <1>1, <2>2 DEF Answered, Done
    <3> QED
      BY <3>1
  <2>3. CASE code = "redirect"
    <3>1. pc' = "reassert" \/ (pc' = "done" /\ outcome' = TimedFailure("HTTP_ERROR", total'))
      BY <1>1, <2>3 DEF Answered, Done
    <3> QED
      BY <3>1 DEF TimedFailure
  <2> QED
    BY <2>1, <2>2, <2>3 DEF Codes
<1> QED
    BY <1>1, <1>2, <1>3

\* Every step keeps the first hop's claim and the report made of it.
LEMMA CertificateStep ==
    ASSUME ProbeInv, FirstHopIsOwn, CertificateIsOwn, [Next]_vars
    PROVE  FirstHopIsOwn' /\ CertificateIsOwn'
<1>a. TypeOK /\ redirects \in Nat /\ (pc = "assert" => redirects = 0)
    BY ProbeAssumption DEF ProbeInv, TypeOK
<1>1. CASE Assert
  <2>1. CASE Request
    BY <1>1, <1>a, <2>1 DEF Assert, Request, FirstHopIsOwn, CertificateIsOwn, probe
  <2>2. CASE Done(Failure("BLOCKED_URL"))
    BY <1>1, <2>2 DEF Assert, Done, Failure, FirstHopIsOwn, CertificateIsOwn
  <2> QED
    BY <1>1, <2>1, <2>2 DEF Assert
<1>2. CASE Connect
    BY <1>2 DEF Connect, FirstHopIsOwn, CertificateIsOwn, probe
<1>3. CASE LookupFails \/ Fails \/ TimesOut
    BY <1>3 DEF LookupFails, Fails, TimesOut, Done, Failure, FirstHopIsOwn, CertificateIsOwn
<1>4. CASE Answers
  <2>1. PICK code \in Codes, location \in Urls \union {NoUrl}, cert \in Urls \union {NoUrl} :
           Respond(code, location, cert)
    BY <1>4 DEF Answers
  <2>2. /\ tls' = FirstCertificate(cert) /\ cert \in {url, NoUrl}
        /\ cert = NoUrl => url \in uncertified'
        /\ uncertified \subseteq uncertified'
        /\ pc' \in {"done", "reassert"}
        /\ pc' = "done" => outcome'.tls \in {tls', NoUrl}
        /\ pc = "answer" /\ UNCHANGED <<configured, url, redirects>>
    BY <1>a, <2>1, AnsweredCertificate
  <2>3. tls' = configured' \/ configured' \in uncertified'
    <3>1. CASE redirects = 0
      BY <2>2, <3>1, NoUrlAssumption, <1>a DEF FirstHopIsOwn, FirstCertificate, TypeOK
    <3>2. CASE redirects > 0
      BY <2>2, <3>2, NoUrlAssumption, <1>a DEF FirstHopIsOwn, FirstCertificate, TypeOK
    <3> QED
      BY <1>a, <3>1, <3>2
  <2> QED
    BY <2>2, <2>3 DEF FirstHopIsOwn, CertificateIsOwn
<1>5. CASE Follow
    BY <1>5, <1>a DEF Follow, Request, FirstHopIsOwn, CertificateIsOwn
<1>6. CASE RefuseRedirect
    BY <1>6 DEF RefuseRedirect, Done, TimedFailure, FirstHopIsOwn, CertificateIsOwn
<1>7. CASE Tick \/ Trickle
    BY <1>7 DEF Tick, Trickle, FirstHopIsOwn, CertificateIsOwn, probe, history
<1>8. CASE \E u \in Urls, A \in SUBSET Addresses : Rebind(u, A)
    BY <1>8 DEF Rebind, FirstHopIsOwn, CertificateIsOwn, probe, history
<1>9. CASE UNCHANGED vars
    BY <1>9 DEF vars, probe, history, FirstHopIsOwn, CertificateIsOwn
<1> QED
    BY <1>1, <1>2, <1>3, <1>4, <1>5, <1>6, <1>7, <1>8, <1>9 DEF Next, Step

\* The certificate reported is the configured URL's unless that URL showed none: no hop
\* that follows can put its own in the place of the first.
THEOREM CertificateOfTheUrl == Spec => []CertificateIsOwn
<1>1. Init => FirstHopIsOwn /\ CertificateIsOwn
    BY DEF Init, Failure, FirstHopIsOwn, CertificateIsOwn
<1>2. ProbeInv /\ FirstHopIsOwn /\ CertificateIsOwn /\ [Next]_vars
         => FirstHopIsOwn' /\ CertificateIsOwn'
    BY CertificateStep
<1> QED
    BY <1>1, <1>2, Probing, PTL DEF Spec

=============================================================================
