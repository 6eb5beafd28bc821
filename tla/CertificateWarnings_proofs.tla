----------------------- MODULE CertificateWarnings_proofs -----------------------
(***************************************************************************)
(* Theorems of CertificateWarnings, for any warning thresholds, lifetimes  *)
(* and number of overlapping checks.                                       *)
(*                                                                         *)
(* A band enters the record only from a check's hands, and a check's hands *)
(* hold a band only when it has just been announced, or withheld from an   *)
(* owner who wants no such warnings, or was read from the record: honesty  *)
(* of the record and of the snapshots go together.                         *)
(***************************************************************************)
EXTENDS CertificateWarnings, WellFoundedInduction, TLAPS

\* Every set of bands that is not empty has a tightest one.
LEMMA TightestExists ==
    ASSUME NEW T \in SUBSET Bands, T # {}
    PROVE  \E b \in T : \A a \in T : b <= a
<1>1. IsWellFoundedOn(OpToRel(<, Nat), Nat)
    BY NatLessThanWellFounded
<1>2. T \subseteq Nat
    BY CertificateAssumption
<1>3. PICK b \in T : \A a \in T : ~ (<<a, b>> \in OpToRel(<, Nat))
    BY <1>1, <1>2, WFMin
<1>4. \A a \in T : ~ (a < b)
    BY <1>2, <1>3 DEF OpToRel
<1> QED
    BY <1>2, <1>4

\* The band of any number of days is a threshold, or none.
LEMMA BandForRange == ASSUME NEW d \in Days PROVE BandFor(d) \in BandOr0
<1> DEFINE crossed == {b \in Bands : d <= b}
<1>1. CASE crossed = {}
    BY <1>1 DEF BandFor, BandOr0
<1>2. CASE crossed # {}
  <2>1. \E b \in crossed : \A a \in crossed : b <= a
    BY <1>2, TightestExists
  <2>2. BandFor(d) = CHOOSE b \in crossed : \A a \in crossed : b <= a
    BY <1>2 DEF BandFor
  <2>3. BandFor(d) \in crossed
    BY <2>1, <2>2
  <2> QED
    BY <2>3 DEF BandOr0
<1> QED
    BY <1>1, <1>2

LEMMA InitInv == Init => CertificateInv
<1> SUFFICES ASSUME Init PROVE CertificateInv
    OBVIOUS
<1>1. Idle \in Check
    BY CertificateAssumption DEF Idle, Check, BandOr0, Certs, Days
<1>2. TypeOK
  <2>1. /\ cert \in Certs /\ days \in Days /\ warned \in BandOr0
        /\ muted \in BOOLEAN /\ vetted \subseteq Certs
        /\ handled \in BandOr0 /\ overlapped \in BOOLEAN /\ faults \in 0 .. MaxFaults
    <3>1. cert \in Certs /\ faults \in 0 .. MaxFaults
      BY CertificateAssumption DEF Init, Certs
    <3>2. days \in Days
      BY CertificateAssumption DEF Init, Days
    <3>3. warned \in BandOr0 /\ handled \in BandOr0
      BY DEF Init, BandOr0
    <3>4. muted \in BOOLEAN /\ vetted \subseteq Certs /\ overlapped \in BOOLEAN
      BY DEF Init
    <3> QED
      BY <3>1, <3>2, <3>3, <3>4
  <2>2. check \in [Checks -> Check]
    BY <1>1 DEF Init
  <2>3. told \in [Certs -> [Bands -> 0 .. 2]] /\ withheld \in [Certs -> SUBSET Bands]
    BY DEF Init
  <2> QED
    BY <2>1, <2>2, <2>3 DEF TypeOK
<1>3. RecordIsHonest
    BY DEF Init, RecordIsHonest
<1>4. SnapshotsAreHonest
    BY DEF Init, SnapshotsAreHonest, Idle
<1> QED
    BY <1>2, <1>3, <1>4 DEF CertificateInv

\* The announcement counts up one counter and takes none back.
LEMMA AnnounceTypes ==
    ASSUME TypeOK, NEW c \in Checks, check[c].write \in Bands, Announce(c)
    PROVE  /\ told' \in [Certs -> [Bands -> 0 .. 2]]
           /\ told'[check[c].cert][check[c].write] > 0
           /\ \A k \in Certs, b \in Bands : told[k][b] > 0 => told'[k][b] > 0
<1> DEFINE k == check[c].cert
           w == check[c].write
           n == IF told[k][w] < 2 THEN told[k][w] + 1 ELSE told[k][w]
<1>1. k \in Certs /\ w \in Bands
    BY DEF TypeOK, Check
<1>2. told[k] \in [Bands -> 0 .. 2] /\ told[k][w] \in 0 .. 2
    BY <1>1 DEF TypeOK
<1>3. n \in 0 .. 2 /\ n > 0
    BY <1>2
<1>4. told' = [told EXCEPT ![k] = [told[k] EXCEPT ![w] = n]]
    BY DEF Announce
<1>5. [told[k] EXCEPT ![w] = n] \in [Bands -> 0 .. 2]
    BY <1>2, <1>3
<1> HIDE DEF n
<1>6. told' \in [Certs -> [Bands -> 0 .. 2]]
    BY <1>4, <1>5 DEF TypeOK
<1>7. told'[k][w] = n
    BY <1>1, <1>2, <1>4 DEF TypeOK
<1>8. \A j \in Certs, b \in Bands : told[j][b] > 0 => told'[j][b] > 0
    BY <1>1, <1>2, <1>3, <1>4 DEF TypeOK
<1> QED
    BY <1>3, <1>6, <1>7, <1>8

\* Whether the owner is told or muted, the band is settled, and what was settled stays so.
LEMMA NotifySettles ==
    ASSUME TypeOK, NEW c \in Checks, Announce(c) \/ Withhold(c),
           NEW k \in Certs, NEW w \in Bands, check[c].cert = k, check[c].write = w
    PROVE  /\ told' \in [Certs -> [Bands -> 0 .. 2]]
           /\ withheld' \in [Certs -> SUBSET Bands]
           /\ Settled(k, w)'
           /\ \A j \in Certs, b \in Bands : Settled(j, b) => Settled(j, b)'
<1>2. CASE Announce(c)
  <2>1. /\ told' \in [Certs -> [Bands -> 0 .. 2]]
        /\ told'[k][w] > 0
        /\ \A j \in Certs, b \in Bands : told[j][b] > 0 => told'[j][b] > 0
    BY <1>2, AnnounceTypes
  <2>2. withheld' = withheld
    BY <1>2 DEF Announce
  <2> QED
    BY <2>1, <2>2 DEF TypeOK, Settled
<1>3. CASE Withhold(c)
  <2>1. told' = told /\ withheld' = [withheld EXCEPT ![k] = withheld[k] \union {w}]
    BY <1>3 DEF Withhold
  <2>2. withheld[k] \union {w} \in SUBSET Bands
    BY DEF TypeOK
  <2>3. withheld' \in [Certs -> SUBSET Bands]
    BY <2>1, <2>2 DEF TypeOK
  <2>4. w \in withheld'[k] /\ \A j \in Certs : withheld[j] \subseteq withheld'[j]
    BY <2>1 DEF TypeOK
  <2> QED
    BY <2>1, <2>3, <2>4 DEF TypeOK, Settled
<1> QED
    BY <1>2, <1>3

LEMMA StepInv == CertificateInv /\ [Next]_vars => CertificateInv'
<1> SUFFICES ASSUME CertificateInv, [Next]_vars PROVE CertificateInv'
    OBVIOUS
<1> USE CertificateAssumption
<1>a. TypeOK /\ RecordIsHonest /\ SnapshotsAreHonest
    BY DEF CertificateInv
<1>b. Idle \in Check /\ Idle.known = NoBand /\ Idle.pc = "idle"
    BY DEF Idle, Check, BandOr0, Certs, Days
<1>c. \A c \in Checks : check[c] \in Check
    BY <1>a DEF TypeOK
<1>1. CASE UNCHANGED vars
    BY <1>1, <1>a DEF CertificateInv, TypeOK, RecordIsHonest, SnapshotsAreHonest, Settled, vars
<1>2. ASSUME NEW c \in Checks, Queue(c) PROVE CertificateInv'
  <2> DEFINE new == [Idle EXCEPT !.pc = "handshake", !.known = warned]
  <2>1. new \in Check /\ new.pc = "handshake" /\ new.known = warned
    BY <1>a, <1>b DEF Check, Idle, TypeOK
  <2>2. check' = [check EXCEPT ![c] = new]
    BY <1>2 DEF Queue
  <2> HIDE DEF new
  <2>3. TypeOK'
    BY <1>2, <1>a, <2>1, <2>2 DEF Queue, TypeOK
  <2>4. RecordIsHonest'
    BY <1>2, <1>a DEF Queue, RecordIsHonest, Settled
  <2>5. SnapshotsAreHonest'
    BY <1>2, <1>a, <2>1, <2>2 DEF Queue, RecordIsHonest, SnapshotsAreHonest, Settled, TypeOK
  <2> QED
    BY <2>3, <2>4, <2>5 DEF CertificateInv
<1>3. ASSUME NEW c \in Checks, Handshake(c) PROVE CertificateInv'
  <2> DEFINE new == IF days = Expired THEN Idle
                    ELSE [check[c] EXCEPT !.pc = "respond", !.cert = cert, !.days = days]
  <2>1. /\ new \in Check
        /\ new.pc \in {"idle", "respond"}
        /\ new.known \in {NoBand, check[c].known}
    BY <1>a, <1>b, <1>c DEF Check, TypeOK
  <2>2. check' = [check EXCEPT ![c] = new]
    BY <1>3 DEF Handshake
  <2> HIDE DEF new
  <2>3. TypeOK'
    BY <1>3, <1>a, <2>1, <2>2 DEF Handshake, history, TypeOK
  <2>4. RecordIsHonest'
    BY <1>3, <1>a DEF Handshake, history, RecordIsHonest, Settled
  <2>5. SnapshotsAreHonest'
    BY <1>3, <1>a, <2>1, <2>2 DEF Handshake, history, SnapshotsAreHonest, Settled, TypeOK
  <2> QED
    BY <2>3, <2>4, <2>5 DEF CertificateInv
<1>4. ASSUME NEW c \in Checks, Respond(c) PROVE CertificateInv'
  <2> DEFINE band == BandFor(check[c].days)
             warn == ShouldWarn(check[c].days, check[c].known)
             pc   == IF warn THEN "notify"
                     ELSE IF band = NoBand /\ check[c].known # NoBand THEN "clear" ELSE "update"
             w    == IF warn THEN band ELSE IF band = NoBand THEN NoBand ELSE check[c].known
             new  == [check[c] EXCEPT !.pc = pc, !.write = w]
  <2>1. band \in BandOr0
    BY <1>c, BandForRange DEF Check
  <2>2. /\ pc \in {"notify", "clear", "update"}
        /\ w \in BandOr0
        /\ pc = "notify" => w \in Bands
        /\ pc = "update" => w \in {NoBand, check[c].known}
        /\ pc = "clear" => w = NoBand
    BY <1>c, <2>1 DEF Check, BandOr0, ShouldWarn
  <2>3. check' = [check EXCEPT ![c] = new]
    BY <1>4 DEF Respond
  <2> HIDE DEF pc, w
  <2>4. new \in Check /\ new.pc = pc /\ new.write = w /\ new.known = check[c].known
    BY <1>c, <2>2 DEF Check
  <2> HIDE DEF new
  <2>5. TypeOK'
    BY <1>4, <1>a, <2>3, <2>4, ZenonT(60) DEF Respond, history, TypeOK
  <2>6. RecordIsHonest'
    BY <1>4, <1>a DEF Respond, history, RecordIsHonest, Settled
  <2>7. SnapshotsAreHonest'
    BY <1>4, <1>a, <2>2, <2>3, <2>4, ZenonT(60) DEF Respond, history, SnapshotsAreHonest, Settled, TypeOK
  <2> QED
    BY <2>5, <2>6, <2>7 DEF CertificateInv
<1>5. ASSUME NEW c \in Checks, Clear(c) PROVE CertificateInv'
  <2> DEFINE new == [check[c] EXCEPT !.pc = "update"]
  <2>1. check[c].write = NoBand
    BY <1>5, <1>a DEF Clear, SnapshotsAreHonest
  <2>2. new \in Check /\ new.pc = "update" /\ new.write = NoBand /\ new.known = check[c].known
    BY <1>c, <2>1 DEF Check
  <2>3. check' = [check EXCEPT ![c] = new]
    BY <1>5 DEF Clear, Goto
  <2> HIDE DEF new
  <2>4. TypeOK'
    BY <1>5, <1>a, <2>2, <2>3 DEF Clear, history, TypeOK, BandOr0
  <2>5. RecordIsHonest'
    BY <1>5 DEF Clear, history, RecordIsHonest, Settled
  <2>6. SnapshotsAreHonest'
    BY <1>5, <1>a, <2>2, <2>3 DEF Clear, history, SnapshotsAreHonest, Settled, TypeOK
  <2> QED
    BY <2>4, <2>5, <2>6 DEF CertificateInv
<1>6. ASSUME NEW c \in Checks, Notify(c) PROVE CertificateInv'
  <2> DEFINE new == [check[c] EXCEPT !.pc = "update"]
  <2>1. check[c].write \in Bands /\ (Announce(c) \/ Withhold(c))
    BY <1>6, <1>a DEF Notify, SnapshotsAreHonest
  <2>5. check[c].cert \in Certs
    BY <1>c DEF Check
  <2>2. /\ new \in Check /\ new.pc = "update"
        /\ new.write = check[c].write /\ new.known = check[c].known
    BY <1>c DEF Check
  <2>3. check' = [check EXCEPT ![c] = new]
    BY <1>6 DEF Notify, Goto
  <2>4. PICK j \in Certs, w \in Bands :
             /\ check[c].cert = j /\ check[c].write = w
             /\ told' \in [Certs -> [Bands -> 0 .. 2]]
             /\ withheld' \in [Certs -> SUBSET Bands]
             /\ Settled(j, w)'
             /\ \A k \in Certs, b \in Bands : Settled(k, b) => Settled(k, b)'
    BY <1>a, <2>1, <2>5, NotifySettles
  <2> HIDE DEF new
  <2>6. TypeOK'
    BY <1>6, <1>a, <2>2, <2>3, <2>4 DEF Notify, TypeOK
  <2>7. RecordIsHonest'
    BY <1>6, <1>a, <2>4 DEF Notify, RecordIsHonest, Settled, TypeOK, BandOr0
  <2>8. SnapshotsAreHonest'
    <3> SUFFICES ASSUME NEW d \in Checks
                 PROVE  /\ check'[d].known # NoBand => \E k \in Certs : Settled(k, check[d].known)'
                        /\ check'[d].pc = "update" /\ check'[d].write # NoBand =>
                              \E k \in Certs : Settled(k, check[d].write)'
                        /\ check'[d].pc = "notify" => check'[d].write \in Bands
                        /\ check'[d].pc = "clear" => check'[d].write = NoBand
      BY DEF SnapshotsAreHonest
    <3>1. check[d].known \in BandOr0 /\ check[d].write \in BandOr0
      BY <1>c DEF Check
    <3>2. CASE d = c
      BY <1>a, <2>1, <2>2, <2>3, <2>4, <2>5, <3>1, <3>2 DEF SnapshotsAreHonest, Settled, TypeOK, BandOr0
    <3>3. CASE d # c
      BY <1>a, <2>3, <2>4, <3>1, <3>3 DEF SnapshotsAreHonest, Settled, TypeOK, BandOr0
    <3> QED
      BY <3>2, <3>3
  <2> QED
    BY <2>6, <2>7, <2>8 DEF CertificateInv
<1>7. ASSUME NEW c \in Checks, Update(c) PROVE CertificateInv'
  <2>1. check[c] \in Check
    BY <1>c
  <2>2. BandFor(check[c].days) \in BandOr0
    BY <2>1, BandForRange DEF Check
  <2>3. check' = [check EXCEPT ![c] = Idle]
    BY <1>7 DEF Update
  <2>4. TypeOK'
    <3>1. check' \in [Checks -> Check]
      BY <1>a, <1>b, <2>3 DEF TypeOK
    <3>2. warned' \in BandOr0 /\ handled' \in BandOr0
      BY <1>7, <1>a, <2>1, <2>2 DEF Update, TypeOK, Check
    <3>3. vetted' \subseteq Certs
      BY <1>7, <1>a, <2>1 DEF Update, TypeOK, Check
    <3> QED
      BY <1>7, <1>a, <3>1, <3>2, <3>3 DEF Update, TypeOK
  <2>5. RecordIsHonest'
    BY <1>7, <1>a DEF Update, RecordIsHonest, SnapshotsAreHonest, Settled
  <2>6. SnapshotsAreHonest'
    BY <1>7, <1>a, <1>b, <2>3 DEF Update, SnapshotsAreHonest, Settled, TypeOK
  <2> QED
    BY <2>4, <2>5, <2>6 DEF CertificateInv
<1>8. CASE Day
  <2>1. \A c \in Checks : /\ check'[c] \in Check
                          /\ check'[c].pc = check[c].pc
                          /\ check'[c].known = check[c].known
                          /\ check'[c].write = check[c].write
    BY <1>8, <1>c DEF Day, Check, Days, Earlier, Expired
  <2>2. check' \in [Checks -> Check]
    BY <1>8, <2>1 DEF Day
  <2>3. days' \in Days
    <3>1. days' = days - 1 /\ days # -1
      BY <1>8 DEF Day, Expired
    <3>2. days \in Nat \union {-1}
      BY <1>a DEF TypeOK, Days, Expired
    <3>3. days' \in Nat \union {-1}
      BY <3>1, <3>2
    <3> QED
      BY <3>3 DEF Days, Expired
  <2>4. TypeOK'
    BY <1>8, <1>a, <2>2, <2>3 DEF Day, history, TypeOK
  <2>5. RecordIsHonest' /\ SnapshotsAreHonest'
    BY <1>8, <1>a, <2>1 DEF Day, history, RecordIsHonest, SnapshotsAreHonest, Settled
  <2> QED
    BY <2>4, <2>5 DEF CertificateInv
<1>9. ASSUME NEW d \in Lifetimes, Renew(d) PROVE CertificateInv'
  <2>1. TypeOK'
    BY <1>9, <1>a DEF Renew, TypeOK, Certs, Days, BandOr0
  <2>2. RecordIsHonest' /\ SnapshotsAreHonest'
    BY <1>9, <1>a DEF Renew, RecordIsHonest, SnapshotsAreHonest, Settled
  <2> QED
    BY <2>1, <2>2 DEF CertificateInv
<1>10. ASSUME NEW c \in Checks, CallFails(c) PROVE CertificateInv'
  <2>1. check' = [check EXCEPT ![c] = Idle]
    BY <1>10 DEF CallFails
  <2>2. /\ told' \in [Certs -> [Bands -> 0 .. 2]]
        /\ withheld' \in [Certs -> SUBSET Bands]
        /\ \A k \in Certs, b \in Bands : Settled(k, b) => Settled(k, b)'
    <3>1. CASE UNCHANGED <<told, withheld>>
      BY <3>1, <1>a DEF TypeOK, Settled
    <3>2. CASE check[c].pc = "notify" /\ Announce(c)
      <4>1. check[c].cert \in Certs /\ check[c].write \in Bands
        BY <3>2, <1>a, <1>c DEF SnapshotsAreHonest, Check
      <4> QED
        BY <3>2, <4>1, <1>a, NotifySettles
    <3> QED
      BY <1>10, <3>1, <3>2 DEF CallFails
  <2>3. TypeOK'
    BY <1>10, <1>a, <1>b, <2>1, <2>2 DEF CallFails, Fault, TypeOK
  <2>4. RecordIsHonest'
    BY <1>10, <1>a, <2>2 DEF CallFails, RecordIsHonest, Settled, TypeOK, BandOr0
  <2>5. SnapshotsAreHonest'
    <3> SUFFICES ASSUME NEW d \in Checks
                 PROVE  /\ check'[d].known # NoBand => \E k \in Certs : Settled(k, check[d].known)'
                        /\ check'[d].pc = "update" /\ check'[d].write # NoBand =>
                              \E k \in Certs : Settled(k, check[d].write)'
                        /\ check'[d].pc = "notify" => check'[d].write \in Bands
                        /\ check'[d].pc = "clear" => check'[d].write = NoBand
      BY DEF SnapshotsAreHonest
    <3>1. check[d].known \in BandOr0 /\ check[d].write \in BandOr0
      BY <1>c DEF Check
    <3>2. CASE d = c
      BY <1>a, <1>b, <2>1, <3>2 DEF TypeOK
    <3>3. CASE d # c
      BY <1>a, <2>1, <2>2, <3>1, <3>3 DEF SnapshotsAreHonest, Settled, TypeOK, BandOr0
    <3> QED
      BY <3>2, <3>3
  <2> QED
    BY <2>3, <2>4, <2>5 DEF CertificateInv
<1>11. CASE Crash
  <2>1. TypeOK'
    BY <1>11, <1>a, <1>b DEF Crash, Fault, history, TypeOK
  <2>2. RecordIsHonest' /\ SnapshotsAreHonest'
    BY <1>11, <1>a, <1>b DEF Crash, history, RecordIsHonest, SnapshotsAreHonest, Settled
  <2> QED
    BY <2>1, <2>2 DEF CertificateInv
<1>12. CASE Mute
  <2>1. TypeOK'
    BY <1>12, <1>a DEF Mute, history, TypeOK
  <2>2. RecordIsHonest' /\ SnapshotsAreHonest'
    BY <1>12, <1>a DEF Mute, history, RecordIsHonest, SnapshotsAreHonest, Settled
  <2> QED
    BY <2>1, <2>2 DEF CertificateInv
<1> QED
    BY <1>1, <1>2, <1>3, <1>4, <1>5, <1>6, <1>7, <1>8, <1>9, <1>10, <1>11, <1>12 DEF Next, CheckStep

\* The invariant holds of every behaviour, whatever checks overlap, fail or are cut
\* off by a restart, and for any thresholds.
THEOREM CertificateInvariant == Spec => []CertificateInv
<1> QED
    BY InitInv, StepInv, PTL DEF Spec

\* A band is on record only if its warning was sent, or withheld from an owner who had
\* switched expiry warnings off when it came due.
THEOREM WarnedMeansSettled == Spec => []RecordIsHonest
<1>1. CertificateInv => RecordIsHonest
    BY DEF CertificateInv
<1> QED
    BY <1>1, CertificateInvariant, PTL

-----------------------------------------------------------------------------
(* Checks that do not overlap.                                             *)
(* One check moves at a time, so the parts of AloneInv are taken for that  *)
(* check alone.                                                            *)

\* BandFor is the tightest band crossed, or there is none.
LEMMA BandForTightest ==
    ASSUME NEW d \in Days
    PROVE  /\ BandFor(d) \in BandOr0
           /\ BandFor(d) = NoBand => \A b \in Bands : ~(d <= b)
           /\ BandFor(d) # NoBand => d <= BandFor(d) /\ \A b \in Bands : d <= b => BandFor(d) <= b
<1> DEFINE crossed == {b \in Bands : d <= b}
<1>1. CASE crossed = {}
    BY <1>1 DEF BandFor, BandOr0
<1>2. CASE crossed # {}
  <2>1. \E b \in crossed : \A a \in crossed : b <= a
    BY <1>2, TightestExists
  <2>2. BandFor(d) = CHOOSE b \in crossed : \A a \in crossed : b <= a
    BY <1>2 DEF BandFor
  <2>3. BandFor(d) \in crossed /\ \A a \in crossed : BandFor(d) <= a
    BY <2>1, <2>2
  <2>4. BandFor(d) # NoBand
    BY <2>3, CertificateAssumption DEF NoBand
  <2> QED
    BY <2>3, <2>4 DEF BandOr0
<1> QED
    BY <1>1, <1>2

FreshOf(c) ==
    LET x == check[c]
    IN  /\ x.pc \in {"handshake", "respond", "clear", "notify"} => x.known = warned
        /\ Seen(c) => /\ x.cert <= cert
                      /\ x.cert = cert => days <= x.days
                      /\ x.cert < cert =>
                            cert \notin vetted /\ \A b \in Bands : told[cert][b] = 0
        /\ x.pc = "clear" => BandFor(x.days) = NoBand
        /\ x.pc = "notify" => x.write = BandFor(x.days) /\ ShouldWarn(x.days, x.known)
        /\ x.pc = "update" /\ x.write = NoBand =>
              warned = NoBand /\ BandFor(x.days) = NoBand
        /\ x.pc = "update" /\ x.write # NoBand =>
              BandFor(x.days) # NoBand /\ x.write <= BandFor(x.days)

VettedOf(c) ==
    cert \in vetted =>
        /\ warned # NoBand => Settled(cert, warned)
        /\ handled # NoBand => \E b \in Bands : b <= handled /\ Settled(cert, b)
        /\ check[c].pc = "update" /\ check[c].write # NoBand => Settled(cert, check[c].write)

DownOf(c) ==
    /\ \A k \in Certs, b \in Bands : told[k][b] <= 1
    /\ \A b \in Bands : told[cert][b] > 0 =>
          days <= b /\ (check[c].pc # "update" => warned # NoBand /\ warned <= b)
    /\ \A b \in Bands : Seen(c) /\ told[check[c].cert][b] > 0 =>
          check[c].days <= b /\ Known(c) # NoBand /\ Known(c) <= b

AloneParts ==
    /\ OneInFlight /\ SnapshotsAreFresh /\ FutureUntouched /\ VettedIsAnnounced
    /\ faults = 0 => BandsGoDown

OthersIdle(c) == \A d \in Checks \ {c} : check[d].pc = "idle"

LEMMA AloneUnfold == AloneInv <=> (~overlapped => AloneParts)
BY DEF AloneInv, AloneParts

\* The parts, seen from the one check in flight.
LEMMA ToOne ==
    ASSUME AloneParts, NEW c \in Checks, OthersIdle(c)
    PROVE  FreshOf(c) /\ FutureUntouched /\ VettedOf(c) /\ (faults = 0 => DownOf(c))
<1>1. FreshOf(c)
    BY DEF AloneParts, SnapshotsAreFresh, FreshOf
<1>2. FutureUntouched
    BY DEF AloneParts
<1>3. VettedOf(c)
    BY DEF AloneParts, VettedIsAnnounced, VettedOf
<1>4. ASSUME faults = 0 PROVE DownOf(c)
  <2>1. check[c].pc # "update" => \A d \in Checks : check[d].pc # "update"
    BY DEF OthersIdle
  <2> QED
    BY <1>4, <2>1 DEF AloneParts, BandsGoDown, DownOf
<1> QED
    BY <1>1, <1>2, <1>3, <1>4

\* What holds for the one check in flight makes up the whole.
TakenForOne ==
    \A c \in Checks :
        /\ OthersIdle(c) /\ FreshOf(c) /\ FutureUntouched /\ VettedOf(c)
        /\ faults = 0 => DownOf(c)
        => AloneParts

LEMMA FromOne == TakenForOne
<1> SUFFICES ASSUME NEW c \in Checks, OthersIdle(c), FreshOf(c), FutureUntouched, VettedOf(c),
                    faults = 0 => DownOf(c)
             PROVE  AloneParts
    BY DEF TakenForOne
<1>1. OneInFlight
    BY DEF OneInFlight, OthersIdle
<1>2. SnapshotsAreFresh
  <2>1. \A d \in Checks \ {c} : FreshOf(d)
    BY DEF OthersIdle, FreshOf, Seen
  <2>2. \A d \in Checks : FreshOf(d)
    BY <2>1
  <2> QED
    BY <2>2 DEF SnapshotsAreFresh, FreshOf
<1>3. VettedIsAnnounced
    BY DEF VettedOf, VettedIsAnnounced, OthersIdle
<1>4. ASSUME faults = 0 PROVE BandsGoDown
  <2>1. DownOf(c)
    BY <1>4
  <2>2. \A d \in Checks : Seen(d) => d = c
    BY DEF OthersIdle, Seen
  <2> QED
    BY <2>1, <2>2 DEF DownOf, BandsGoDown
<1> QED
    BY <1>1, <1>2, <1>3, <1>4 DEF AloneParts

\* A step of the check in flight is a step of the only one.
LEMMA OnlyOne ==
    ASSUME TypeOK, AloneParts, NEW c \in Checks, check[c].pc # "idle",
           NEW new, check' = [check EXCEPT ![c] = new]
    PROVE  OthersIdle(c) /\ OthersIdle(c)' /\ check'[c] = new
<1>1. OthersIdle(c)
    BY DEF AloneParts, OneInFlight, OthersIdle
<1> QED
    BY <1>1 DEF TypeOK, OthersIdle

LEMMA FromOneNext == TakenForOne'
BY FromOne, PTL

LEMMA QueueAlone ==
    ASSUME TypeOK, AloneInv, ~overlapped', NEW c \in Checks, Queue(c) PROVE AloneParts'
<1> DEFINE new == [Idle EXCEPT !.pc = "handshake", !.known = warned]
<1>1. ~overlapped /\ AloneParts /\ \A d \in Checks : check[d].pc = "idle"
    BY AloneUnfold DEF Queue, TypeOK
<1>2. new.pc = "handshake" /\ new.known = warned
    BY DEF Idle
<1>3. /\ check' = [check EXCEPT ![c] = new]
      /\ UNCHANGED <<cert, days, warned, told, withheld, vetted, handled, faults>>
    BY DEF Queue
<1> HIDE DEF new
<1>4. check'[c] = new /\ OthersIdle(c) /\ OthersIdle(c)' /\ check[c].pc = "idle"
    BY <1>1, <1>3 DEF TypeOK, OthersIdle
<1>5. FreshOf(c) /\ FutureUntouched /\ VettedOf(c) /\ (faults = 0 => DownOf(c))
    BY <1>1, <1>4, ToOne
<1>6. FreshOf(c)'
    BY <1>2, <1>3, <1>4 DEF FreshOf, Seen
<1>7. FutureUntouched' /\ VettedOf(c)'
    BY <1>2, <1>3, <1>4, <1>5 DEF FutureUntouched, VettedOf, Settled
<1>8. faults' = 0 => DownOf(c)'
    BY <1>2, <1>3, <1>4, <1>5 DEF DownOf, Seen
<1> QED
    BY <1>4, <1>6, <1>7, <1>8, FromOneNext DEF TakenForOne

LEMMA HandshakeAlone ==
    ASSUME TypeOK, AloneInv, ~overlapped', NEW c \in Checks, Handshake(c) PROVE AloneParts'
<1> DEFINE new == IF days = Expired THEN Idle
                  ELSE [check[c] EXCEPT !.pc = "respond", !.cert = cert, !.days = days]
<1>1. ~overlapped /\ AloneParts /\ check[c] \in Check
    BY AloneUnfold DEF Handshake, history, TypeOK
<1>2. /\ check' = [check EXCEPT ![c] = new] /\ check[c].pc = "handshake"
      /\ UNCHANGED <<cert, days, warned, told, withheld, vetted, handled, faults>>
    BY DEF Handshake, history
<1>3. \/ new.pc = "idle"
      \/ new.pc = "respond" /\ new.cert = cert /\ new.days = days /\ new.known = check[c].known
    BY <1>1 DEF Idle, Check
<1> HIDE DEF new
<1>4. check'[c] = new /\ OthersIdle(c) /\ OthersIdle(c)'
    BY <1>1, <1>2, OnlyOne
<1>5. FreshOf(c) /\ FutureUntouched /\ VettedOf(c) /\ (faults = 0 => DownOf(c))
    BY <1>1, <1>4, ToOne
<1>c. cert \in Nat /\ days \in Int
    BY CertificateAssumption DEF TypeOK, Certs, Days, Expired
<1>6. FreshOf(c)'
    BY <1>2, <1>3, <1>4, <1>5, <1>c DEF FreshOf, Seen
<1>7. FutureUntouched' /\ VettedOf(c)'
    BY <1>2, <1>3, <1>4, <1>5 DEF FutureUntouched, VettedOf, Settled
<1>8. ASSUME faults' = 0 PROVE DownOf(c)'
    BY <1>2, <1>3, <1>4, <1>5, <1>8 DEF DownOf, FreshOf, Seen, Known
<1> QED
    BY <1>4, <1>6, <1>7, <1>8, FromOneNext DEF TakenForOne

\* What Respond decides, and what follows from it for a band announced before.
LEMMA Decision ==
    ASSUME NEW d \in Days, NEW known \in BandOr0
    PROVE  /\ BandFor(d) = NoBand => ~ShouldWarn(d, known) /\ \A b \in Bands : ~(d <= b)
           /\ ShouldWarn(d, known) => BandFor(d) \in Bands /\ d <= BandFor(d)
           /\ \A b \in Bands : d <= b /\ ShouldWarn(d, known) /\ known # NoBand /\ known <= b =>
                 BandFor(d) < b
           /\ ~ShouldWarn(d, known) /\ BandFor(d) # NoBand => known # NoBand /\ known <= BandFor(d)
<1>1. /\ BandFor(d) \in BandOr0
      /\ BandFor(d) = NoBand => \A b \in Bands : ~(d <= b)
      /\ BandFor(d) # NoBand => d <= BandFor(d)
    BY BandForTightest
<1>2. BandOr0 \subseteq Nat /\ Bands \subseteq Nat
    BY CertificateAssumption DEF BandOr0, NoBand
<1>3. BandFor(d) # NoBand => BandFor(d) \in Bands
    BY <1>1 DEF BandOr0
<1>4. ShouldWarn(d, known) <=> BandFor(d) # NoBand /\ (known = NoBand \/ BandFor(d) < known)
    BY DEF ShouldWarn
<1>5. BandFor(d) \in Nat /\ known \in Nat
    BY <1>1, <1>2
<1> HIDE DEF NoBand
<1>6. \A b \in Bands : ShouldWarn(d, known) /\ known # NoBand /\ known <= b => BandFor(d) < b
    BY <1>2, <1>4, <1>5
<1>7. ~ShouldWarn(d, known) /\ BandFor(d) # NoBand => known # NoBand /\ known <= BandFor(d)
    BY <1>4, <1>5
<1> QED
    BY <1>1, <1>3, <1>4, <1>6, <1>7

LEMMA RespondAlone ==
    ASSUME TypeOK, AloneInv, ~overlapped', NEW c \in Checks, Respond(c) PROVE AloneParts'
<1> DEFINE x    == check[c]
           band == BandFor(x.days)
           warn == ShouldWarn(x.days, x.known)
           pc   == IF warn THEN "notify"
                   ELSE IF band = NoBand /\ x.known # NoBand THEN "clear" ELSE "update"
           w    == IF warn THEN band ELSE IF band = NoBand THEN NoBand ELSE x.known
           new  == [x EXCEPT !.pc = pc, !.write = w]
<1>1. ~overlapped /\ AloneParts /\ x \in Check /\ x.pc = "respond"
    BY AloneUnfold DEF Respond, history, TypeOK
<1>2. /\ check' = [check EXCEPT ![c] = new]
      /\ UNCHANGED <<cert, days, warned, told, withheld, vetted, handled, faults>>
    BY DEF Respond, history
<1>3. /\ new.pc = pc /\ new.write = w /\ new.cert = x.cert /\ new.days = x.days
      /\ new.known = x.known
    BY <1>1 DEF Check
<1>4. x.days \in Days /\ x.known \in BandOr0
    BY <1>1 DEF Check
<1> HIDE DEF new
<1>5. check'[c] = new /\ OthersIdle(c) /\ OthersIdle(c)'
    BY <1>1, <1>2, OnlyOne
<1>6. FreshOf(c) /\ FutureUntouched /\ VettedOf(c) /\ (faults = 0 => DownOf(c))
    BY <1>1, <1>5, ToOne
<1>7. /\ band = NoBand => ~warn /\ \A b \in Bands : ~(x.days <= b)
      /\ warn => band \in Bands /\ x.days <= band
      /\ \A b \in Bands : x.days <= b /\ warn /\ x.known # NoBand /\ x.known <= b => band < b
      /\ ~warn /\ band # NoBand => x.known # NoBand /\ x.known <= band
    BY <1>4, Decision
<1>8. x.known = warned
    BY <1>1, <1>6 DEF FreshOf
<1> HIDE DEF band, warn
<1>9. /\ pc \in {"notify", "clear", "update"}
      /\ pc = "notify" => warn /\ w = band
      /\ pc = "clear" => band = NoBand
      /\ pc = "update" => ~warn /\ (band # NoBand => w = x.known) /\ (band = NoBand => w = NoBand /\ x.known = NoBand)
    OBVIOUS
<1> HIDE DEF pc, w
<1>10. FreshOf(c)'
  <2>1. \A e \in {x, new} : e.cert = x.cert /\ e.days = x.days
    BY <1>3
  <2>2. /\ x.cert <= cert
        /\ x.cert = cert => days <= x.days
        /\ x.cert < cert => cert \notin vetted /\ \A b \in Bands : told[cert][b] = 0
    BY <1>1, <1>6 DEF FreshOf, Seen
  <2>3. pc = "notify" => ShouldWarn(new.days, new.known) /\ new.write = BandFor(new.days)
    BY <1>3, <1>9 DEF warn, band
  <2>4. pc = "clear" => BandFor(new.days) = NoBand
    BY <1>3, <1>9 DEF band
  <2>5. pc = "update" => IF new.write = NoBand THEN warned = NoBand /\ BandFor(new.days) = NoBand
                         ELSE BandFor(new.days) # NoBand /\ new.write <= BandFor(new.days)
    BY <1>3, <1>7, <1>8, <1>9 DEF band
  <2> QED
    BY <1>2, <1>3, <1>5, <1>8, <1>9, <2>2, <2>3, <2>4, <2>5 DEF FreshOf, Seen
<1>11. FutureUntouched' /\ VettedOf(c)'
    BY <1>2, <1>3, <1>5, <1>6, <1>8, <1>9 DEF FutureUntouched, VettedOf, Settled
<1>12. ASSUME faults' = 0 PROVE DownOf(c)'
  <2>1. DownOf(c) /\ Seen(c) /\ Known(c) = x.known
    BY <1>1, <1>2, <1>6, <1>12 DEF Seen, Known
  <2>2. \A b \in Bands : told[x.cert][b] > 0 => x.days <= b /\ x.known # NoBand /\ x.known <= b
    BY <2>1 DEF DownOf
  <2>3. \A b \in Bands : told[x.cert][b] > 0 => (pc = "update" => w = x.known)
    BY <1>7, <1>9, <2>2
  <2> QED
    BY <1>1, <1>2, <1>3, <1>5, <2>1, <2>2, <2>3 DEF DownOf, Seen, Known
<1> QED
    BY <1>5, <1>10, <1>11, <1>12, FromOneNext DEF TakenForOne

LEMMA ClearAlone ==
    ASSUME TypeOK, AloneInv, ~overlapped', NEW c \in Checks, Clear(c), SnapshotsAreHonest
    PROVE  AloneParts'
<1> DEFINE x   == check[c]
           new == [x EXCEPT !.pc = "update"]
<1>1. ~overlapped /\ AloneParts /\ x \in Check /\ x.pc = "clear" /\ x.write = NoBand
    BY AloneUnfold DEF Clear, history, TypeOK, SnapshotsAreHonest
<1>2. /\ check' = [check EXCEPT ![c] = new] /\ warned' = NoBand
      /\ UNCHANGED <<cert, days, told, withheld, vetted, handled, faults>>
    BY DEF Clear, Goto, history
<1>3. /\ new.pc = "update" /\ new.write = NoBand /\ new.cert = x.cert /\ new.days = x.days
      /\ new.known = x.known
    BY <1>1 DEF Check
<1> HIDE DEF new
<1>4. check'[c] = new /\ OthersIdle(c) /\ OthersIdle(c)'
    BY <1>1, <1>2, OnlyOne
<1>5. FreshOf(c) /\ FutureUntouched /\ VettedOf(c) /\ (faults = 0 => DownOf(c))
    BY <1>1, <1>4, ToOne
<1>6. FreshOf(c)'
    BY <1>1, <1>2, <1>3, <1>4, <1>5 DEF FreshOf, Seen
<1>7. FutureUntouched' /\ VettedOf(c)'
    BY <1>2, <1>3, <1>4, <1>5 DEF FutureUntouched, VettedOf, Settled
<1>8. ASSUME faults' = 0 PROVE DownOf(c)'
  <2>1. \A b \in Bands : ~(x.days <= b)
    BY <1>1, <1>5, BandForTightest DEF FreshOf, Check
  <2>2. DownOf(c) /\ Seen(c)
    BY <1>1, <1>2, <1>5, <1>8 DEF Seen
  <2>3. \A b \in Bands : ~(told[x.cert][b] > 0)
    BY <2>1, <2>2 DEF DownOf
  <2> QED
    BY <1>2, <1>3, <1>4, <2>2, <2>3 DEF DownOf, Seen, Known
<1> QED
    BY <1>4, <1>6, <1>7, <1>8, FromOneNext DEF TakenForOne

LEMMA NotifyAlone ==
    ASSUME TypeOK, AloneInv, ~overlapped', NEW c \in Checks, Notify(c), SnapshotsAreHonest
    PROVE  AloneParts'
<1> DEFINE x   == check[c]
           w   == x.write
           new == [x EXCEPT !.pc = "update"]
<1>1. ~overlapped /\ AloneParts /\ x \in Check /\ x.pc = "notify" /\ w \in Bands
    BY AloneUnfold DEF Notify, TypeOK, SnapshotsAreHonest
<1>2. /\ check' = [check EXCEPT ![c] = new]
      /\ UNCHANGED <<cert, days, warned, vetted, handled, faults>>
    BY DEF Notify, Goto
<1>3. /\ new.pc = "update" /\ new.write = w /\ new.cert = x.cert /\ new.days = x.days
      /\ new.known = x.known
    BY <1>1 DEF Check
<1>4. /\ x.cert \in Certs /\ cert \in Certs /\ x.days \in Days /\ x.known \in BandOr0
      /\ days \in Days
    BY <1>1 DEF Check, TypeOK
<1> HIDE DEF new
<1>5. check'[c] = new /\ OthersIdle(c) /\ OthersIdle(c)'
    BY <1>1, <1>2, OnlyOne
<1>6. FreshOf(c) /\ FutureUntouched /\ VettedOf(c) /\ (faults = 0 => DownOf(c))
    BY <1>1, <1>5, ToOne
<1>7. /\ x.cert <= cert
      /\ x.cert = cert => days <= x.days
      /\ x.cert < cert => cert \notin vetted /\ \A b \in Bands : told[cert][b] = 0
      /\ x.known = warned /\ w = BandFor(x.days) /\ ShouldWarn(x.days, x.known)
    BY <1>1, <1>6 DEF FreshOf, Seen
<1>8. /\ x.days <= w
      /\ \A b \in Bands : x.days <= b /\ x.known # NoBand /\ x.known <= b => w < b
    BY <1>4, <1>7, Decision
<1>9. w \in Nat /\ w # NoBand /\ cert \in Nat /\ x.cert \in Nat /\ x.days \in Int /\ days \in Int
  <2>1. w \in Nat /\ w # NoBand
    BY <1>1, CertificateAssumption DEF NoBand
  <2>2. cert \in Nat /\ x.cert \in Nat
    BY <1>4, CertificateAssumption DEF Certs
  <2>3. x.days \in Int /\ days \in Int
    BY <1>4 DEF Days, Expired
  <2> QED
    BY <2>1, <2>2, <2>3
<1>10. /\ \A k \in Certs, b \in Bands : told[k][b] \in 0 .. 2
       /\ told[x.cert][w] = 0 => told'[x.cert][w] \in 0 .. 1
       /\ \A k \in Certs, b \in Bands : k # x.cert \/ b # w => told'[k][b] = told[k][b]
  <2>1. told \in [Certs -> [Bands -> 0 .. 2]]
    BY DEF TypeOK
  <2>2. told[x.cert] \in [Bands -> 0 .. 2] /\ told[x.cert][w] \in 0 .. 2
    BY <1>1, <1>4, <2>1
  <2>3. \A k \in Certs, b \in Bands : told[k][b] \in 0 .. 2
    BY <2>1
  <2>4. CASE Announce(c)
    <3>1. told' = [told EXCEPT ![x.cert] =
                     [told[x.cert] EXCEPT ![w] = IF told[x.cert][w] < 2 THEN told[x.cert][w] + 1
                                                 ELSE told[x.cert][w]]]
      BY <2>4 DEF Announce
    <3>2. told'[x.cert][w] = IF told[x.cert][w] < 2 THEN told[x.cert][w] + 1 ELSE told[x.cert][w]
      BY <1>1, <1>4, <2>1, <2>2, <3>1
    <3>3. \A k \in Certs, b \in Bands : k # x.cert \/ b # w => told'[k][b] = told[k][b]
      BY <1>1, <1>4, <2>1, <2>2, <3>1
    <3>4. told[x.cert][w] = 0 => told'[x.cert][w] \in 0 .. 1
      BY <2>2, <3>2
    <3> QED
      BY <2>3, <3>3, <3>4
  <2>5. CASE Withhold(c)
    <3>1. told' = told
      BY <2>5 DEF Withhold
    <3> QED
      BY <2>2, <2>3, <3>1
  <2> QED
    BY <2>4, <2>5 DEF Notify
<1>s. PICK j \in Certs, v \in Bands :
           /\ x.cert = j /\ w = v
           /\ Settled(j, v)'
           /\ \A k \in Certs, b \in Bands : Settled(k, b) => Settled(k, b)'
    BY <1>1, <1>4, NotifySettles DEF Notify
<1>11. FreshOf(c)'
  <2>1. x.cert < cert => \A b \in Bands : told'[cert][b] = 0
    BY <1>4, <1>7, <1>9, <1>10
  <2> QED
    BY <1>2, <1>3, <1>5, <1>7, <1>9, <2>1 DEF FreshOf, Seen
<1>12. FutureUntouched'
  <2>1. \A k \in Certs : k > cert => k # x.cert
    BY <1>7, <1>9
  <2> QED
    BY <1>2, <1>6, <1>10, <2>1 DEF FutureUntouched
<1>13. VettedOf(c)'
  <2>1. ASSUME cert \in vetted PROVE x.cert = cert
    BY <1>7, <1>9, <2>1
  <2>2. ASSUME cert \in vetted
        PROVE  /\ warned # NoBand => told'[cert][warned] > 0 \/ warned \in withheld'[cert]
               /\ handled # NoBand => \E b \in Bands :
                     b <= handled /\ (told'[cert][b] > 0 \/ b \in withheld'[cert])
               /\ told'[cert][w] > 0 \/ w \in withheld'[cert]
    <3>1. warned \in BandOr0
      BY DEF TypeOK
    <3>2. warned # NoBand => told'[cert][warned] > 0 \/ warned \in withheld'[cert]
      BY <1>2, <1>4, <1>6, <1>s, <2>2, <3>1 DEF VettedOf, BandOr0, Settled
    <3>3. handled # NoBand => \E b \in Bands :
             b <= handled /\ (told'[cert][b] > 0 \/ b \in withheld'[cert])
      BY <1>2, <1>4, <1>6, <1>s, <2>2 DEF VettedOf, Settled
    <3> QED
      BY <1>2, <1>s, <2>1, <2>2, <3>2, <3>3 DEF Settled
  <2> QED
    BY <1>2, <1>3, <1>5, <2>2 DEF VettedOf, Settled
<1>14. ASSUME faults' = 0 PROVE DownOf(c)'
  <2>1. DownOf(c) /\ Seen(c) /\ Known(c) = x.known
    BY <1>1, <1>2, <1>6, <1>14 DEF Seen, Known
  <2>2. \A b \in Bands : told[x.cert][b] > 0 => x.days <= b /\ w < b
    BY <1>8, <2>1 DEF DownOf
  <2>3. told[x.cert][w] = 0
    BY <1>1, <1>4, <1>9, <1>10, <2>2
  <2>4. \A k \in Certs, b \in Bands : told'[k][b] <= 1
    BY <1>10, <2>1, <2>3 DEF DownOf
  <2>5. \A b \in Bands : told'[x.cert][b] > 0 => x.days <= b /\ w <= b
    BY <1>1, <1>4, <1>8, <1>9, <1>10, <2>2, CertificateAssumption
  <2>6. \A b \in Bands : told'[cert][b] > 0 => days <= b
    <3>1. CASE x.cert = cert
      BY <1>7, <1>9, <2>5, <3>1, CertificateAssumption
    <3>2. CASE x.cert # cert
      BY <1>4, <1>7, <1>9, <1>10, <3>2
    <3> QED
      BY <3>1, <3>2
  <2> QED
    BY <1>2, <1>3, <1>5, <1>9, <2>4, <2>5, <2>6 DEF DownOf, Seen, Known
<1> QED
    BY <1>5, <1>11, <1>12, <1>13, <1>14, FromOneNext DEF TakenForOne

LEMMA UpdateAlone ==
    ASSUME TypeOK, AloneInv, ~overlapped', NEW c \in Checks, Update(c) PROVE AloneParts'
<1> DEFINE x    == check[c]
           band == BandFor(x.days)
<1>1. ~overlapped /\ AloneParts /\ x \in Check /\ x.pc = "update"
    BY AloneUnfold DEF Update, TypeOK
<1>2. /\ check' = [check EXCEPT ![c] = Idle] /\ Idle.pc = "idle"
      /\ UNCHANGED <<cert, days, told, withheld, faults>>
      /\ warned' = IF x.write = NoBand THEN warned ELSE x.write
      /\ vetted' = IF band = NoBand THEN vetted \union {x.cert} ELSE vetted
      /\ handled' = IF x.cert = cert THEN band ELSE handled
    BY DEF Update, Idle
<1>3. /\ x.cert \in Certs /\ cert \in Certs /\ x.days \in Days /\ x.write \in BandOr0
      /\ days \in Days
    BY <1>1 DEF Check, TypeOK
<1>4. check'[c] = Idle /\ OthersIdle(c) /\ OthersIdle(c)'
    BY <1>1, <1>2, OnlyOne
<1>5. FreshOf(c) /\ FutureUntouched /\ VettedOf(c) /\ (faults = 0 => DownOf(c))
    BY <1>1, <1>4, ToOne
<1>6. /\ x.cert <= cert
      /\ x.cert < cert => cert \notin vetted /\ \A b \in Bands : told[cert][b] = 0
      /\ x.write = NoBand => warned = NoBand /\ band = NoBand
      /\ x.write # NoBand => band # NoBand /\ x.write <= band
    BY <1>1, <1>5 DEF FreshOf, Seen
<1>7. cert \in Nat /\ x.cert \in Nat
    BY <1>3, CertificateAssumption DEF Certs
<1>8. x.write # NoBand => x.write \in Bands
    BY <1>3 DEF BandOr0
<1> HIDE DEF band
<1>9. FreshOf(c)'
    BY <1>2, <1>4 DEF FreshOf, Seen
<1>10. FutureUntouched'
    BY <1>2, <1>5, <1>6, <1>7 DEF FutureUntouched, Certs
<1>11. VettedOf(c)'
  <2> SUFFICES ASSUME cert \in vetted'
               PROVE  /\ warned' # NoBand => Settled(cert, warned')
                      /\ handled' # NoBand => \E b \in Bands : b <= handled' /\ Settled(cert, b)
    BY <1>2, <1>4 DEF VettedOf, Settled
  <2>1. x.cert = cert
    BY <1>2, <1>6, <1>7
  <2>2. CASE x.write = NoBand
    BY <1>2, <1>6, <2>1, <2>2
  <2>3. CASE x.write # NoBand
    <3>1. cert \in vetted
      BY <1>2, <1>6, <2>3
    <3>2. Settled(cert, x.write)
      BY <1>1, <1>5, <2>3, <3>1 DEF VettedOf
    <3> QED
      BY <1>2, <1>6, <1>8, <2>1, <2>3, <3>2
  <2> QED
    BY <2>2, <2>3
<1>12. ASSUME faults' = 0 PROVE DownOf(c)'
  <2>1. DownOf(c) /\ Seen(c) /\ Known(c) = x.write
    BY <1>1, <1>2, <1>5, <1>12 DEF Seen, Known
  <2>2. \A b \in Bands : told[x.cert][b] > 0 => x.write # NoBand /\ x.write <= b
    BY <2>1 DEF DownOf
  <2>3. \A b \in Bands : told[cert][b] > 0 => x.cert = cert
    BY <1>6, <1>7
  <2>4. \A b \in Bands : told[cert][b] > 0 => warned' # NoBand /\ warned' <= b
    BY <1>2, <2>2, <2>3
  <2> QED
    BY <1>2, <1>4, <2>1, <2>4 DEF DownOf, Seen
<1> QED
    BY <1>4, <1>9, <1>10, <1>11, <1>12, FromOneNext DEF TakenForOne

LEMMA DayAlone == ASSUME TypeOK, AloneInv, ~overlapped', Day PROVE AloneParts'
<1>1. ~overlapped /\ AloneParts /\ days \in Nat /\ days' = days - 1
  <2>1. days \in Nat
    BY DEF Day, TypeOK, Days
  <2> QED
    BY <2>1, AloneUnfold DEF Day, history
<1>2. UNCHANGED <<cert, warned, told, withheld, vetted, handled, faults>>
    BY DEF Day, history
<1>3. \A c \in Checks :
          /\ check'[c].pc = check[c].pc /\ check'[c].known = check[c].known
          /\ check'[c].write = check[c].write /\ check'[c].cert = check[c].cert
          /\ check[c].pc # "respond" => check'[c].days = check[c].days
          /\ check[c].pc = "respond" => check'[c].days = Earlier(check[c].days)
  <2> SUFFICES ASSUME NEW c \in Checks
               PROVE  /\ check'[c].pc = check[c].pc /\ check'[c].known = check[c].known
                      /\ check'[c].write = check[c].write /\ check'[c].cert = check[c].cert
                      /\ check[c].pc # "respond" => check'[c].days = check[c].days
                      /\ check[c].pc = "respond" => check'[c].days = Earlier(check[c].days)
    OBVIOUS
  <2>1. check[c] \in Check
    BY DEF TypeOK
  <2>2. check'[c] = IF check[c].pc = "respond"
                    THEN [check[c] EXCEPT !.days = Earlier(check[c].days)] ELSE check[c]
    BY DEF Day
  <2> QED
    BY <2>1, <2>2 DEF Check
<1>4. \A c \in Checks : check[c].days \in Days /\ check[c].cert \in Certs
    BY DEF TypeOK, Check
<1>5. OneInFlight' /\ FutureUntouched' /\ VettedIsAnnounced'
    BY <1>1, <1>2, <1>3 DEF AloneParts, OneInFlight, FutureUntouched, VettedIsAnnounced, Settled
<1>6. SnapshotsAreFresh'
  <2> SUFFICES ASSUME NEW c \in Checks PROVE FreshOf(c)'
    BY DEF SnapshotsAreFresh, FreshOf
  <2>1. FreshOf(c)
    BY <1>1 DEF AloneParts, SnapshotsAreFresh, FreshOf
  <2>2. Seen(c) /\ check[c].cert = cert => days' <= check'[c].days
    <3> SUFFICES ASSUME Seen(c), check[c].cert = cert PROVE days' <= check'[c].days
      OBVIOUS
    <3>1. days <= check[c].days /\ check[c].days \in Nat
      BY <1>1, <1>4, <2>1 DEF FreshOf, Days, Expired
    <3>2. check'[c].days \in {check[c].days, check[c].days - 1}
      BY <1>3, <3>1 DEF Earlier, Expired
    <3> QED
      BY <1>1, <3>1, <3>2
  <2> QED
    BY <1>2, <1>3, <2>1, <2>2 DEF FreshOf, Seen
<1>7. ASSUME faults' = 0 PROVE BandsGoDown'
  <2>1. BandsGoDown
    BY <1>1, <1>2, <1>7 DEF AloneParts
  <2>2. \A b \in Bands : b \in Nat
    BY CertificateAssumption
  <2>3. \A b \in Bands : told[cert][b] > 0 => days' <= b
    BY <1>1, <2>1, <2>2 DEF BandsGoDown
  <2>4. \A c \in Checks, b \in Bands :
            Seen(c) /\ told[check[c].cert][b] > 0 => check'[c].days <= b
    <3> SUFFICES ASSUME NEW c \in Checks, NEW b \in Bands, Seen(c), told[check[c].cert][b] > 0
                 PROVE  check'[c].days <= b
      OBVIOUS
    <3>1. check[c].days <= b
      BY <2>1 DEF BandsGoDown
    <3>2. Earlier(check[c].days) <= b
      BY <1>4, <2>2, <3>1 DEF Earlier, Days, Expired
    <3> QED
      BY <1>3, <3>1, <3>2
  <2> QED
    BY <1>2, <1>3, <2>1, <2>3, <2>4 DEF BandsGoDown, Seen, Known
<1> QED
    BY <1>5, <1>6, <1>7 DEF AloneParts

LEMMA RenewAlone ==
    ASSUME TypeOK, AloneInv, ~overlapped', NEW d \in Lifetimes, Renew(d) PROVE AloneParts'
<1>1. ~overlapped /\ AloneParts
    BY AloneUnfold DEF Renew
<1>2. /\ cert' = cert + 1 /\ cert < MaxRenewals /\ cert \in Nat /\ cert' \in Certs
      /\ handled' = NoBand
      /\ UNCHANGED <<check, warned, told, withheld, vetted, faults>>
    BY CertificateAssumption DEF Renew, TypeOK, Certs
<1>3. cert' \notin vetted /\ \A b \in Bands : told[cert'][b] = 0
    BY <1>1, <1>2 DEF AloneParts, FutureUntouched
<1>4. \A c \in Checks : check[c].cert \in Certs
    BY DEF TypeOK, Check
<1>5. OneInFlight' /\ VettedIsAnnounced'
    BY <1>1, <1>2, <1>3 DEF AloneParts, OneInFlight, VettedIsAnnounced, Settled
<1>6. FutureUntouched'
    BY <1>1, <1>2 DEF AloneParts, FutureUntouched, Certs
<1>7. SnapshotsAreFresh'
  <2> SUFFICES ASSUME NEW c \in Checks PROVE FreshOf(c)'
    BY DEF SnapshotsAreFresh, FreshOf
  <2>1. FreshOf(c)
    BY <1>1 DEF AloneParts, SnapshotsAreFresh, FreshOf
  <2>2. Seen(c) => check[c].cert < cert'
    BY <1>2, <1>4, <2>1, CertificateAssumption DEF FreshOf, Certs
  <2>3. Seen(c) => check[c].cert <= cert' /\ check[c].cert # cert'
    BY <1>2, <1>4, <2>2, CertificateAssumption DEF Certs
  <2> QED
    BY <1>2, <1>3, <2>1, <2>3 DEF FreshOf, Seen
<1>8. ASSUME faults' = 0 PROVE BandsGoDown'
  <2>1. BandsGoDown
    BY <1>1, <1>2, <1>8 DEF AloneParts
  <2> QED
    BY <1>2, <1>3, <2>1 DEF BandsGoDown, Seen, Known
<1> QED
    BY <1>5, <1>6, <1>7, <1>8 DEF AloneParts

LEMMA CallFailsAlone ==
    ASSUME TypeOK, AloneInv, ~overlapped', NEW c \in Checks, CallFails(c), SnapshotsAreHonest
    PROVE  AloneParts'
<1> DEFINE x == check[c]
<1>1. ~overlapped /\ AloneParts /\ x \in Check /\ x.pc # "idle" /\ Seen(c)
    BY AloneUnfold DEF CallFails, TypeOK, Seen
<1>2. /\ check' = [check EXCEPT ![c] = Idle] /\ Idle.pc = "idle"
      /\ UNCHANGED <<cert, days, warned, vetted, handled>>
      /\ faults' = faults + 1 /\ faults \in Nat
    BY CertificateAssumption DEF CallFails, Idle, Fault, TypeOK
<1>3. x.cert \in Certs /\ cert \in Certs /\ warned \in BandOr0
    BY <1>1 DEF Check, TypeOK
<1>4. check'[c] = Idle /\ OthersIdle(c) /\ OthersIdle(c)'
    BY <1>1, <1>2, OnlyOne
<1>5. FreshOf(c) /\ FutureUntouched /\ VettedOf(c)
    BY <1>1, <1>4, ToOne
<1>6. /\ \A k \in Certs, b \in Bands : Settled(k, b) => Settled(k, b)'
      /\ \A k \in Certs : k # x.cert => told'[k] = told[k]
  <2>1. CASE UNCHANGED <<told, withheld>>
    BY <2>1 DEF Settled
  <2>2. CASE x.pc = "notify" /\ Announce(c)
    <3>1. x.write \in Bands
      BY <2>2 DEF SnapshotsAreHonest
    <3>2. \A k \in Certs, b \in Bands : Settled(k, b) => Settled(k, b)'
      BY <1>3, <2>2, <3>1, NotifySettles
    <3>3. \A k \in Certs : k # x.cert => told'[k] = told[k]
      BY <2>2, <1>3 DEF Announce, TypeOK
    <3> QED
      BY <3>2, <3>3
  <2> QED
    BY <2>1, <2>2 DEF CallFails
<1>7. FreshOf(c)'
    BY <1>2, <1>4 DEF FreshOf, Seen
<1>8. FutureUntouched'
  <2>1. x.cert <= cert
    BY <1>1, <1>5 DEF FreshOf
  <2>2. \A k \in Certs : k > cert => k # x.cert
    BY <1>3, <2>1, CertificateAssumption DEF Certs
  <2> QED
    BY <1>2, <1>5, <1>6, <2>2 DEF FutureUntouched
<1>9. VettedOf(c)'
  <2> SUFFICES ASSUME cert \in vetted
               PROVE  /\ warned # NoBand => told'[cert][warned] > 0 \/ warned \in withheld'[cert]
                      /\ handled # NoBand => \E b \in Bands :
                            b <= handled /\ (told'[cert][b] > 0 \/ b \in withheld'[cert])
    BY <1>2, <1>4 DEF VettedOf, Settled
  <2>1. /\ warned # NoBand => Settled(cert, warned)
        /\ handled # NoBand => \E b \in Bands : b <= handled /\ Settled(cert, b)
    BY <1>5 DEF VettedOf
  <2> QED
    BY <1>2, <1>3, <1>6, <2>1 DEF BandOr0, Settled
<1>10. faults' # 0
    BY <1>2
<1> QED
    BY <1>4, <1>7, <1>8, <1>9, <1>10, FromOneNext DEF TakenForOne

LEMMA CrashAlone == ASSUME TypeOK, AloneInv, ~overlapped', Crash PROVE AloneParts'
<1>1. ~overlapped /\ AloneParts
    BY AloneUnfold DEF Crash, history
<1>2. /\ \A c \in Checks : check'[c].pc = "idle"
      /\ UNCHANGED <<cert, days, warned, told, withheld, vetted, handled>>
      /\ faults' # 0
    BY CertificateAssumption DEF Crash, history, Idle, Fault, TypeOK
<1>3. OneInFlight' /\ SnapshotsAreFresh'
    BY <1>2 DEF OneInFlight, SnapshotsAreFresh, Seen
<1>4. FutureUntouched' /\ VettedIsAnnounced'
    BY <1>1, <1>2 DEF AloneParts, FutureUntouched, VettedIsAnnounced, Settled
<1> QED
    BY <1>2, <1>3, <1>4 DEF AloneParts

LEMMA MuteAlone == ASSUME TypeOK, AloneInv, ~overlapped', Mute PROVE AloneParts'
<1>1. ~overlapped /\ AloneParts
    BY AloneUnfold DEF Mute, history
<1>2. UNCHANGED <<cert, days, warned, check, told, withheld, vetted, handled, faults>>
    BY DEF Mute, history
<1>3. OneInFlight' /\ SnapshotsAreFresh' /\ FutureUntouched'
    BY <1>1, <1>2 DEF AloneParts, OneInFlight, SnapshotsAreFresh, FutureUntouched, Seen
<1>4. VettedIsAnnounced' /\ (faults' = 0 => BandsGoDown')
    BY <1>1, <1>2 DEF AloneParts, VettedIsAnnounced, BandsGoDown, Seen, Known, Settled
<1> QED
    BY <1>3, <1>4 DEF AloneParts

LEMMA InitAlone == Init => AloneInv
<1> SUFFICES ASSUME Init PROVE AloneInv
    OBVIOUS
<1>1. \A c \in Checks : check[c].pc = "idle"
    BY DEF Init, Idle
<1>2. \A k \in Certs, b \in Bands : told[k][b] = 0
    BY DEF Init
<1>3. cert \in Certs /\ vetted = {}
    BY CertificateAssumption DEF Init, Certs
<1>4. OneInFlight /\ SnapshotsAreFresh
    BY <1>1 DEF OneInFlight, SnapshotsAreFresh, Seen
<1>5. FutureUntouched /\ VettedIsAnnounced
    BY <1>2, <1>3 DEF FutureUntouched, VettedIsAnnounced
<1>6. BandsGoDown
    BY <1>1, <1>2, <1>3 DEF BandsGoDown, Seen
<1> QED
    BY <1>4, <1>5, <1>6 DEF AloneInv

LEMMA StepAlone == CertificateInv /\ AloneInv /\ [Next]_vars => AloneInv'
<1> SUFFICES ASSUME CertificateInv, AloneInv, [Next]_vars PROVE AloneInv'
    OBVIOUS
<1>1. TypeOK /\ SnapshotsAreHonest
    BY DEF CertificateInv
<1>2. CASE UNCHANGED vars
    BY <1>2 DEF vars, AloneInv, OneInFlight, SnapshotsAreFresh, FutureUntouched, VettedIsAnnounced,
                BandsGoDown, Seen, Known, Settled
<1>3. ASSUME Next, ~overlapped' PROVE AloneParts'
  <2>1. ASSUME NEW c \in Checks, CheckStep(c) PROVE AloneParts'
    BY <1>1, <1>3, <2>1, QueueAlone, HandshakeAlone, RespondAlone, ClearAlone, NotifyAlone,
       UpdateAlone DEF CheckStep
  <2>2. ASSUME NEW c \in Checks, CallFails(c) PROVE AloneParts'
    BY <1>1, <1>3, <2>2, CallFailsAlone
  <2>3. CASE Day
    BY <1>1, <1>3, <2>3, DayAlone
  <2>4. ASSUME NEW d \in Lifetimes, Renew(d) PROVE AloneParts'
    BY <1>1, <1>3, <2>4, RenewAlone
  <2>5. CASE Crash
    BY <1>1, <1>3, <2>5, CrashAlone
  <2>6. CASE Mute
    BY <1>1, <1>3, <2>6, MuteAlone
  <2> QED
    BY <1>3, <2>1, <2>2, <2>3, <2>4, <2>5, <2>6 DEF Next
<1>4. CASE Next
    BY <1>3, <1>4 DEF AloneInv, AloneParts
<1> QED
    BY <1>2, <1>4

LEMMA AloneInvariant == Spec => []AloneInv
<1>1. Init => AloneInv
    BY InitAlone
<1>2. CertificateInv /\ AloneInv /\ [Next]_vars => AloneInv'
    BY StepAlone
<1> QED
    BY <1>1, <1>2, CertificateInvariant, PTL DEF Spec

\* "At most once per band" holds of every certificate, whatever the thresholds, as
\* long as no two checks of the site overlap and none fails: the bands announced of a
\* certificate only go down, and the record is the lowest of them.
THEOREM AnnouncedOncePerBand == Spec => []WarnedOncePerBand
<1>1. AloneInv => WarnedOncePerBand
    BY DEF AloneInv, BandsGoDown, WarnedOncePerBand
<1> QED
    BY <1>1, AloneInvariant, PTL

\* A certificate that was seen beyond every band is announced when it comes near, unless
\* its owner is muted just then, whatever was on record of the one before, and whatever failed in between.
THEOREM ApproachIsAnnounced == Spec => []NextApproachAnnounced
<1>1. AloneInv => NextApproachAnnounced
    BY DEF AloneInv, VettedIsAnnounced, NextApproachAnnounced
<1> QED
    BY <1>1, AloneInvariant, PTL

=============================================================================
