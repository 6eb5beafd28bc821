------------------------- MODULE ChannelDelivery_proofs -------------------------
(***************************************************************************)
(* Theorems of ChannelDelivery, for any number of channels, requests and   *)
(* notify calls, and any limits.                                           *)
(*                                                                         *)
(* The bound on stored channels is inductive together with the types: a    *)
(* create moves one from "creating" to "stored" and a count adds one only  *)
(* below the limit.                                                        *)
(***************************************************************************)
EXTENDS ChannelDelivery, FiniteSetTheorems, TLAPS

Phases == [c \in Channels |-> channel[c].phase]

LEMMA InitTypes == Init => TypeOK
<1> SUFFICES ASSUME Init PROVE TypeOK
    OBVIOUS
<1> USE DeliveryAssumption
<1>0. 0 \in 0 .. FailureCap
    BY DEF FailureCap
<1>1. AnyChannel \in Channels
    BY DEF AnyChannel
<1>2. Absent \in Channel
    BY <1>0 DEF Absent, Channel
<1>3. NoEdit \in Edit
    BY <1>1 DEF NoEdit, Edit
<1>4. NoTest \in Test
    BY <1>1 DEF NoTest, Test
<1>5. channel \in [Channels -> Channel]
    BY <1>2 DEF Init
<1>6. /\ edit \in [Editors -> Edit]
      /\ test \in [Testers -> Test]
    BY <1>3, <1>4 DEF Init
<1>7. delivery \in [Notifies -> [Channels -> Delivery]]
    BY DEF Init, Delivery, Outcome
<1>8. /\ creating \in 0 .. MaxCreators
      /\ notify \in [Notifies -> {"idle", "store", "list", "deliver"}]
      /\ endpoint \in [Channels -> {"up", "down"}]
      /\ flips \in 0 .. MaxFlips /\ faults \in 0 .. MaxFaults
    BY DEF Init
<1> QED
    BY <1>5, <1>6, <1>7, <1>8 DEF TypeOK

\* What every step may do to the collection: phases change by a create or a delete
\* alone, and the documents stay documents.
LEMMA CapRange == ASSUME NEW n \in Nat PROVE Cap(n) \in 0 .. FailureCap
    BY DeliveryAssumption DEF Cap, FailureCap

LEMMA ToTypes ==
    ASSUME TypeOK, NEW n \in Notifies, NEW c \in Channels, NEW pc \in Delivery, To(n, c, pc)
    PROVE  delivery' \in [Notifies -> [Channels -> Delivery]]
<1>1. delivery' = [delivery EXCEPT ![n] = [delivery[n] EXCEPT ![c] = pc]]
    BY DEF To
<1>2. delivery[n] \in [Channels -> Delivery]
    BY DEF TypeOK
<1>3. [delivery[n] EXCEPT ![c] = pc] \in [Channels -> Delivery]
    BY <1>2
<1> QED
    BY <1>1, <1>3 DEF TypeOK

LEMMA StepTypes == ASSUME TypeOK, [Next]_vars PROVE TypeOK'
<1> USE DeliveryAssumption
<1>a. /\ AnyChannel \in Channels
      /\ NoEdit \in Edit /\ NoTest \in Test
    BY DEF AnyChannel, NoEdit, NoTest, Edit, Test
<1>b. 0 \in 0 .. FailureCap
    BY DEF FailureCap
<1>1. CASE UNCHANGED vars
    BY <1>1 DEF TypeOK, vars
<1>2. CASE CountChannels
    BY <1>2 DEF TypeOK, CountChannels, world
<1>3. CASE CreateChannel
  <2>1. creating' \in 0 .. MaxCreators
    BY <1>3 DEF TypeOK, CreateChannel
  <2>2. channel' \in [Channels -> Channel]
    <3>1. CASE UNCHANGED channel
      BY <3>1 DEF TypeOK
    <3>2. CASE Unused # {} /\ channel' = [channel EXCEPT ![NewId].phase = "stored"]
      <4>1. NewId \in Channels
        BY <3>2 DEF Unused, NewId
      <4>2. [channel[NewId] EXCEPT !.phase = "stored"] \in Channel
        BY <4>1 DEF TypeOK, Channel
      <4> QED
        BY <3>2, <4>1, <4>2 DEF TypeOK
    <3> QED
      BY <1>3, <3>1, <3>2 DEF CreateChannel
  <2> QED
    BY <1>3, <2>1, <2>2 DEF TypeOK, CreateChannel, world
<1>4. ASSUME NEW e \in Editors, NEW c \in Channels,
             NEW enabled \in {"on", "off", "same"}, NEW retarget \in BOOLEAN,
             EditRead(e, c, enabled, retarget)
      PROVE  TypeOK'
  <2> DEFINE new == [pc |-> "save", channel |-> c,
                     enabled |-> IF enabled = (IF channel[c].enabled THEN "on" ELSE "off")
                                 THEN "same" ELSE enabled,
                     reset   |-> (retarget \/ enabled = "on") /\ channel[c].failures # 0]
  <2>1. new \in Edit
    BY DEF Edit
  <2>2. edit' = [edit EXCEPT ![e] = new]
    BY <1>4 DEF EditRead
  <2> HIDE DEF new
  <2>3. edit' \in [Editors -> Edit]
    BY <2>1, <2>2 DEF TypeOK
  <2> QED
    BY <1>4, <2>3 DEF TypeOK, EditRead, world
<1>5. ASSUME NEW e \in Editors, EditSave(e) PROVE TypeOK'
  <2> DEFINE x == edit[e]
             d == [channel[x.channel] EXCEPT
                     !.enabled  = IF x.enabled = "same" THEN channel[x.channel].enabled
                                  ELSE x.enabled = "on",
                     !.failures = IF x.reset THEN 0 ELSE channel[x.channel].failures]
  <2>1. x.channel \in Channels
    BY DEF TypeOK, Edit
  <2>2. channel[x.channel] \in Channel
    BY <2>1 DEF TypeOK
  <2>3. (IF x.enabled = "same" THEN channel[x.channel].enabled ELSE x.enabled = "on") \in BOOLEAN
    BY <2>2 DEF Channel
  <2>4. (IF x.reset THEN 0 ELSE channel[x.channel].failures) \in 0 .. FailureCap
    BY <2>2, <1>b DEF Channel
  <2>5. d \in Channel
    BY <2>2, <2>3, <2>4 DEF Channel
  <2>6. channel' = channel \/ channel' = [channel EXCEPT ![x.channel] = d]
    BY <1>5, <2>1 DEF EditSave, TypeOK
  <2> HIDE DEF d
  <2>7. channel' \in [Channels -> Channel]
    BY <2>1, <2>5, <2>6 DEF TypeOK
  <2>8. edit' \in [Editors -> Edit]
    BY <1>5, <1>a DEF EditSave, TypeOK
  <2> QED
    BY <1>5, <2>7, <2>8 DEF TypeOK, EditSave, world
<1>6. ASSUME NEW c \in Channels, DeleteChannel(c) PROVE TypeOK'
  <2>1. [channel[c] EXCEPT !.phase = "deleted"] \in Channel
    BY DEF TypeOK, Channel
  <2>2. channel' \in [Channels -> Channel]
    BY <1>6, <2>1 DEF DeleteChannel, TypeOK
  <2> QED
    BY <1>6, <2>2 DEF TypeOK, DeleteChannel, users, world
<1>7. ASSUME NEW c \in Channels, Flip(c) PROVE TypeOK'
    BY <1>7 DEF TypeOK, Flip, users
<1>8. ASSUME NEW t \in Testers, NEW c \in Channels, TestSend(t, c) PROVE TypeOK'
    BY <1>8 DEF TypeOK, TestSend, Test, world
<1>9. ASSUME NEW t \in Testers, TestRecord(t) PROVE TypeOK'
  <2>1. test[t].channel \in Channels
    BY DEF TypeOK, Test
  <2>2. [channel[test[t].channel] EXCEPT !.failures = 0] \in Channel
    BY <2>1, <1>b, ZenonT(60) DEF TypeOK, Channel
  <2>3. channel' \in [Channels -> Channel]
    BY <1>9, <2>1, <2>2 DEF TestRecord, TypeOK
  <2>4. test' \in [Testers -> Test]
    BY <1>9, <1>a DEF TestRecord, TypeOK
  <2> QED
    BY <1>9, <2>3, <2>4 DEF TypeOK, TestRecord, world
<1>10. ASSUME NEW n \in Notifies, Start(n) \/ Advance(n) PROVE TypeOK'
  <2>1. notify' \in [Notifies -> {"idle", "store", "list", "deliver"}]
    BY <1>10 DEF TypeOK, Start, Advance, StoreNotification, ListChannels, Return
  <2>2. delivery' \in [Notifies -> [Channels -> Delivery]]
    <3>1. CASE Start(n)
      BY <3>1 DEF Start, TypeOK, Delivery, Outcome
    <3>2. CASE StoreNotification(n)
      BY <3>2 DEF StoreNotification, TypeOK
    <3>3. CASE ListChannels(n)
      BY <3>3 DEF ListChannels, TypeOK, Delivery, Outcome
    <3>4. CASE Return(n)
      <4> DEFINE row == [c \in Channels |-> IF delivery[n][c] \in Outcome THEN "none"
                                            ELSE delivery[n][c]]
      <4>1. row \in [Channels -> Delivery]
        BY DEF TypeOK, Delivery, Outcome
      <4>2. delivery' = [delivery EXCEPT ![n] = row]
        BY <3>4 DEF Return, TypeOK
      <4> QED
        BY <4>1, <4>2 DEF TypeOK
    <3> QED
      BY <1>10, <3>1, <3>2, <3>3, <3>4 DEF Advance
  <2> QED
    BY <1>10, <2>1, <2>2
    DEF TypeOK, Start, Advance, StoreNotification, ListChannels, Return, users, world
<1>11. ASSUME NEW n \in Notifies, NEW c \in Channels,
              Send(n, c) \/ BodyEnds(n, c) \/ BodyBreaks(n, c) \/ RecordFails(n, c)
       PROVE  TypeOK'
  <2>1. delivery' \in [Notifies -> [Channels -> Delivery]]
    <3>1. \E pc \in Delivery : To(n, c, pc)
      BY <1>11 DEF Send, BodyEnds, BodyBreaks, RecordFails, Delivery, Outcome
    <3> QED
      BY <3>1, ToTypes
  <2> QED
    BY <1>11, <2>1
    DEF TypeOK, Send, BodyEnds, BodyBreaks, RecordFails, Fault, users, world
<1>12. ASSUME NEW n \in Notifies, NEW c \in Channels,
              RecordSuccess(n, c) \/ RecordFailure(n, c) \/ Disable(n, c)
       PROVE  TypeOK'
  <2>1. delivery' \in [Notifies -> [Channels -> Delivery]]
    <3>1. \E pc \in Delivery : To(n, c, pc)
      BY <1>12 DEF RecordSuccess, RecordFailure, Disable, Delivery, Outcome
    <3> QED
      BY <3>1, ToTypes
  <2>2. channel[c] \in Channel
    BY DEF TypeOK
  <2>3. Cap(channel[c].failures + 1) \in 0 .. FailureCap
    BY <2>2, CapRange DEF Channel
  <2>4. \A f \in 0 .. FailureCap : [channel EXCEPT ![c].failures = f] \in [Channels -> Channel]
    <3> TAKE f \in 0 .. FailureCap
    <3>1. [channel[c] EXCEPT !.failures = f] \in Channel
      BY <2>2 DEF Channel
    <3> QED
      BY <3>1 DEF TypeOK
  <2>5. [channel EXCEPT ![c].enabled = FALSE] \in [Channels -> Channel]
    <3>1. [channel[c] EXCEPT !.enabled = FALSE] \in Channel
      BY <2>2 DEF Channel
    <3> QED
      BY <3>1 DEF TypeOK
  <2>6. channel' \in [Channels -> Channel]
    BY <1>12, <1>b, <2>3, <2>4, <2>5 DEF TypeOK, RecordSuccess, RecordFailure, Disable
  <2> QED
    BY <1>12, <2>1, <2>6
    DEF TypeOK, RecordSuccess, RecordFailure, Disable, users, world
<1>13. CASE Crash
    BY <1>13, <1>a DEF TypeOK, Crash, Fault, Delivery, Outcome
<1> QED
    BY <1>1, <1>2, <1>3, <1>4, <1>5, <1>6, <1>7, <1>8, <1>9, <1>10, <1>11, <1>12, <1>13
    DEF Next, Deliver

\* TypeOK holds of every behaviour, for any number of channels and requests.
THEOREM DeliveryTypes == Spec => []TypeOK
<1> QED
    BY InitTypes, StepTypes, PTL DEF Spec

-----------------------------------------------------------------------------
\* A step other than a count, a create, a delete or a crash leaves the set of
\* stored channels and the creates in flight as they are.
LEMMA PhasesKept ==
    ASSUME TypeOK, [Next]_vars
    PROVE  \/ Phases' = Phases /\ creating' = creating
           \/ CountChannels \/ CreateChannel \/ Crash
           \/ \E c \in Channels : DeleteChannel(c)
<1>1. CASE UNCHANGED vars
    BY <1>1 DEF vars, Phases
<1>2. ASSUME NEW e \in Editors, NEW c \in Channels,
             NEW enabled \in {"on", "off", "same"}, NEW retarget \in BOOLEAN,
             EditRead(e, c, enabled, retarget)
      PROVE  Phases' = Phases /\ creating' = creating
    BY <1>2 DEF EditRead, Phases
<1>3. ASSUME NEW e \in Editors, EditSave(e)
      PROVE  Phases' = Phases /\ creating' = creating
    BY <1>3 DEF EditSave, Phases, TypeOK, Edit, Channel
<1>4. ASSUME NEW t \in Testers, TestRecord(t) \/ \E c \in Channels : TestSend(t, c)
      PROVE  Phases' = Phases /\ creating' = creating
    BY <1>4 DEF TestRecord, TestSend, Phases, TypeOK, Test, Channel
<1>5. ASSUME NEW n \in Notifies, Start(n) \/ Advance(n)
      PROVE  Phases' = Phases /\ creating' = creating
    BY <1>5 DEF Start, Advance, StoreNotification, ListChannels, Return, users, Phases
<1>6. ASSUME NEW n \in Notifies, NEW c \in Channels,
             Deliver(n, c) \/ BodyBreaks(n, c) \/ RecordFails(n, c)
      PROVE  Phases' = Phases /\ creating' = creating
  <2>1. creating' = creating
    BY <1>6 DEF Deliver, Send, BodyEnds, BodyBreaks, RecordSuccess, RecordFailure, Disable,
                RecordFails, users
  <2>2. CASE UNCHANGED channel
    BY <2>1, <2>2 DEF Phases
  <2>3. CASE ~ UNCHANGED channel
    <3>1. \/ \E f : channel' = [channel EXCEPT ![c].failures = f]
          \/ channel' = [channel EXCEPT ![c].enabled = FALSE]
      BY <1>6, <2>3 DEF Deliver, Send, BodyEnds, BodyBreaks, RecordSuccess, RecordFailure,
                        Disable, RecordFails
    <3>2. \A d \in Channels : channel'[d].phase = channel[d].phase
      <4>1. ASSUME NEW f, channel' = [channel EXCEPT ![c].failures = f]
            PROVE  \A d \in Channels : channel'[d].phase = channel[d].phase
        BY <4>1 DEF TypeOK, Channel
      <4>2. CASE channel' = [channel EXCEPT ![c].enabled = FALSE]
        BY <4>2 DEF TypeOK, Channel
      <4> QED
        BY <3>1, <4>1, <4>2
    <3> QED
      BY <2>1, <3>2 DEF Phases
  <2> QED
    BY <2>2, <2>3
<1>7. ASSUME NEW c \in Channels, Flip(c)
      PROVE  Phases' = Phases /\ creating' = creating
    BY <1>7 DEF Flip, users, Phases
<1> QED
    BY <1>1, <1>2, <1>3, <1>4, <1>5, <1>6, <1>7 DEF Next

LEMMA StoredByPhase == Stored = {c \in Channels : Phases[c] = "stored"}
    BY DEF Stored, Phases

LEMMA StoredFinite == IsFiniteSet(Stored) /\ Cardinality(Stored) \in Nat
    BY DeliveryAssumption, FS_Subset, FS_CardinalityType DEF Stored

\* However many creates race for the last places, a user's channels exceed the
\* limit by fewer than there are requests.
THEOREM OvershootBounded == Spec => []DeliveryInv
<1>1. Init => DeliveryInv
  <2> SUFFICES ASSUME Init PROVE OvershootIsBounded
    BY InitTypes DEF DeliveryInv
  <2>1. Stored = {}
    BY DEF Init, Stored, Absent
  <2> QED
    BY <2>1, FS_EmptySet, DeliveryAssumption DEF OvershootIsBounded, Init
<1>2. DeliveryInv /\ [Next]_vars => DeliveryInv'
  <2> SUFFICES ASSUME DeliveryInv, [Next]_vars PROVE OvershootIsBounded'
    BY StepTypes DEF DeliveryInv
  <2> USE DeliveryAssumption
  <2>0. TypeOK /\ creating \in Nat /\ Cardinality(Stored) \in Nat
    BY StoredFinite DEF DeliveryInv, TypeOK
  <2>1. CASE Phases' = Phases /\ creating' = creating
    <3>1. Stored' = Stored
      BY <2>1 DEF Stored, Phases
    <3> QED
      BY <2>1, <3>1 DEF DeliveryInv, OvershootIsBounded
  <2>2. CASE CountChannels
    <3>1. Stored' = Stored
      BY <2>2 DEF CountChannels, Stored
    <3>2. /\ Cardinality(Stored) < MaxPerUser
          /\ creating < MaxCreators
          /\ creating' = creating + 1
      BY <2>2 DEF CountChannels
    <3> QED
      BY <2>0, <3>1, <3>2 DEF OvershootIsBounded
  <2>3. CASE CreateChannel
    <3>1. creating' = creating - 1
      BY <2>3 DEF CreateChannel
    <3>2. CASE UNCHANGED channel
      <4>1. Stored' = Stored
        BY <3>2 DEF Stored
      <4> QED
        BY <2>0, <3>1, <4>1 DEF DeliveryInv, OvershootIsBounded
    <3>3. CASE Unused # {} /\ channel' = [channel EXCEPT ![NewId].phase = "stored"]
      <4>1. NewId \in Channels /\ NewId \notin Stored
        BY <3>3 DEF Unused, NewId, Stored
      <4>2. Stored' = Stored \union {NewId}
        BY <2>0, <3>3, <4>1 DEF Stored, TypeOK, Channel
      <4>3. Cardinality(Stored \union {NewId}) = Cardinality(Stored) + 1
        BY <4>1, StoredFinite, FS_AddElement
      <4> QED
        BY <2>0, <3>1, <4>2, <4>3 DEF DeliveryInv, OvershootIsBounded
    <3> QED
      BY <2>3, <3>2, <3>3 DEF CreateChannel
  <2>4. CASE Crash
    <3>1. Stored' = Stored /\ creating' = 0
      BY <2>4 DEF Crash, Stored
    <3> QED
      BY <2>0, <3>1 DEF DeliveryInv, OvershootIsBounded
  <2>5. ASSUME NEW c \in Channels, DeleteChannel(c) PROVE OvershootIsBounded'
    <3>1. Stored' \subseteq Stored /\ creating' = creating
      BY <2>0, <2>5 DEF DeleteChannel, users, Stored, TypeOK, Channel
    <3>2. Cardinality(Stored') <= Cardinality(Stored) /\ Cardinality(Stored') \in Nat
      BY <3>1, StoredFinite, FS_Subset, FS_CardinalityType
    <3> QED
      BY <2>0, <3>1, <3>2 DEF DeliveryInv, OvershootIsBounded
  <2> QED
    BY <2>0, <2>1, <2>2, <2>3, <2>4, <2>5, PhasesKept
<1> QED
    BY <1>1, <1>2, PTL DEF Spec

\* No delivery, test or edit in flight brings a deleted channel back.
THEOREM ChannelStaysDeleted == Spec => DeletedStaysDeleted
<1>1. TypeOK /\ [Next]_vars
         => [\A c \in Channels :
                channel[c].phase = "deleted" => channel'[c].phase = "deleted"]_vars
  <2> SUFFICES ASSUME TypeOK, [Next]_vars, NEW c \in Channels, channel[c].phase = "deleted"
               PROVE  channel'[c].phase = "deleted"
    OBVIOUS
  <2>1. CASE Phases' = Phases
    <3>1. Phases'[c] = Phases[c]
      BY <2>1
    <3> QED
      BY <3>1 DEF Phases
  <2>2. CASE CountChannels \/ Crash
    BY <2>2 DEF CountChannels, Crash
  <2>3. CASE CreateChannel
    <3>1. Unused # {} => NewId \in Channels /\ NewId # c
      BY DEF Unused, NewId
    <3> QED
      BY <2>3, <3>1 DEF CreateChannel, TypeOK
  <2>4. ASSUME NEW d \in Channels, DeleteChannel(d) PROVE channel'[c].phase = "deleted"
    BY <2>4 DEF DeleteChannel, TypeOK, Channel
  <2> QED
    BY <2>1, <2>2, <2>3, <2>4, PhasesKept
<1> QED
    BY <1>1, DeliveryTypes, PTL DEF Spec, DeletedStaysDeleted

=============================================================================
