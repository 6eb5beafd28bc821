---------------------------- MODULE ChannelDelivery ----------------------------
(***************************************************************************)
(* One user's outbound channels: notify and deliverToChannel               *)
(* (notification.service.ts), the request each delivery makes              *)
(* (channels/http.ts), and the requests that create, edit, test and delete *)
(* channels meanwhile (channel.service.ts).                                *)
(*                                                                         *)
(* A delivery is a step per await.  What a destination answers is reduced  *)
(* to what the code tells apart: it accepts, it refuses, or it begins an   *)
(* error body that ends, stalls or breaks off.                             *)
(* lastError and the dates, which are only shown, are left out.            *)
(***************************************************************************)
EXTENDS Naturals, FiniteSets

CONSTANTS Channels,      \* ids a channel of the user's may have
          Notifies,      \* notify() calls that can be in flight at once
          Editors,       \* PATCH /channels/:id requests in flight
          MaxCreators,   \* POST /channels requests in flight at once
          Testers,       \* POST /channels/:id/test requests in flight
          MaxPerUser,    \* MAX_CHANNELS_PER_USER
          FailureLimit,  \* FAILURE_LIMIT
          MaxFlips,      \* bound: times a destination changes its mind
          MaxFaults      \* bound: failed database calls and restarts

ASSUME DeliveryAssumption ==
    /\ MaxPerUser \in Nat \ {0} /\ FailureLimit \in Nat \ {0}
    /\ MaxFlips \in Nat /\ MaxFaults \in Nat
    /\ MaxCreators \in Nat /\ Channels # {} /\ IsFiniteSet(Channels)

VARIABLES channel,       \* the notificationchannels collection, this user's part
          creating,      \* how many creates are past their count
          edit,          \* per editor: what its save() will write
          test,          \* per tester: its channel and where it is
          notify,        \* per notify call: where it is
          delivery,      \* per call and channel: where deliverToChannel is
          endpoint,      \* whether each destination accepts
          flips, faults

vars == <<channel, creating, edit, test, notify, delivery, endpoint, flips, faults>>

FailureCap == FailureLimit + 1     \* bound: counters saturate above the limit
Cap(n)     == IF n > FailureCap THEN FailureCap ELSE n

Channel == [phase : {"absent", "stored", "deleted"}, enabled : BOOLEAN, failures : 0 .. FailureCap]
\* an edit of a document holds the modified paths alone: that is what save() sends
Edit    == [pc : {"idle", "save"}, channel : Channels, enabled : {"on", "off", "same"},
            reset : BOOLEAN]
Test    == [pc : {"idle", "passed", "refused"}, channel : Channels]
Outcome == {"none", "done", "threw"}
Delivery == Outcome \union {"sending", "errorBody", "hung", "sent", "failed", "overLimit"}

TypeOK ==
    /\ channel \in [Channels -> Channel]
    /\ creating \in 0 .. MaxCreators
    /\ edit \in [Editors -> Edit]
    /\ test \in [Testers -> Test]
    /\ notify \in [Notifies -> {"idle", "store", "list", "deliver"}]
    /\ delivery \in [Notifies -> [Channels -> Delivery]]
    /\ endpoint \in [Channels -> {"up", "down"}]
    /\ flips \in 0 .. MaxFlips
    /\ faults \in 0 .. MaxFaults

AnyChannel == CHOOSE c \in Channels : TRUE
Absent == [phase |-> "absent", enabled |-> TRUE, failures |-> 0]
NoEdit == [pc |-> "idle", channel |-> AnyChannel, enabled |-> "same", reset |-> FALSE]
NoTest == [pc |-> "idle", channel |-> AnyChannel]

Init ==
    /\ channel = [c \in Channels |-> Absent]
    /\ creating = 0
    /\ edit = [e \in Editors |-> NoEdit]
    /\ test = [t \in Testers |-> NoTest]
    /\ notify = [n \in Notifies |-> "idle"]
    /\ delivery = [n \in Notifies |-> [c \in Channels |-> "none"]]
    /\ endpoint = [c \in Channels |-> "up"]
    /\ flips = 0 /\ faults = 0

Unused == {c \in Channels : channel[c].phase = "absent"}
NewId  == CHOOSE c \in Unused : TRUE
Stored == {c \in Channels : channel[c].phase = "stored"}
world  == <<endpoint, flips, faults>>
users  == <<creating, edit, test>>

-----------------------------------------------------------------------------
(* The user's requests (channel.service.ts)                                *)

CountInclusive ==          \* bug: existing > MAX_CHANNELS_PER_USER
    /\ creating < MaxCreators
    /\ Cardinality(Stored) <= MaxPerUser
    /\ creating' = creating + 1
    /\ UNCHANGED <<channel, edit, test, notify, delivery, world>>

\* countDocuments is below the limit; validateTarget is awaited before the create
CountChannels ==
    /\ creating < MaxCreators
    /\ Cardinality(Stored) < MaxPerUser
    /\ creating' = creating + 1
    /\ UNCHANGED <<channel, edit, test, notify, delivery, world>>

\* the target is refused, or NotificationChannel.create stores a new document
CreateChannel ==
    /\ creating > 0
    /\ creating' = creating - 1
    /\ \/ UNCHANGED channel
       \/ /\ Unused # {}
          /\ channel' = [channel EXCEPT ![NewId].phase = "stored"]
    /\ UNCHANGED <<edit, test, notify, delivery, world>>

\* updateChannel on the document it has read: what differs from it afterwards.  A
\* rename alone touches nothing that is modelled.
EditRead(e, c, enabled, retarget) ==
    LET now == IF channel[c].enabled THEN "on" ELSE "off"
    IN  /\ edit[e].pc = "idle"
        /\ enabled # "same" \/ retarget
        /\ c \in Stored
        /\ edit' = [edit EXCEPT ![e] =
             [pc |-> "save", channel |-> c,
              enabled |-> IF enabled = now THEN "same" ELSE enabled,
              reset   |-> (retarget \/ enabled = "on") /\ channel[c].failures # 0]]
        /\ UNCHANGED <<channel, creating, test, notify, delivery, world>>

\* The new target is refused, or save() fails, as it does when the document is gone;
\* otherwise the modified paths are written.
EditSave(e) ==
    LET x == edit[e]
        c == x.channel
    IN  /\ x.pc = "save"
        /\ \/ UNCHANGED channel
           \/ /\ c \in Stored
              /\ channel' = [channel EXCEPT
                    ![c].enabled  = IF x.enabled = "same" THEN @ ELSE x.enabled = "on",
                    ![c].failures = IF x.reset THEN 0 ELSE @]
        /\ edit' = [edit EXCEPT ![e] = NoEdit]
        /\ UNCHANGED <<creating, test, notify, delivery, world>>

\* deleteChannel: findOneAndDelete
DeleteChannel(c) ==
    /\ c \in Stored
    /\ channel' = [channel EXCEPT ![c].phase = "deleted"]
    /\ UNCHANGED <<users, notify, delivery, world>>

\* testChannel reads the document, whether the channel is enabled or not, and sends;
\* of the document it keeps the id alone, so reading and sending are one step.
TestSend(t, c) ==
    /\ test[t].pc = "idle"
    /\ c \in Stored
    /\ test' = [test EXCEPT ![t] =
                 [pc |-> IF endpoint[c] = "up" THEN "passed" ELSE "refused", channel |-> c]]
    /\ UNCHANGED <<channel, creating, edit, notify, delivery, world>>

\* updateOne: a success clears the failures, a failure is noted and not counted
TestRecord(t) ==
    LET c == test[t].channel
    IN  /\ test[t].pc # "idle"
        /\ channel' = IF c \in Stored /\ test[t].pc = "passed"
                      THEN [channel EXCEPT ![c].failures = 0] ELSE channel
        /\ test' = [test EXCEPT ![t] = NoTest]
        /\ UNCHANGED <<creating, edit, notify, delivery, world>>

-----------------------------------------------------------------------------
(* notify and deliverToChannel                                             *)

\* An event the user's settings do not silence; the call's earlier deliveries are over.
Start(n) ==
    /\ notify[n] = "idle"
    /\ \A c \in Channels : delivery[n][c] \in Outcome
    /\ notify' = [notify EXCEPT ![n] = "store"]
    /\ delivery' = [delivery EXCEPT ![n] = [c \in Channels |-> "none"]]
    /\ UNCHANGED <<channel, users, world>>

\* Notification.create: the in-app feed comes first
StoreNotification(n) ==
    /\ notify[n] = "store"
    /\ notify' = [notify EXCEPT ![n] = "list"]
    /\ UNCHANGED <<channel, users, delivery, world>>

\* find({ userId, enabled: true }), and a delivery to each of them at once
ListChannels(n) ==
    LET listed == {c \in Stored : channel[c].enabled}
    IN  /\ notify[n] = "list"
        /\ notify' = [notify EXCEPT ![n] = IF listed = {} THEN "idle" ELSE "deliver"]
        /\ delivery' = [delivery EXCEPT ![n] = [c \in Channels |->
                          IF c \in listed THEN "sending" ELSE "none"]]
        /\ UNCHANGED <<channel, users, world>>

To(n, c, pc) == delivery' = [delivery EXCEPT ![n][c] = pc]

SendInTurn(n, c) ==           \* bug: for (const channel of channels) await deliverToChannel
    /\ delivery[n][c] = "sending"
    /\ \A d \in Channels \ {c} : delivery[n][d] \in Outcome \union {"sending"}
    /\ \/ endpoint[c] = "up" /\ To(n, c, "sent")
       \/ endpoint[c] = "down" /\ \E pc \in {"failed", "errorBody"} : To(n, c, pc)
    /\ UNCHANGED <<channel, users, notify, world>>

\* adapter.send: a 2xx resolves; a refused address, a connection error, a timeout or
\* a status with an unreadable body rejects; any other status has its body read
Send(n, c) ==
    /\ delivery[n][c] = "sending"
    /\ \/ endpoint[c] = "up" /\ To(n, c, "sent")
       \/ endpoint[c] = "down" /\ \E pc \in {"failed", "errorBody"} : To(n, c, pc)
    /\ UNCHANGED <<channel, users, notify, world>>

\* the response's 'end', or the request's 'timeout' on a silent socket, rejects
BodyEnds(n, c) ==
    /\ delivery[n][c] = "errorBody"
    /\ To(n, c, "failed")
    /\ UNCHANGED <<channel, users, notify, world>>

\* The peer closes the connection inside the error body: the response is aborted,
\* and postJson listens for that neither on the response nor on the request.
BodyBreaks(n, c) ==
    /\ delivery[n][c] = "errorBody"
    /\ To(n, c, "hung")
    /\ UNCHANGED <<channel, users, notify, world>>

\* updateOne after a delivery that succeeded
RecordSuccess(n, c) ==
    /\ delivery[n][c] = "sent"
    /\ channel' = IF c \in Stored
                  THEN [channel EXCEPT ![c].failures = 0] ELSE channel
    /\ To(n, c, "done")
    /\ UNCHANGED <<users, notify, world>>

RecordUpsert(n, c) ==         \* bug: the failure is recorded with upsert: true
    LET failures == Cap(channel[c].failures + 1)
    IN  /\ delivery[n][c] = "failed"
        /\ channel' = [channel EXCEPT ![c].phase = "stored", ![c].failures = failures]
        /\ To(n, c, IF failures >= FailureLimit /\ channel[c].enabled THEN "overLimit" ELSE "done")
        /\ UNCHANGED <<users, notify, world>>

RecordAtLimit(n, c) ==        \* bug: the limit is tested with ===
    LET failures == Cap(channel[c].failures + 1)
    IN  /\ delivery[n][c] = "failed"
        /\ IF c \notin Stored THEN To(n, c, "done") /\ UNCHANGED channel
           ELSE /\ channel' = [channel EXCEPT ![c].failures = failures]
                /\ To(n, c, IF failures = FailureLimit /\ channel[c].enabled
                            THEN "overLimit" ELSE "done")
        /\ UNCHANGED <<users, notify, world>>

\* findOneAndUpdate with $inc, and the decision taken on the document it returns
RecordFailure(n, c) ==
    LET failures == Cap(channel[c].failures + 1)
    IN  /\ delivery[n][c] = "failed"
        /\ IF c \notin Stored THEN To(n, c, "done") /\ UNCHANGED channel
           ELSE /\ channel' = [channel EXCEPT ![c].failures = failures]
                /\ To(n, c, IF failures >= FailureLimit /\ channel[c].enabled
                            THEN "overLimit" ELSE "done")
        /\ UNCHANGED <<users, notify, world>>

\* the second write of the cut-off: updateOne({ enabled: false })
Disable(n, c) ==
    /\ delivery[n][c] = "overLimit"
    /\ channel' = IF c \in Stored THEN [channel EXCEPT ![c].enabled = FALSE] ELSE channel
    /\ To(n, c, "done")
    /\ UNCHANGED <<users, notify, world>>

ReturnAtCount(n) ==           \* bug: a counter that a thrown delivery does not reach
    /\ notify[n] = "deliver"
    /\ \A c \in Channels : delivery[n][c] \in {"none", "done"}
    /\ notify' = [notify EXCEPT ![n] = "idle"]
    /\ UNCHANGED <<channel, users, delivery, world>>

\* Promise.all: every delivery is done, or one has thrown and the rest go on alone
Return(n) ==
    /\ notify[n] = "deliver"
    /\ \/ \A c \in Channels : delivery[n][c] \in {"none", "done"}
       \/ \E c \in Channels : delivery[n][c] = "threw"
    /\ notify' = [notify EXCEPT ![n] = "idle"]
    /\ delivery' = [delivery EXCEPT ![n] = [c \in Channels |->
                      IF @[c] \in Outcome THEN "none" ELSE @[c]]]
    /\ UNCHANGED <<channel, users, world>>

-----------------------------------------------------------------------------
(* Failures                                                                *)

Fault == faults < MaxFaults /\ faults' = faults + 1

\* A write of deliverToChannel fails.  After a success it lands in the catch and is
\* counted against the channel; inside the catch nothing catches it.
RecordFails(n, c) ==
    /\ Fault
    /\ \/ delivery[n][c] = "sent" /\ To(n, c, "failed")
       \/ delivery[n][c] \in {"failed", "overLimit"} /\ To(n, c, "threw")
    /\ UNCHANGED <<channel, users, notify, endpoint, flips>>

\* The process stops and starts again.
Crash ==
    /\ Fault
    /\ creating' = 0
    /\ edit' = [e \in Editors |-> NoEdit]
    /\ test' = [t \in Testers |-> NoTest]
    /\ notify' = [n \in Notifies |-> "idle"]
    /\ delivery' = [n \in Notifies |-> [c \in Channels |-> "none"]]
    /\ UNCHANGED <<channel, endpoint, flips>>

\* A destination starts or stops accepting.
Flip(c) ==
    /\ flips < MaxFlips
    /\ flips' = flips + 1
    /\ endpoint' = [endpoint EXCEPT ![c] = IF @ = "up" THEN "down" ELSE "up"]
    /\ UNCHANGED <<channel, users, notify, delivery, faults>>

Deliver(n, c) ==
    \/ Send(n, c) \/ BodyEnds(n, c) \/ RecordSuccess(n, c) \/ RecordFailure(n, c) \/ Disable(n, c)

Advance(n) == StoreNotification(n) \/ ListChannels(n) \/ Return(n)

Next ==
    \/ CountChannels \/ CreateChannel
    \/ \E e \in Editors, c \in Channels, enabled \in {"on", "off", "same"}, retarget \in BOOLEAN :
          EditRead(e, c, enabled, retarget)
    \/ \E e \in Editors : EditSave(e)
    \/ \E c \in Channels : DeleteChannel(c) \/ Flip(c)
    \/ \E t \in Testers : TestRecord(t) \/ \E c \in Channels : TestSend(t, c)
    \/ \E n \in Notifies : Start(n) \/ Advance(n)
    \/ \E n \in Notifies, c \in Channels : Deliver(n, c) \/ BodyBreaks(n, c) \/ RecordFails(n, c)
    \/ Crash

Spec == Init /\ [][Next]_vars

\* Continuations whose await has settled are run; an answered request is handled.
\* Nothing is assumed of a connection that breaks, of events or of users.
FairSpec ==
    /\ Spec
    /\ \A n \in Notifies : WF_vars(Advance(n))
    /\ \A n \in Notifies, c \in Channels : WF_vars(Deliver(n, c))

-----------------------------------------------------------------------------
(* Properties                                                              *)

Hung(n) == \E c \in Channels : delivery[n][c] = "hung"

\* "You can have at most 10 notification channels" (channel.service.ts:88): the
\* count and the create are two steps, and creates that race for the last place
\* overshoot it by one each, never by more, however they are interleaved.
OvershootIsBounded ==
    Cardinality(Stored) + creating < MaxPerUser + MaxCreators

\* The inductive invariant.
DeliveryInv == TypeOK /\ OvershootIsBounded

\* A deleted channel stays deleted, deliveries, tests and edits of it that are
\* still in flight notwithstanding.
DeletedStaysDeleted ==
    [][\A c \in Channels : channel[c].phase = "deleted" => channel'[c].phase = "deleted"]_vars

\* "A channel that keeps failing is disabled rather than retried forever"
\* (notification.service.ts:64-65), also when the process stops between counting
\* the last failure and disabling: a destination that is down for good, with
\* nobody editing, is not sent to for ever.
DeadChannelNotRetriedForever ==
    \A c \in Channels :
        <>[](/\ endpoint[c] = "down"
             /\ \A e \in Editors : edit[e].pc = "idle"
             /\ \A n \in Notifies : ~Hung(n))
            => <>[](\A n \in Notifies : delivery[n][c] # "sending")

\* "One dead webhook must not stop an email" (notification.service.ts:117): each
\* listed channel is attempted, even while another delivery of the same call hangs.
EachChannelAttempted ==
    \A n \in Notifies, c \in Channels : delivery[n][c] = "sending" ~> delivery[n][c] # "sending"

\* A notify call ends, unless one of its requests broke off inside an error body.
NotifyEnds == \A n \in Notifies : notify[n] = "deliver" ~> notify[n] = "idle" \/ Hung(n)

=============================================================================
