------------------------------- MODULE PubSub -------------------------------
(***************************************************************************)
(* Events of Module 2 and their subscribers in the process:                *)
(* module2-orchestrator/pkg/pubsub/redis_pubsub.go, one channel.           *)
(*                                                                         *)
(* publish copies the slice of subscribers under the lock and walks it     *)
(* without, and a Go slice is a length and a pointer to an array that      *)
(* Subscribe and Unsubscribe change in place.  A channel that subscribes   *)
(* twice is in the slice twice.  A send that finds the channel full drops  *)
(* the message: here a subscriber is offered a message.                    *)
(*                                                                         *)
(* What Redis holds is outside: the key that PublishQueueDepth sets is on  *)
(* the server of the client, and SetAddress goes on to another one.        *)
(***************************************************************************)
EXTENDS Naturals, Sequences, FiniteSets

CONSTANTS Publisher,     \* goroutines that publish
          Subscriber,    \* Go channels
          MaxPublishes,  \* bound: events of a publisher
          MaxChanges     \* bound: calls of Subscribe, Unsubscribe and SetAddress

ASSUME PubSubAssumption ==
    /\ MaxPublishes \in Nat
    /\ MaxChanges \in Nat

VARIABLES
    arrays,        \* the arrays that were ever allocated; Len is the capacity
    slice,         \* subscribers[channel]: [array, len], array 0 for none
    closed,
    clientOpen,    \* the client that r.client points to was not closed
    pub,           \* pub[p]: the call of publish that p is in
    subscriptions, \* subscriptions[s]: calls of Subscribe for s less those of Unsubscribe
    changes

pubsubVars == <<arrays, slice, closed, clientOpen, pub, subscriptions, changes>>

Zero == [s \in Subscriber |-> 0]
Subscribed == {s \in Subscriber : subscriptions[s] > 0}

PubSubInit ==
    /\ arrays = <<>>
    /\ slice = [array |-> 0, len |-> 0]
    /\ closed = FALSE
    /\ clientOpen = TRUE
    /\ pub = [p \in Publisher |-> [pc |-> "idle", event |-> 0, slice |-> [array |-> 0, len |-> 0], i |-> 0,
                                   targets |-> {}, owed |-> Zero, disturbed |-> FALSE, offers |-> Zero]]
    /\ subscriptions = Zero
    /\ changes = 0

\* The elements of a slice, as its array has them now.
Elements(sl) == IF sl.len = 0 THEN <<>> ELSE SubSeq(arrays[sl.array], 1, sl.len)
Capacity(sl) == IF sl.array = 0 THEN 0 ELSE Len(arrays[sl.array])

CountChange == changes < MaxChanges /\ changes' = changes + 1

\* History for the properties: the calls of publish that walk the slice now note what happened.
Walking(note(_)) == pub' = [p \in Publisher |-> IF pub[p].pc = "walk" THEN note(pub[p]) ELSE pub[p]]

\* append in place if there is room, else into an array of twice the capacity.
Subscribe(s) ==
    /\ CountChange
    /\ IF slice.len < Capacity(slice)
         THEN /\ arrays' = [arrays EXCEPT ![slice.array][slice.len + 1] = s]
              /\ slice' = [slice EXCEPT !.len = @ + 1]
         ELSE LET spare == IF slice.len = 0 THEN 0 ELSE slice.len - 1
              IN  /\ arrays' = Append(arrays, Elements(slice) \o <<s>> \o [i \in 1..spare |-> s])
                  /\ slice' = [array |-> Len(arrays) + 1, len |-> slice.len + 1]
    /\ subscriptions' = [subscriptions EXCEPT ![s] = @ + 1]
    /\ Walking(LAMBDA call : [call EXCEPT !.targets = @ \cup {s}])
    /\ UNCHANGED <<closed, clientOpen>>

\* Where the loop of Unsubscribe finds s.
FirstPlace(s) ==
    CHOOSE j \in 1..slice.len : Elements(slice)[j] = s /\ \A k \in 1..j - 1 : Elements(slice)[k] # s

\* Mutant: the elements move and the length stays.
UnsubscribeKeepsLength(s) ==
    LET i == FirstPlace(s)
    IN  /\ s \in Subscribed
        /\ CountChange
        /\ arrays' = [arrays EXCEPT ![slice.array] =
                          [j \in DOMAIN @ |-> IF j >= i /\ j < slice.len THEN @[j + 1] ELSE @[j]]]
        /\ subscriptions' = [subscriptions EXCEPT ![s] = @ - 1]
        /\ Walking(LAMBDA call : [call EXCEPT !.disturbed = TRUE])
        /\ UNCHANGED <<slice, closed, clientOpen>>

\* append(subs[:i], subs[i+1:]...) moves the elements in the array itself.  For a
\* channel that is not there nothing happens.
Unsubscribe(s) ==
    LET i == FirstPlace(s)
    IN  /\ s \in Subscribed
        /\ CountChange
        /\ arrays' = [arrays EXCEPT ![slice.array] =
                          [j \in DOMAIN @ |-> IF j >= i /\ j < slice.len THEN @[j + 1] ELSE @[j]]]
        /\ slice' = [slice EXCEPT !.len = @ - 1]
        /\ subscriptions' = [subscriptions EXCEPT ![s] = @ - 1]
        /\ Walking(LAMBDA call : [call EXCEPT !.disturbed = TRUE])
        /\ UNCHANGED <<closed, clientOpen>>

\* A client of another server, also after Close.
SetAddress ==
    /\ CountChange
    /\ clientOpen' = TRUE
    /\ UNCHANGED <<arrays, slice, closed, pub, subscriptions>>

Close ==
    /\ ~closed
    /\ closed' = TRUE
    /\ clientOpen' = FALSE
    /\ UNCHANGED <<arrays, slice, pub, subscriptions, changes>>

Rest == UNCHANGED <<arrays, slice, closed, clientOpen, subscriptions, changes>>
Step(p, where) == pub' = [pub EXCEPT ![p].pc = where]

\* One of the five Publish functions is called.
Publish(p, depth) ==
    /\ pub[p].pc = "idle"
    /\ pub[p].event < MaxPublishes
    /\ pub' = [pub EXCEPT ![p] = [@ EXCEPT !.pc = IF depth THEN "set" ELSE "check", !.event = pub[p].event + 1,
                                           !.targets = {}, !.owed = Zero, !.disturbed = FALSE,
                                           !.offers = Zero, !.i = 0]]
    /\ Rest

\* PublishQueueDepth sets the key first; if that fails, or its answer is lost,
\* nothing is published.
PublishQueueDepth(p) ==
    /\ pub[p].pc = "set"
    /\ \/ clientOpen /\ Step(p, "check")
       \/ Step(p, "idle")
    /\ Rest

\* publish: an error once closed.
CheckClosed(p) ==
    /\ pub[p].pc = "check"
    /\ Step(p, IF closed THEN "idle" ELSE "send")
    /\ Rest

\* publish: Redis takes the event, or there is an error.
SendToRedis(p) ==
    /\ pub[p].pc = "send"
    /\ \/ clientOpen /\ Step(p, "copy")
       \/ Step(p, "idle")
    /\ Rest

\* publish: the slice is copied under the lock.
CopySlice(p) ==
    /\ pub[p].pc = "copy"
    /\ pub' = [pub EXCEPT ![p] = [@ EXCEPT !.pc = "walk", !.slice = slice, !.i = 1,
                                           !.targets = Subscribed, !.owed = subscriptions]]
    /\ Rest

\* Mutant: the walk uses the current slice and not the copy.
OfferFresh(p) ==
    /\ pub[p].pc = "walk"
    /\ IF pub[p].i <= slice.len
         THEN pub' = [pub EXCEPT ![p].i = @ + 1, ![p].offers[Elements(slice)[pub[p].i]] = @ + 1]
         ELSE Step(p, "walked")
    /\ Rest

\* publish: the next subscriber, read from the array.
Offer(p) ==
    /\ pub[p].pc = "walk"
    /\ IF pub[p].i <= pub[p].slice.len
         THEN pub' = [pub EXCEPT ![p].i = @ + 1, ![p].offers[Elements(pub[p].slice)[pub[p].i]] = @ + 1]
         ELSE Step(p, "walked")
    /\ Rest

\* publish returns; or the context of the caller ends during the walk.
Return(p) ==
    /\ pub[p].pc = "walked" \/ (pub[p].pc = "walk" /\ pub[p].i <= pub[p].slice.len)
    /\ Step(p, "idle")
    /\ Rest

PubSubNext ==
    \/ \E s \in Subscriber : Subscribe(s) \/ Unsubscribe(s)
    \/ SetAddress
    \/ Close
    \/ \E p \in Publisher :
           \/ \E depth \in BOOLEAN : Publish(p, depth)
           \/ PublishQueueDepth(p) \/ CheckClosed(p) \/ SendToRedis(p)
           \/ CopySlice(p) \/ Offer(p) \/ Return(p)
-----------------------------------------------------------------------------
\* An event is offered only to channels that were subscribed when the slice was
\* copied or have been since, although the array is changed under the walk.
OfferedToSubscribers ==
    \A p \in Publisher, s \in Subscriber : pub[p].offers[s] > 0 => s \in pub[p].targets

\* If nobody unsubscribes during the walk, every channel is offered the event as
\* often as it was subscribed when the slice was copied, and no other channel is:
\* Subscribe never disturbs a walk.
UndisturbedIsExact ==
    \A p \in Publisher : pub[p].pc = "walked" /\ ~pub[p].disturbed => pub[p].offers = pub[p].owed
=============================================================================
