---------------------------- MODULE EventPublisher ---------------------------
(***************************************************************************)
(* InMemoryDomainEventPublisher: subscriptions, the dispatch of an event   *)
(* to the handlers subscribed to its type, and the bounded event history.  *)
(*                                                                         *)
(* publish runs handlers.map(handler => executeHandler(handler, event))    *)
(* over the live array of the subscriptions map.  Each handler runs up to  *)
(* its first await inside that loop and may call the publisher again       *)
(* there: subscribe, unsubscribe, publish another event.  map fixes the    *)
(* number of elements it visits when it starts, and reads each element     *)
(* when its turn comes.  The loops under way are therefore a stack, and    *)
(* the top one is either about to read an element or inside a handler.     *)
(* Handlers are outside this code: what they call is unconstrained, but    *)
(* they await the publications they start and always settle in the end.    *)
(***************************************************************************)
EXTENDS Naturals, Sequences, SequencesExt

CONSTANTS
  Types,          \* event names
  Handlers,       \* handler objects
  Events,         \* domain events, each published at most once
  TypeOf,         \* TypeOf[e]: the event name of e
  Batches,        \* the arrays of events publishAll is called with
  MaxHistorySize, \* the constructor's maxHistorySize
  MaxChanges      \* bound: calls that change subscriptions in one behaviour

ASSUME EventAssumption == TypeOf \in [Events -> Types]
ASSUME BatchAssumption ==
  \A es \in Batches : es \in Seq(Events) /\ IsInjective(es) /\ es # <<>>
ASSUME HistoryAssumption == MaxHistorySize \in Nat
ASSUME ChangeAssumption == MaxChanges \in Nat

VARIABLES
  subscriptions, \* the handler array of each type, empty if it has no key
  eventHistory,  \* the most recent events, oldest first
  stack,         \* the map loops under way, the innermost last
  queue,         \* events publishAll has still to hand to publish
  publication,   \* publication[e]: how far the publish of e has come
  published,     \* every event published since the history was cleared
  changes        \* changes of subscriptions so far, at most MaxChanges

vars == <<subscriptions, eventHistory, stack, queue, publication, published,
          changes>>

\* A loop over the handlers of event: its next index, the length the array
\* had when it started, whether it is inside a handler, and whether its array
\* is still the one in the subscriptions map; array is its content if not.
Frame == [event : Events, next : Nat \ {0}, length : Nat, inHandler : BOOLEAN,
          live : BOOLEAN, array : Seq(Handlers)]

\* initial is the array publish found, due the handlers of it that have not
\* left it since, calls the handlers invoked, settled the positions in calls
\* whose promise is settled, and parent the call that published the event
\* and awaits it: <<event, position>>, or <<>> if it is not a handler's.
Statuses == {"unpublished", "queued", "dispatching", "dispatched", "resolved"}
Publication == [status : Statuses, initial : Seq(Handlers),
                due : SUBSET Handlers, calls : Seq(Handlers),
                settled : SUBSET Nat,
                parent : (Events \X Nat) \union {<<>>}]

TypeOK ==
  /\ subscriptions \in [Types -> Seq(Handlers)]
  /\ eventHistory \in Seq(Events)
  /\ stack \in Seq(Frame)
  /\ queue \in Seq(Events)
  /\ publication \in [Events -> Publication]
  /\ published \in Seq(Events)
  /\ changes \in 0 .. MaxChanges

Init ==
  /\ subscriptions = [t \in Types |-> <<>>]
  /\ eventHistory = <<>>
  /\ stack = <<>>
  /\ queue = <<>>
  /\ publication = [e \in Events |->
       [status |-> "unpublished", initial |-> <<>>, due |-> {},
        calls |-> <<>>, settled |-> {}, parent |-> <<>>]]
  /\ published = <<>>
  /\ changes = 0

----------------------------------------------------------------------------
(* The loop on top of the stack. *)

InLoop == stack # <<>>
Top == stack[Len(stack)]
Array(f) == IF f.live THEN subscriptions[TypeOf[f.event]] ELSE f.array

SetTop(f) == stack' = [stack EXCEPT ![Len(stack)] = f]

\* Code outside the publisher runs: a handler before its first await, or,
\* when no loop and no publishAll is under way, whatever the event loop runs.
CallerRuns == IF InLoop THEN Top.inHandler ELSE queue = <<>>

\* Top.calls position of the handler that is running.
CurrentCall == <<Top.event, Len(publication[Top.event].calls)>>

\* Slip of Remembered: the oldest event is dropped one event too early.
RememberedTooFew(e) ==
  LET longer == Append(eventHistory, e)
  IN IF Len(longer) >= MaxHistorySize THEN Tail(longer) ELSE longer

\* addToHistory
Remembered(e) ==
  LET longer == Append(eventHistory, e)
  IN IF Len(longer) > MaxHistorySize THEN Tail(longer) ELSE longer

\* publish up to the first element of map, in a loop of its own.
Begin(e, parent) ==
  LET array == subscriptions[TypeOf[e]]
  IN /\ eventHistory' = Remembered(e)
     /\ published' = Append(published, e)
     /\ stack' = Append(stack,
          [event |-> e, next |-> 1, length |-> Len(array),
           inHandler |-> FALSE, live |-> TRUE, array |-> <<>>])
     /\ publication' = [publication EXCEPT ![e] =
          [status |-> "dispatching", initial |-> array, due |-> ToSet(array),
           calls |-> <<>>, settled |-> {}, parent |-> parent]]
     /\ UNCHANGED <<subscriptions, changes>>

Publish(e) ==
  /\ CallerRuns
  /\ publication[e].status = "unpublished"
  /\ Begin(e, IF InLoop THEN CurrentCall ELSE <<>>)
  /\ UNCHANGED queue

\* publishAll: events.map(publish) runs the loops of all its events, one after
\* the other, before any other code.
PublishAll(es) ==
  /\ ~InLoop /\ queue = <<>>
  /\ \A e \in ToSet(es) : publication[e].status = "unpublished"
  /\ queue' = es
  /\ publication' = [e \in Events |->
       IF e \in ToSet(es) THEN [publication[e] EXCEPT !.status = "queued"]
                          ELSE publication[e]]
  /\ UNCHANGED <<subscriptions, eventHistory, stack, published, changes>>

PublishNext ==
  /\ ~InLoop /\ queue # <<>>
  /\ Begin(Head(queue), <<>>)
  /\ queue' = Tail(queue)

\* map reads the element whose turn it is; executeHandler calls the handler.
CallHandler ==
  /\ InLoop /\ ~Top.inHandler
  /\ Top.next <= Top.length
  /\ Top.next <= Len(Array(Top))
  /\ SetTop([Top EXCEPT !.next = @ + 1, !.inHandler = TRUE])
  /\ publication' = [publication EXCEPT ![Top.event].calls =
                       Append(@, Array(Top)[Top.next])]
  /\ UNCHANGED <<subscriptions, eventHistory, queue, published, changes>>

\* The handler reaches its first await, returns or throws; executeHandler
\* catches, so the loop goes on in all three cases.
HandlerYields ==
  /\ InLoop /\ Top.inHandler
  /\ SetTop([Top EXCEPT !.inHandler = FALSE])
  /\ UNCHANGED <<subscriptions, eventHistory, queue, publication, published,
                 changes>>

\* Slip of LoopDone: an exception of the handler just called ends the loop.
LoopDoneOnThrow == Top.next > Top.length \/ Top.next > 1

\* Slip of LoopDone: a loop that insists on the length it started with.
LoopDoneAtLength == Top.next > Top.length

\* map has visited the elements it found at its start, or those left of them.
LoopDone == Top.next > Top.length \/ Top.next > Len(Array(Top))

\* The loop ends; publish awaits Promise.allSettled.
EndLoop ==
  /\ InLoop /\ ~Top.inHandler
  /\ LoopDone
  /\ stack' = Front(stack)
  /\ publication' = [publication EXCEPT ![Top.event].status = "dispatched"]
  /\ UNCHANGED <<subscriptions, eventHistory, queue, published, changes>>

----------------------------------------------------------------------------
(* After the loop: one event-loop task at a time. *)

Awaited(e, i) == {c \in Events : publication[c].parent = <<e, i>>}

\* The promise of a call is fulfilled or, with a failing handler, fulfilled by
\* executeHandler's catch; not before what the handler awaits.
Settle(e, i) ==
  /\ ~InLoop /\ queue = <<>>
  /\ i \in 1 .. Len(publication[e].calls) \ publication[e].settled
  /\ \A c \in Awaited(e, i) : publication[c].status = "resolved"
  /\ publication' = [publication EXCEPT ![e].settled = @ \union {i}]
  /\ UNCHANGED <<subscriptions, eventHistory, stack, queue, published, changes>>

\* Slip of AllSettled: Promise.race in place of Promise.allSettled.
OneSettled(e) ==
  \/ publication[e].calls = <<>>
  \/ publication[e].settled # {}

AllSettled(e) == 1 .. Len(publication[e].calls) \subseteq publication[e].settled

\* The promise of publish is fulfilled.
Resolve(e) ==
  /\ ~InLoop /\ queue = <<>>
  /\ publication[e].status = "dispatched"
  /\ AllSettled(e)
  /\ publication' = [publication EXCEPT ![e].status = "resolved"]
  /\ UNCHANGED <<subscriptions, eventHistory, stack, queue, published, changes>>

----------------------------------------------------------------------------
(* Subscriptions. *)

Change == changes < MaxChanges /\ changes' = changes + 1

\* subscribe; a second subscription of a handler changes nothing.
Subscribe(t, h) ==
  /\ CallerRuns
  /\ ~Contains(subscriptions[t], h)
  /\ Change
  /\ subscriptions' = [subscriptions EXCEPT ![t] = Append(@, h)]
  /\ UNCHANGED <<eventHistory, stack, queue, publication, published>>

\* The map drops the arrays of the types in ts: the loops over them keep their
\* array, with the content it has in arrays.
Detached(ts, arrays) ==
  [k \in DOMAIN stack |->
     LET t == TypeOf[stack[k].event]
     IN IF stack[k].live /\ t \in ts
        THEN [stack[k] EXCEPT !.live = FALSE, !.array = arrays[t]]
        ELSE stack[k]]

\* The handler h is no longer due in the loops over the array it leaves.
NotDue(t, h) ==
  [e \in Events |->
     IF TypeOf[e] = t
        /\ \E k \in DOMAIN stack : stack[k].live /\ stack[k].event = e
     THEN [publication[e] EXCEPT !.due = @ \ {h}] ELSE publication[e]]

\* Slip of Unsubscribe: delete handlers[index] in place of splice.
UnsubscribeLeavesHole(t, h) ==
  /\ CallerRuns
  /\ Contains(subscriptions[t], h)
  /\ Change
  /\ subscriptions' = [subscriptions EXCEPT ![t] = ReplaceAll(@, h, <<>>)]
  /\ UNCHANGED <<eventHistory, stack, queue, publication, published>>

\* handlers.indexOf: no array has a handler twice.
indexOf(s, h) == CHOOSE i \in DOMAIN s : s[i] = h

\* unsubscribe splices the array; an empty array leaves the map.
Unsubscribe(t, h) ==
  /\ CallerRuns
  /\ Contains(subscriptions[t], h)
  /\ Change
  /\ subscriptions' = [subscriptions EXCEPT ![t] = RemoveAt(@, indexOf(@, h))]
  /\ stack' = IF subscriptions'[t] = <<>> THEN Detached({t}, subscriptions')
                                         ELSE stack
  /\ publication' = NotDue(t, h)
  /\ UNCHANGED <<eventHistory, queue, published>>

\* clearAllSubscriptions empties the map; loops under way keep their arrays.
ClearAllSubscriptions ==
  /\ CallerRuns
  /\ Change
  /\ subscriptions' = [t \in Types |-> <<>>]
  /\ stack' = Detached(Types, subscriptions)
  /\ UNCHANGED <<eventHistory, queue, publication, published>>

\* clearEventHistory
ClearEventHistory ==
  /\ CallerRuns
  /\ eventHistory' = <<>>
  /\ published' = <<>>
  /\ UNCHANGED <<subscriptions, stack, queue, publication, changes>>

----------------------------------------------------------------------------
Next ==
  \/ \E e \in Events : Publish(e) \/ Resolve(e)
  \/ \E es \in Batches : PublishAll(es)
  \/ PublishNext \/ CallHandler \/ HandlerYields \/ EndLoop
  \/ \E e \in Events : \E i \in 1 .. Len(publication[e].calls) : Settle(e, i)
  \/ \E t \in Types, h \in Handlers : Subscribe(t, h) \/ Unsubscribe(t, h)
  \/ ClearAllSubscriptions \/ ClearEventHistory

Spec == Init /\ [][Next]_vars

\* The loops run to their end and promises settle; handlers leave their
\* synchronous part; nobody has to publish or to subscribe.
FairSpec ==
  /\ Spec
  /\ WF_vars(PublishNext \/ CallHandler \/ HandlerYields \/ EndLoop)
  /\ \A e \in Events : WF_vars(Resolve(e))
  /\ \A e \in Events : WF_vars(\E i \in 1 .. Len(publication[e].calls) :
                                  Settle(e, i))

----------------------------------------------------------------------------
(* Properties. *)

\* The history is the most recent events published, in order, as many of them
\* as it has room for, also when handlers publish from inside the loops and
\* publishAll runs several of them (addToHistory pushes, then shifts).
HistoryIsRecent ==
  LET n == Len(published)
  IN /\ Len(eventHistory) = IF n < MaxHistorySize THEN n ELSE MaxHistorySize
     /\ eventHistory = SubSeq(published, n - Len(eventHistory) + 1, n)

Looped(e) == publication[e].status \in {"dispatched", "resolved"}

\* Unless a handler leaves the array during the loop, the loop calls exactly
\* the handlers subscribed when publish began, once each and in the order they
\* subscribed: handlers that fail, subscribe others, publish or clear the map
\* in the middle of the loop do not disturb it.  That nobody is called twice
\* rests on subscribe ("Avoid duplicate subscriptions").
UndisturbedLoopIsExact ==
  \A e \in Events :
    Looped(e) /\ publication[e].due = ToSet(publication[e].initial)
      => /\ publication[e].calls = publication[e].initial
         /\ IsInjective(publication[e].calls)

\* The promise of publish, which the use case awaits before it answers, is
\* fulfilled only when every handler called has settled and every publication
\* those handlers started is fulfilled as well.
ResolvedMeansSettled ==
  \A e \in Events : publication[e].status = "resolved" =>
    \A i \in 1 .. Len(publication[e].calls) :
      /\ i \in publication[e].settled
      /\ \A c \in Awaited(e, i) : publication[c].status = "resolved"

\* Every event handed to publish or publishAll is dispatched and its promise
\* fulfilled: publications nested in handlers never wait for each other in a
\* circle, and an array that shrinks or vanishes does not stop a loop.
EveryPublicationResolves ==
  \A e \in Events :
    publication[e].status # "unpublished" ~> publication[e].status = "resolved"

\* "Execute all handlers" (in-memory-event-publisher.service.ts:35): a handler
\* subscribed when publish begins, and not unsubscribed since, is called.
AllHandlersExecuted ==
  \A e \in Events :
    Looped(e) => publication[e].due \subseteq ToSet(publication[e].calls)
==============================================================================
