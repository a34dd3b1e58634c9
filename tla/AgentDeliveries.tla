--------------------------- MODULE AgentDeliveries ---------------------------
(***************************************************************************)
(* One Installation of an Integration: its Connections, the Events it      *)
(* publishes, the DeliveryContexts it may be answered in, the Deliveries   *)
(* of the Runs that answer, and the results it reports of them.            *)
(*                                                                         *)
(* Three handlers await: PublishEvent (the signature, then the payload's   *)
(* digest and its blob), PublishDeliveryResult (the signature) and Deliver *)
(* (the Provider).  They are records of handler; what follows an await is  *)
(* one action.  The other commands never await.                            *)
(***************************************************************************)
EXTENDS Naturals

CONSTANTS
  Keys,         \* Idempotency keys of PublishEvent, each for one request.
  Callbacks,    \* Idempotency keys of PublishDeliveryResult.
  Contexts,     \* DeliveryContext ids.
  Connections,  \* AdapterConnection ids.
  Runs,         \* AgentRuns of the Thread the Events go to.
  Deliveries,   \* AdapterDelivery ids.
  Operations,   \* Operation ids a Provider chooses.
  Handlers      \* Requests in flight at the same time.

None == "none"

ASSUME DeliveryAssumption ==
  None \notin Keys \cup Contexts \cup Connections \cup Runs \cup Deliveries \cup Operations

VARIABLES
  installation,  \* Status of the Installation.
  connection,    \* Status of each AdapterConnection.
  context,       \* The DeliveryContexts, see ContextRows.
  ledger,        \* Idempotency row of each PublishEvent.
  events,        \* How many Events were appended under each key.
  run,           \* Status of each Run.
  delivery,      \* The AdapterDeliveries, see DeliveryRows.
  callback,      \* Recorded classification of each PublishDeliveryResult.
  applied,       \* History: results under each key that changed anything.
  handler        \* Requests in flight.

vars == <<installation, connection, context, ledger, events, run, delivery, callback,
          applied, handler>>

-----------------------------------------------------------------------------
(* Types *)

ContextRows == [status : {"absent", "active", "revoked"}, event : Keys \cup {None},
                connection : Connections \cup {None}]

NoContext == [status |-> "absent", event |-> None, connection |-> None]

\* One status of each kind classifyDeliveryResult tells apart: "running" stands
\* for every status that is on none of its lists, what a decision writes included.
Reported == {"running", "delivered", "failed", "timeout", "follow_up"}

DeliveryRows == [status : Reported \cup {"absent"}, run : Runs \cup {None},
                 context : Contexts \cup {None}, operation : Operations \cup {None}]

NoDelivery == [status |-> "absent", run |-> None, context |-> None, operation |-> None]

Actions == {"stale_callback", "resume", "terminal_failure", "follow_up_event"}

\* "live" is pending or running; a resumed Run is pending again but has spent
\* its invocation, and decides nothing more.
RunStatus == {"absent", "live", "waiting", "resumed", "over"}

Free == [pc |-> "free", key |-> None, connection |-> None]

HandlerType ==
  {Free}
  \cup [pc : {"verify"}, key : Keys, connection : Connections]
  \cup [pc : {"blob"}, key : Keys, connection : Connections]
  \cup [pc : {"callback"}, key : Callbacks]
  \cup [pc : {"deliver"}, delivery : Deliveries, run : Runs \cup {None}, context : Contexts]

TypeOK ==
  /\ installation \in {"absent", "pending_external_setup", "active", "uninstalled"}
  /\ connection \in [Connections -> {"absent", "active", "disabled"}]
  /\ context \in [Contexts -> ContextRows]
  /\ ledger \in [Keys -> {"absent", "recording", "succeeded", "failed"}]
  /\ events \in [Keys -> Nat]
  /\ run \in [Runs -> RunStatus]
  /\ delivery \in [Deliveries -> DeliveryRows]
  /\ callback \in [Callbacks -> Actions \cup {None}]
  /\ applied \in [Callbacks -> Nat]
  /\ handler \in [Handlers -> HandlerType]

Init ==
  /\ installation = "absent"
  /\ connection = [n \in Connections |-> "absent"]
  /\ context = [x \in Contexts |-> NoContext]
  /\ ledger = [k \in Keys |-> "absent"]
  /\ events = [k \in Keys |-> 0]
  /\ run = [r \in Runs |-> "absent"]
  /\ delivery = [d \in Deliveries |-> NoDelivery]
  /\ callback = [k \in Callbacks |-> None]
  /\ applied = [k \in Callbacks |-> 0]
  /\ handler = [h \in Handlers |-> Free]

At(h, pc) == handler[h].pc = pc

Await(h, request) == At(h, "free") /\ handler' = [handler EXCEPT ![h] = request]

Return(h) == handler' = [handler EXCEPT ![h] = Free]

-----------------------------------------------------------------------------
(* Installation and Connections *)

\* A second installation, even after an uninstallation, violates the unique
\* (agent_id, integration_id).  Nothing ends an external setup.
InstallIntegration ==
  /\ installation = "absent"
  /\ installation' \in {"active", "pending_external_setup"}
  /\ UNCHANGED <<connection, context, ledger, events, run, delivery, callback, applied, handler>>

CreateAdapterConnection(n) ==
  /\ installation \in {"active", "pending_external_setup"}
  /\ connection[n] = "absent"
  /\ connection' = [connection EXCEPT ![n] = "active"]
  /\ UNCHANGED <<installation, context, ledger, events, run, delivery, callback, applied, handler>>

DeleteAdapterConnection(n) ==
  /\ connection[n] # "absent"
  /\ connection' = [connection EXCEPT ![n] = "disabled"]
  /\ UNCHANGED <<installation, context, ledger, events, run, delivery, callback, applied, handler>>

Disabled(status) == IF status = "active" THEN "disabled" ELSE status

Revoked(x) == IF x.status = "absent" THEN x ELSE [x EXCEPT !.status = "revoked"]

UninstallIntegration ==
  /\ installation # "absent"
  /\ installation' = "uninstalled"
  /\ connection' = [n \in Connections |-> Disabled(connection[n])]
  /\ context' = [x \in Contexts |-> Revoked(context[x])]
  /\ UNCHANGED <<ledger, events, run, delivery, callback, applied, handler>>

-----------------------------------------------------------------------------
(* PublishEvent of the Integration *)

\* The trust key is looked up before the signature is awaited.
ReceiveEvent(h, k, n) ==
  /\ installation = "active"
  /\ Await(h, [pc |-> "verify", key |-> k, connection |-> n])
  /\ UNCHANGED <<installation, connection, context, ledger, events, run, delivery, callback,
                 applied>>

AcceptsIngress(n) == installation = "active" /\ connection[n] = "active"

\* Mutant: only a finished command holds its key.
KeyIsNewUnlessDone(k) == ledger[k] # "succeeded"

KeyIsNew(k) == ledger[k] = "absent"

\* A new command takes its key before it awaits again.
ReserveEvent(h) ==
  LET k == handler[h].key
      n == handler[h].connection
  IN  /\ At(h, "verify")
      /\ AcceptsIngress(n)
      /\ KeyIsNew(k)
      /\ ledger' = [ledger EXCEPT ![k] = "recording"]
      /\ handler' = [handler EXCEPT ![h] = [pc |-> "blob", key |-> k, connection |-> n]]
      /\ UNCHANGED <<installation, connection, context, events, run, delivery, callback, applied>>

\* The caller asks to be answered in a context of its own, or asks for none.
CreatesContext(k, n) ==
  \/ \E x \in Contexts :
       /\ context[x].status = "absent"
       /\ context' = [context EXCEPT ![x] =
            [status |-> "active", event |-> k, connection |-> n]]
  \/ UNCHANGED context

\* A retry is answered with the recorded Event, and with a context of its own.
ReplayEvent(h) ==
  /\ At(h, "verify")
  /\ AcceptsIngress(handler[h].connection)
  /\ ledger[handler[h].key] = "succeeded"
  /\ CreatesContext(handler[h].key, handler[h].connection)
  /\ Return(h)
  /\ UNCHANGED <<installation, connection, ledger, events, run, delivery, callback, applied>>

RefuseEvent(h) ==
  /\ At(h, "verify")
  /\ \/ ~AcceptsIngress(handler[h].connection)
     \/ ledger[handler[h].key] \in {"recording", "failed"}
  /\ Return(h)
  /\ UNCHANGED <<installation, connection, context, ledger, events, run, delivery, callback,
                 applied>>

\* The Event joins the pending Run of its Thread or brings a new one.
UpsertPendingRun ==
  \/ \E r \in Runs : run[r] \in {"live", "resumed"} /\ UNCHANGED run
  \/ \E r \in Runs : run[r] = "absent" /\ run' = [run EXCEPT ![r] = "live"]

\* Nothing is checked again after the blob was written.
AppendEvent(h) ==
  LET k == handler[h].key
  IN  /\ At(h, "blob")
      /\ events' = [events EXCEPT ![k] = @ + 1]
      /\ UpsertPendingRun
      /\ ledger' = [ledger EXCEPT ![k] = "succeeded"]
      /\ CreatesContext(k, handler[h].connection)
      /\ Return(h)
      /\ UNCHANGED <<installation, connection, delivery, callback, applied>>

FailedKey(k) == [ledger EXCEPT ![k] = "failed"]

\* The blob was not written, or another principal's Event has the key.
EventFails(h) ==
  /\ At(h, "blob")
  /\ ledger' = FailedKey(handler[h].key)
  /\ Return(h)
  /\ UNCHANGED <<installation, connection, context, events, run, delivery, callback, applied>>

-----------------------------------------------------------------------------
(* Deliveries *)

Fresh(d) ==
  /\ delivery[d].status = "absent"
  /\ ~\E h \in Handlers : At(h, "deliver") /\ handler[h].delivery = d

\* The respond decisions ds of a Run.  The context has only to exist.
CommitDeliveryDecision(r, x, ds) ==
  /\ run[r] = "live"
  /\ context[x].status # "absent"
  /\ ds # {} /\ \A d \in ds : Fresh(d)
  /\ delivery' = [d \in Deliveries |->
       IF d \in ds THEN [status |-> "running", run |-> r, context |-> x, operation |-> None]
       ELSE delivery[d]]
  /\ run' = [run EXCEPT ![r] = "waiting"]
  /\ UNCHANGED <<installation, connection, context, ledger, events, callback, applied, handler>>

\* deliverToIntegrationProvider, up to the Provider.
BeginDeliver(h, d, x, r) ==
  /\ context[x].status = "active"
  /\ installation = "active"
  /\ Fresh(d)
  /\ Await(h, [pc |-> "deliver", delivery |-> d, run |-> r, context |-> x])
  /\ UNCHANGED <<installation, connection, context, ledger, events, run, delivery, callback,
                 applied>>

\* The row is written when the Provider has answered, or failed.
EndDeliver(h, s, o) ==
  /\ At(h, "deliver")
  /\ delivery' = [delivery EXCEPT ![handler[h].delivery] =
       [status |-> s, run |-> handler[h].run, context |-> handler[h].context, operation |-> o]]
  /\ Return(h)
  /\ UNCHANGED <<installation, connection, context, ledger, events, run, callback, applied>>

ProviderAnswers(h, s, o) == EndDeliver(h, s, o)

ProviderFails(h) == EndDeliver(h, "failed", None)

-----------------------------------------------------------------------------
(* PublishDeliveryResult *)

ReceiveCallback(h, k) ==
  /\ installation = "active"
  /\ Await(h, [pc |-> "callback", key |-> k])
  /\ UNCHANGED <<installation, connection, context, ledger, events, run, delivery, callback,
                 applied>>

\* Mutant: what the signature was verified against is not read again.
BoundUnchecked(d, o) ==
  /\ delivery[d].status # "absent"
  /\ delivery[d].operation \in {None, o}

\* requireDeliveryResultBinding, for a result that names the delivery's context.
Bound(d, o) ==
  /\ delivery[d].status # "absent"
  /\ delivery[d].operation \in {None, o}
  /\ context[delivery[d].context].status = "active"
  /\ connection[context[delivery[d].context].connection] = "active"
  /\ installation = "active"

\* Mutant: a follow-up closes the Delivery.
ClosedByFollowUp(s) == s \in {"delivered", "failed", "follow_up"}

\* Mutant: only a success is taken for the end.
ClosedBySuccess(s) == s = "delivered"

Closed(s) == s \in {"delivered", "failed"}

Classify(d, s) ==
  LET r == delivery[d].run
  IN  IF Closed(delivery[d].status) THEN "stale_callback"
      ELSE IF r = None THEN "follow_up_event"
      ELSE IF run[r] # "waiting" THEN "stale_callback"
      ELSE IF s \in {"failed", "timeout"} THEN "terminal_failure"
      ELSE IF s = "follow_up" THEN "follow_up_event"
      ELSE "resume"

\* Mutant: a callback is looked up before its signature is awaited.
IsNewCallbackAsReceived(h) == At(h, "callback")

\* The ledger is read after the signature was verified.
IsNewCallback(h) == callback[handler[h].key] = None

\* The result s of delivery d, with the operation o the callback names.
PublishDeliveryResult(h, d, s, o, action) ==
  /\ At(h, "callback")
  /\ IsNewCallback(h)
  /\ Bound(d, o)
  /\ Classify(d, s) = action
  /\ callback' = [callback EXCEPT ![handler[h].key] = action]
  /\ Return(h)
  /\ UNCHANGED <<installation, connection, context, ledger, events>>

StaleCallback(h, d, s, o) ==
  /\ PublishDeliveryResult(h, d, s, o, "stale_callback")
  /\ UNCHANGED <<run, delivery, applied>>

Answered(row, s, o) == [row EXCEPT !.status = s, !.operation = o]

UpdateDelivery(h, d, s, o) ==
  /\ delivery' = [delivery EXCEPT ![d] = Answered(delivery[d], s, o)]
  /\ applied' = [applied EXCEPT ![handler[h].key] = @ + 1]

Resume(h, d, s, o) ==
  /\ PublishDeliveryResult(h, d, s, o, "resume")
  /\ UpdateDelivery(h, d, s, o)
  /\ run' = [run EXCEPT ![delivery[d].run] = "resumed"]

TerminalFailure(h, d, s, o) ==
  /\ PublishDeliveryResult(h, d, s, o, "terminal_failure")
  /\ UpdateDelivery(h, d, s, o)
  /\ run' = [run EXCEPT ![delivery[d].run] = "over"]

FollowUpEvent(h, d, s, o) ==
  /\ PublishDeliveryResult(h, d, s, o, "follow_up_event")
  /\ UpdateDelivery(h, d, s, o)
  /\ UpsertPendingRun

\* Replayed, or refused by the nonce, the binding or the authorization.
RefuseCallback(h) ==
  /\ At(h, "callback")
  /\ Return(h)
  /\ UNCHANGED <<installation, connection, context, ledger, events, run, delivery, callback,
                 applied>>

-----------------------------------------------------------------------------
(* The Run and the Durable Object *)

\* A Run ends, or CancelRun ends it while it waits.
EndRun(r) ==
  /\ run[r] \in {"live", "waiting", "resumed"}
  /\ run' = [run EXCEPT ![r] = "over"]
  /\ UNCHANGED <<installation, connection, context, ledger, events, delivery, callback, applied,
                 handler>>

Evict ==
  /\ \E h \in Handlers : ~At(h, "free")
  /\ handler' = [h \in Handlers |-> Free]
  /\ UNCHANGED <<installation, connection, context, ledger, events, run, delivery, callback,
                 applied>>

Callback(h) ==
  \/ \E k \in Callbacks : ReceiveCallback(h, k)
  \/ \E d \in Deliveries, s \in Reported, o \in Operations \cup {None} :
       \/ StaleCallback(h, d, s, o)
       \/ Resume(h, d, s, o)
       \/ TerminalFailure(h, d, s, o)
       \/ FollowUpEvent(h, d, s, o)
  \/ RefuseCallback(h)

Ingress(h) ==
  \/ \E k \in Keys, n \in Connections : ReceiveEvent(h, k, n)
  \/ ReserveEvent(h)
  \/ ReplayEvent(h)
  \/ RefuseEvent(h)
  \/ AppendEvent(h)
  \/ EventFails(h)

Deliver(h) ==
  \/ \E d \in Deliveries, x \in Contexts, r \in Runs \cup {None} : BeginDeliver(h, d, x, r)
  \/ \E s \in Reported, o \in Operations \cup {None} : ProviderAnswers(h, s, o)
  \/ ProviderFails(h)

Next ==
  \/ InstallIntegration
  \/ UninstallIntegration
  \/ \E n \in Connections : CreateAdapterConnection(n) \/ DeleteAdapterConnection(n)
  \/ \E h \in Handlers : Ingress(h) \/ Deliver(h) \/ Callback(h)
  \/ \E r \in Runs, x \in Contexts, ds \in SUBSET Deliveries : CommitDeliveryDecision(r, x, ds)
  \/ \E r \in Runs : EndRun(r)
  \/ Evict

Spec == Init /\ [][Next]_vars

-----------------------------------------------------------------------------
(* Properties *)

\* The ledger tells a Provider the truth: its Event was appended, and appended
\* once, if and only if the command is recorded as succeeded, whether requests
\* with the key came at once, failed, were evicted or were repeated after the
\* answer (publishEventInStore reserves the key first).
LedgerMatchesEvents ==
  \A k \in Keys : events[k] = IF ledger[k] = "succeeded" THEN 1 ELSE 0

\* A result takes effect once under its key, and one recorded as stale has none,
\* although two requests with one key may be verified at the same time.
OneEffectPerCallback ==
  \A k \in Callbacks :
    applied[k] = IF callback[k] \in {None, "stale_callback"} THEN 0 ELSE 1

\* A Run that waits has a Delivery that the ledger has not closed:
\* the list of final statuses agrees with the classification of results.
WaitingRunIsOpen ==
  \A r \in Runs :
    run[r] = "waiting" =>
      \E d \in Deliveries :
        delivery[d].run = r /\ delivery[d].status # "absent" /\ ~Closed(delivery[d].status)

\* No result changes a Delivery the ledger calls final, a late answer of the
\* Provider or a second callback included.
FinalDeliveryStays ==
  [][\A d \in Deliveries :
       delivery[d].status \in {"delivered", "failed"} => delivery'[d] = delivery[d]]_vars

\* Once the Installation is uninstalled no result moves a Delivery or resumes a
\* Run, the callbacks whose signature was verified before included.
UninstalledIsQuiet ==
  [][installation = "uninstalled" =>
       /\ \A d \in Deliveries :
            delivery[d].status # "absent" => delivery'[d] = delivery[d]
       /\ \A r \in Runs : run[r] = "waiting" => run'[r] \in {"waiting", "over"}]_vars

-----------------------------------------------------------------------------
(* The abstract specifications *)

PublishOutcome(entry) ==
  IF entry = "succeeded" THEN "done" ELSE IF entry = "failed" THEN "refused" ELSE "open"

Published == INSTANCE AgentOnce WITH
  outcome <- [k \in Keys |-> PublishOutcome(ledger[k])],
  effects <- events

\* PublishEvent is decided once under its key: requests with one key that come
\* at once, fail, are evicted or are repeated after the answer append one Event
\* and record that they did, or append none, and the ledger never takes that
\* back (publishEventInStore reserves the key first).
PublishedOnce == Published!Spec

CallbackOutcome(action) ==
  IF action = None THEN "open" ELSE IF action = "stale_callback" THEN "refused" ELSE "done"

Applied == INSTANCE AgentOnce WITH
  Keys <- Callbacks,
  outcome <- [k \in Callbacks |-> CallbackOutcome(callback[k])],
  effects <- applied

\* A PublishDeliveryResult is classified once under its key, moves rows in the
\* same transaction and never again, and one recorded as stale moves none,
\* although two requests with one key may be verified at the same time.
AppliedOnce == Applied!Spec

=============================================================================
