----------------------- MODULE AgentDeliveriesProofs -----------------------
(***************************************************************************)
(* Proofs about AgentDeliveries, for every set of keys, DeliveryContexts,  *)
(* Connections, Runs, Deliveries and requests in flight.                   *)
(***************************************************************************)
EXTENDS AgentDeliveries, TLAPS

\* A request past its reservation owns the recording key, and one that waits
\* for the Provider owns the id of a Delivery that has no row.
RequestsOwn ==
  /\ \A h \in Handlers :
       /\ At(h, "blob") => ledger[handler[h].key] = "recording"
       /\ At(h, "deliver") => delivery[handler[h].delivery].status = "absent"
  /\ \A h, g \in Handlers :
       h # g =>
         /\ At(h, "blob") /\ At(g, "blob") => handler[h].key # handler[g].key
         /\ At(h, "deliver") /\ At(g, "deliver") => handler[h].delivery # handler[g].delivery

IInv == TypeOK /\ RequestsOwn /\ LedgerMatchesEvents /\ OneEffectPerCallback /\ WaitingRunIsOpen

-----------------------------------------------------------------------------
(* Requests in flight *)

\* What a request in flight names.
LEMMA RequestNames ==
  ASSUME TypeOK, NEW h \in Handlers
  PROVE  /\ At(h, "verify") \/ At(h, "blob") =>
              handler[h].key \in Keys /\ handler[h].connection \in Connections
         /\ At(h, "callback") => handler[h].key \in Callbacks
         /\ At(h, "deliver") =>
              /\ handler[h].delivery \in Deliveries
              /\ handler[h].run \in Runs \cup {None}
              /\ handler[h].context \in Contexts
BY DEF TypeOK, HandlerType, Free, At

\* Requests return, and what the others own is left alone.
LEMMA OwnersReturn ==
  ASSUME IInv,
         handler' \in [Handlers -> HandlerType],
         \A h \in Handlers : handler'[h] \in {handler[h], Free},
         \A h \in Handlers : handler'[h] = handler[h] /\ At(h, "blob") =>
           ledger'[handler[h].key] = ledger[handler[h].key],
         \A h \in Handlers : handler'[h] = handler[h] /\ At(h, "deliver") =>
           delivery'[handler[h].delivery].status = delivery[handler[h].delivery].status
  PROVE  RequestsOwn'
<1>1. ~(Free.pc = "blob") /\ ~(Free.pc = "deliver")
  BY DEF Free
<1>2. \A h \in Handlers :
        handler'[h].pc \in {"blob", "deliver"} => handler'[h] = handler[h]
  BY <1>1
<1> QED BY <1>2 DEF IInv, RequestsOwn, At

\* A request begins to own what no other request owns.
LEMMA OwnerBegins ==
  ASSUME IInv, NEW h \in Handlers, NEW q \in HandlerType,
         handler' = [handler EXCEPT ![h] = q],
         q.pc = "blob" =>
           /\ ledger'[q.key] = "recording"
           /\ \A g \in Handlers : At(g, "blob") => handler[g].key # q.key,
         q.pc = "deliver" =>
           /\ delivery'[q.delivery].status = "absent"
           /\ \A g \in Handlers : At(g, "deliver") => handler[g].delivery # q.delivery,
         \A g \in Handlers : At(g, "blob") => ledger'[handler[g].key] = ledger[handler[g].key],
         \A g \in Handlers : At(g, "deliver") =>
           delivery'[handler[g].delivery].status = delivery[handler[g].delivery].status
  PROVE  handler' \in [Handlers -> HandlerType] /\ RequestsOwn'
<1>1. handler \in [Handlers -> HandlerType]
  BY DEF IInv, TypeOK
<1>2. handler' \in [Handlers -> HandlerType]
  BY <1>1
<1>3. handler'[h] = q /\ \A g \in Handlers \ {h} : handler'[g] = handler[g]
  BY <1>1
<1>4. ASSUME NEW g \in Handlers
      PROVE  /\ handler'[g].pc = "blob" => ledger'[handler'[g].key] = "recording"
             /\ handler'[g].pc = "deliver" => delivery'[handler'[g].delivery].status = "absent"
  BY <1>3 DEF IInv, RequestsOwn, At
<1>5. ASSUME NEW f \in Handlers, NEW g \in Handlers, f # g
      PROVE  /\ handler'[f].pc = "blob" /\ handler'[g].pc = "blob"
                  => handler'[f].key # handler'[g].key
             /\ handler'[f].pc = "deliver" /\ handler'[g].pc = "deliver"
                  => handler'[f].delivery # handler'[g].delivery
  <2>1. CASE f = h
    BY <1>3, <1>5, <2>1 DEF At
  <2>2. CASE g = h
    BY <1>3, <1>5, <2>2 DEF At
  <2>3. CASE f # h /\ g # h
    BY <1>3, <1>5, <2>3 DEF IInv, RequestsOwn, At
  <2> QED BY <2>1, <2>2, <2>3
<1> QED BY <1>2, <1>4, <1>5 DEF RequestsOwn, At

\* A request returns, or none does.
LEMMA Returned ==
  ASSUME TypeOK, handler' = handler \/ \E h \in Handlers : Return(h)
  PROVE  /\ handler' \in [Handlers -> HandlerType]
         /\ \A h \in Handlers : handler'[h] \in {handler[h], Free}
<1>1. Free \in HandlerType
  BY DEF HandlerType
<1> QED BY <1>1 DEF TypeOK, Return

-----------------------------------------------------------------------------
(* Runs that wait *)

\* What is known of the Runs survives a step that adds no waiting Run and
\* closes no row.
LEMMA WaitingKept ==
  ASSUME WaitingRunIsOpen,
         \A r \in Runs : run'[r] = "waiting" => run[r] = "waiting",
         \A d \in Deliveries : delivery[d].status # "absent" => delivery'[d] = delivery[d]
  PROVE  WaitingRunIsOpen'
<1>1. ASSUME NEW r \in Runs, run'[r] = "waiting"
      PROVE  \E d \in Deliveries :
               delivery'[d].run = r /\ delivery'[d].status # "absent" /\ ~Closed(delivery'[d].status)
  <2>1. PICK d \in Deliveries :
          delivery[d].run = r /\ delivery[d].status # "absent" /\ ~Closed(delivery[d].status)
    BY <1>1 DEF WaitingRunIsOpen
  <2> QED BY <2>1
<1> QED BY <1>1 DEF WaitingRunIsOpen, Closed

\* An Event joins or brings a Run that does not wait.
LEMMA Upserted ==
  ASSUME TypeOK, UpsertPendingRun
  PROVE  /\ run' \in [Runs -> RunStatus]
         /\ \A r \in Runs : run'[r] = "waiting" <=> run[r] = "waiting"
BY DEF TypeOK, UpsertPendingRun, RunStatus

\* The context of a request is a row of its own or none.
LEMMA ContextCreated ==
  ASSUME TypeOK, NEW k \in Keys, NEW n \in Connections, CreatesContext(k, n)
  PROVE  context' \in [Contexts -> ContextRows]
<1>1. [status |-> "active", event |-> k, connection |-> n] \in ContextRows
  BY DEF ContextRows
<1> QED BY <1>1 DEF TypeOK, CreatesContext

-----------------------------------------------------------------------------
(* Each action preserves the invariant *)

LEMMA InitInv == Init => IInv
<1> SUFFICES ASSUME Init PROVE IInv
  OBVIOUS
<1>1. NoContext \in ContextRows /\ NoDelivery \in DeliveryRows /\ Free \in HandlerType
  BY DEF NoContext, ContextRows, NoDelivery, DeliveryRows, HandlerType
<1>2. TypeOK
  BY <1>1 DEF Init, TypeOK, RunStatus
<1>3. RequestsOwn
  BY DEF Init, RequestsOwn, At, Free
<1>4. LedgerMatchesEvents /\ OneEffectPerCallback /\ WaitingRunIsOpen
  BY DEF Init, LedgerMatchesEvents, OneEffectPerCallback, WaitingRunIsOpen
<1> QED BY <1>2, <1>3, <1>4 DEF IInv

\* Nothing but the Installation, the Connections and the contexts changes.
LEMMA ManagementStep ==
  ASSUME IInv,
         installation' \in {"absent", "pending_external_setup", "active", "uninstalled"},
         connection' \in [Connections -> {"absent", "active", "disabled"}],
         context' \in [Contexts -> ContextRows],
         UNCHANGED <<ledger, events, run, delivery, callback, applied>>,
         handler' = handler \/ \E h \in Handlers : Return(h)
  PROVE  IInv'
<1>1. RequestsOwn'
  BY Returned, OwnersReturn DEF IInv
<1>2. TypeOK'
  BY Returned DEF IInv, TypeOK
<1>3. LedgerMatchesEvents' /\ OneEffectPerCallback' /\ WaitingRunIsOpen'
  BY DEF IInv, LedgerMatchesEvents, OneEffectPerCallback, WaitingRunIsOpen, Closed
<1> QED BY <1>1, <1>2, <1>3 DEF IInv

LEMMA InstallationSteps ==
  ASSUME IInv,
         \/ InstallIntegration \/ UninstallIntegration
         \/ \E n \in Connections : CreateAdapterConnection(n) \/ DeleteAdapterConnection(n)
  PROVE  IInv'
<1>0. TypeOK
  BY DEF IInv
<1>1. CASE InstallIntegration
  BY <1>0, <1>1, ManagementStep DEF InstallIntegration, TypeOK
<1>2. CASE UninstallIntegration
  <2>1. \A n \in Connections : Disabled(connection[n]) \in {"absent", "active", "disabled"}
    BY <1>0 DEF TypeOK, Disabled
  <2>2. ASSUME NEW x \in Contexts
        PROVE  Revoked(context[x]) \in ContextRows
    BY <1>0 DEF TypeOK, Revoked, ContextRows
  <2>3. /\ connection' \in [Connections -> {"absent", "active", "disabled"}]
        /\ context' \in [Contexts -> ContextRows]
    BY <1>2, <2>1, <2>2 DEF UninstallIntegration
  <2> QED BY <1>2, <2>3, ManagementStep DEF UninstallIntegration
<1>3. ASSUME NEW n \in Connections, CreateAdapterConnection(n) \/ DeleteAdapterConnection(n)
      PROVE  IInv'
  BY <1>0, <1>3, ManagementStep
     DEF CreateAdapterConnection, DeleteAdapterConnection, TypeOK
<1> QED BY <1>1, <1>2, <1>3

\* A request starts to verify a signature.
LEMMA VerifySteps ==
  ASSUME IInv, NEW h \in Handlers,
         \/ \E k \in Keys, n \in Connections : ReceiveEvent(h, k, n)
         \/ \E k \in Callbacks : ReceiveCallback(h, k)
  PROVE  IInv'
<1>1. PICK q \in HandlerType :
        /\ q.pc \in {"verify", "callback"}
        /\ handler' = [handler EXCEPT ![h] = q]
        /\ UNCHANGED <<installation, connection, context, ledger, events, run, delivery,
                       callback, applied>>
  <2>1. CASE \E k \in Keys, n \in Connections : ReceiveEvent(h, k, n)
    BY <2>1 DEF ReceiveEvent, Await, HandlerType
  <2>2. CASE \E k \in Callbacks : ReceiveCallback(h, k)
    BY <2>2 DEF ReceiveCallback, Await, HandlerType
  <2> QED BY <2>1, <2>2
<1>2. handler' \in [Handlers -> HandlerType] /\ RequestsOwn'
  BY <1>1, OwnerBegins
<1> QED BY <1>1, <1>2
        DEF IInv, TypeOK, LedgerMatchesEvents, OneEffectPerCallback, WaitingRunIsOpen, Closed

\* A request is answered without an effect, or all of them are lost.
LEMMA RefusalSteps ==
  ASSUME IInv,
         \/ \E h \in Handlers : RefuseEvent(h) \/ RefuseCallback(h) \/ ReplayEvent(h)
         \/ Evict
  PROVE  IInv'
<1>0. TypeOK
  BY DEF IInv
<1>1. ASSUME NEW h \in Handlers, RefuseEvent(h) \/ RefuseCallback(h) PROVE IInv'
  BY <1>0, <1>1, ManagementStep DEF RefuseEvent, RefuseCallback, TypeOK
<1>2. ASSUME NEW h \in Handlers, ReplayEvent(h) PROVE IInv'
  <2>1. context' \in [Contexts -> ContextRows]
    BY <1>0, <1>2, RequestNames, ContextCreated DEF ReplayEvent
  <2> QED BY <1>0, <1>2, <2>1, ManagementStep DEF ReplayEvent, TypeOK
<1>3. CASE Evict
  <2>1. handler' \in [Handlers -> HandlerType] /\ \A h \in Handlers : handler'[h] = Free
    BY <1>3 DEF Evict, HandlerType
  <2>2. RequestsOwn'
    BY <2>1 DEF RequestsOwn, At, Free
  <2> QED BY <1>3, <2>1, <2>2
          DEF Evict, IInv, TypeOK, LedgerMatchesEvents, OneEffectPerCallback, WaitingRunIsOpen, Closed
<1> QED BY <1>1, <1>2, <1>3

\* A key is taken once: no request holds it before.
LEMMA ReserveStep ==
  ASSUME IInv, NEW h \in Handlers, ReserveEvent(h)
  PROVE  IInv'
<1> DEFINE k == handler[h].key
           n == handler[h].connection
           q == [pc |-> "blob", key |-> k, connection |-> n]
<1>1. k \in Keys /\ n \in Connections /\ ledger[k] = "absent"
  BY RequestNames DEF ReserveEvent, IInv, KeyIsNew
<1>2. q \in HandlerType /\ q.pc = "blob" /\ q.key = k
  BY <1>1 DEF HandlerType
<1>3. handler' = [handler EXCEPT ![h] = q] /\ ledger' = [ledger EXCEPT ![k] = "recording"]
  BY DEF ReserveEvent
<1>4. \A g \in Handlers : At(g, "blob") => handler[g].key # k
  BY <1>1 DEF IInv, RequestsOwn
<1>5. ledger'[k] = "recording" /\ \A j \in Keys \ {k} : ledger'[j] = ledger[j]
  BY <1>1, <1>3 DEF IInv, TypeOK
<1>6. UNCHANGED <<installation, connection, context, events, run, delivery, callback, applied>>
  BY DEF ReserveEvent
<1> HIDE DEF k, n, q
<1>7. handler' \in [Handlers -> HandlerType] /\ RequestsOwn'
  <2>1. \A g \in Handlers : At(g, "blob") => ledger'[handler[g].key] = ledger[handler[g].key]
    BY <1>4, <1>5, RequestNames DEF IInv
  <2> QED BY <1>2, <1>3, <1>4, <1>5, <1>6, <2>1, OwnerBegins
<1>8. LedgerMatchesEvents'
  BY <1>1, <1>5, <1>6 DEF IInv, LedgerMatchesEvents
<1>9. TypeOK' /\ OneEffectPerCallback' /\ WaitingRunIsOpen'
  BY <1>3, <1>6, <1>7 DEF IInv, TypeOK, OneEffectPerCallback, WaitingRunIsOpen, Closed
<1> QED BY <1>7, <1>8, <1>9 DEF IInv

\* The owner of a key settles it.
LEMMA KeySettled ==
  ASSUME IInv, NEW h \in Handlers, At(h, "blob"), NEW s \in {"succeeded", "failed"},
         Return(h), ledger' = [ledger EXCEPT ![handler[h].key] = s],
         UNCHANGED delivery
  PROVE  handler' \in [Handlers -> HandlerType] /\ RequestsOwn'
<1>1. handler[h].key \in Keys
  BY RequestNames DEF IInv
<1>2. /\ handler' \in [Handlers -> HandlerType]
      /\ \A g \in Handlers : handler'[g] \in {handler[g], Free}
  BY Returned DEF IInv
<1>3. handler'[h] = Free
  BY DEF Return, IInv, TypeOK
<1>4. ASSUME NEW g \in Handlers, handler'[g] = handler[g], At(g, "blob")
      PROVE  ledger'[handler[g].key] = ledger[handler[g].key]
  <2>1. g # h
    BY <1>3, <1>4 DEF At, Free
  <2>2. handler[g].key # handler[h].key
    BY <1>4, <2>1 DEF IInv, RequestsOwn
  <2>3. handler[g].key \in Keys
    BY <1>4, RequestNames DEF IInv
  <2> QED BY <2>2, <2>3 DEF IInv, TypeOK
<1> QED BY <1>2, <1>4, OwnersReturn

LEMMA AppendStep ==
  ASSUME IInv, NEW h \in Handlers, AppendEvent(h)
  PROVE  IInv'
<1> DEFINE k == handler[h].key
<1>1. At(h, "blob") /\ k \in Keys /\ handler[h].connection \in Connections
  BY RequestNames DEF AppendEvent, IInv
<1>2. /\ events' = [events EXCEPT ![k] = events[k] + 1]
      /\ ledger' = [ledger EXCEPT ![k] = "succeeded"]
      /\ Return(h)
      /\ UNCHANGED <<installation, connection, delivery, callback, applied>>
  BY DEF AppendEvent
<1>3. context' \in [Contexts -> ContextRows]
  BY <1>1, ContextCreated DEF AppendEvent, IInv
<1>4. handler' \in [Handlers -> HandlerType] /\ RequestsOwn'
  BY <1>1, <1>2, KeySettled
<1>5. /\ run' \in [Runs -> RunStatus]
      /\ \A r \in Runs : run'[r] = "waiting" <=> run[r] = "waiting"
  BY Upserted DEF AppendEvent, IInv
<1>6. events[k] = 0
  BY <1>1 DEF IInv, RequestsOwn, LedgerMatchesEvents
<1> HIDE DEF k
<1>7. LedgerMatchesEvents'
  BY <1>1, <1>2, <1>6 DEF IInv, TypeOK, LedgerMatchesEvents
<1>8. TypeOK'
  BY <1>1, <1>2, <1>3, <1>4, <1>5 DEF IInv, TypeOK
<1>9. WaitingRunIsOpen' /\ OneEffectPerCallback'
  BY <1>2, <1>5, WaitingKept DEF IInv, OneEffectPerCallback
<1> QED BY <1>4, <1>7, <1>8, <1>9 DEF IInv

LEMMA FailStep ==
  ASSUME IInv, NEW h \in Handlers, EventFails(h)
  PROVE  IInv'
<1> DEFINE k == handler[h].key
<1>1. At(h, "blob") /\ k \in Keys /\ ledger[k] = "recording"
  BY RequestNames DEF EventFails, IInv, RequestsOwn
<1>2. /\ ledger' = [ledger EXCEPT ![k] = "failed"]
      /\ Return(h)
      /\ UNCHANGED <<installation, connection, context, events, run, delivery, callback, applied>>
  BY DEF EventFails, FailedKey
<1>3. handler' \in [Handlers -> HandlerType] /\ RequestsOwn'
  BY <1>1, <1>2, KeySettled
<1> HIDE DEF k
<1>4. LedgerMatchesEvents'
  BY <1>1, <1>2 DEF IInv, TypeOK, LedgerMatchesEvents
<1>5. TypeOK' /\ OneEffectPerCallback' /\ WaitingRunIsOpen'
  BY <1>1, <1>2, <1>3 DEF IInv, TypeOK, OneEffectPerCallback, WaitingRunIsOpen, Closed
<1> QED BY <1>3, <1>4, <1>5 DEF IInv

\* A decision writes open rows that no request owns, and its Run waits for them.
LEMMA CommitStep ==
  ASSUME IInv, NEW r \in Runs, NEW x \in Contexts, NEW ds \in SUBSET Deliveries,
         CommitDeliveryDecision(r, x, ds)
  PROVE  IInv'
<1> DEFINE w == [status |-> "running", run |-> r, context |-> x, operation |-> None]
<1>1. w \in DeliveryRows /\ w.status = "running" /\ w.run = r
  BY DEF DeliveryRows, Reported
<1>2. delivery' = [d \in Deliveries |-> IF d \in ds THEN w ELSE delivery[d]]
  BY DEF CommitDeliveryDecision
<1>3. /\ run' = [run EXCEPT ![r] = "waiting"]
      /\ UNCHANGED <<installation, connection, context, ledger, events, callback, applied, handler>>
      /\ ds # {} /\ \A d \in ds : Fresh(d)
  BY DEF CommitDeliveryDecision
<1> HIDE DEF w
<1>4. delivery' \in [Deliveries -> DeliveryRows]
  BY <1>1, <1>2 DEF IInv, TypeOK
<1>5. \A d \in Deliveries : d \in ds => delivery'[d] = w
  BY <1>2
<1>6. \A d \in Deliveries : d \notin ds => delivery'[d] = delivery[d]
  BY <1>2
<1>7. TypeOK'
  BY <1>3, <1>4 DEF IInv, TypeOK, RunStatus
<1>8. RequestsOwn'
  <2>1. \A h \in Handlers : At(h, "deliver") => handler[h].delivery \notin ds
    BY <1>3 DEF Fresh
  <2>2. \A h \in Handlers : At(h, "deliver") =>
          delivery'[handler[h].delivery].status = delivery[handler[h].delivery].status
    BY <1>6, <2>1, RequestNames DEF IInv
  <2> QED BY <1>3, <2>2, Returned, OwnersReturn DEF IInv
<1>9. WaitingRunIsOpen'
  <2>1. ASSUME NEW q \in Runs, run'[q] = "waiting"
        PROVE  \E d \in Deliveries :
                 delivery'[d].run = q /\ delivery'[d].status # "absent" /\ ~Closed(delivery'[d].status)
    <3>1. CASE q = r
      BY <1>1, <1>3, <1>5, <3>1 DEF Closed
    <3>2. CASE q # r
      <4>1. run[q] = "waiting"
        BY <1>3, <2>1, <3>2 DEF IInv, TypeOK
      <4>2. PICK d \in Deliveries :
              delivery[d].run = q /\ delivery[d].status # "absent" /\ ~Closed(delivery[d].status)
        BY <4>1 DEF IInv, WaitingRunIsOpen
      <4>3. d \notin ds
        BY <1>3, <4>2 DEF Fresh
      <4> QED BY <1>6, <4>2, <4>3
    <3> QED BY <3>1, <3>2
  <2> QED BY <2>1 DEF WaitingRunIsOpen, Closed
<1>10. LedgerMatchesEvents' /\ OneEffectPerCallback'
  BY <1>3 DEF IInv, LedgerMatchesEvents, OneEffectPerCallback
<1> QED BY <1>7, <1>8, <1>9, <1>10 DEF IInv

LEMMA BeginDeliverStep ==
  ASSUME IInv, NEW h \in Handlers, NEW d \in Deliveries, NEW x \in Contexts,
         NEW r \in Runs \cup {None}, BeginDeliver(h, d, x, r)
  PROVE  IInv'
<1> DEFINE q == [pc |-> "deliver", delivery |-> d, run |-> r, context |-> x]
<1>1. q \in HandlerType /\ q.pc = "deliver" /\ q.delivery = d
  BY DEF HandlerType
<1>2. /\ handler' = [handler EXCEPT ![h] = q]
      /\ Fresh(d)
      /\ UNCHANGED <<installation, connection, context, ledger, events, run, delivery, callback,
                     applied>>
  BY DEF BeginDeliver, Await
<1> HIDE DEF q
<1>3. handler' \in [Handlers -> HandlerType] /\ RequestsOwn'
  BY <1>1, <1>2, OwnerBegins DEF Fresh
<1> QED BY <1>2, <1>3
        DEF IInv, TypeOK, LedgerMatchesEvents, OneEffectPerCallback, WaitingRunIsOpen, Closed

\* The row a request writes at its end was absent.
LEMMA EndDeliverRow ==
  ASSUME IInv, NEW h \in Handlers, NEW s \in Reported, NEW o \in Operations \cup {None},
         EndDeliver(h, s, o)
  PROVE  /\ handler[h].delivery \in Deliveries
         /\ delivery[handler[h].delivery].status = "absent"
         /\ \A d \in Deliveries \ {handler[h].delivery} : delivery'[d] = delivery[d]
         /\ delivery' \in [Deliveries -> DeliveryRows]
<1>1. /\ At(h, "deliver") /\ handler[h].delivery \in Deliveries
      /\ handler[h].run \in Runs \cup {None} /\ handler[h].context \in Contexts
  BY RequestNames DEF EndDeliver, IInv
<1>2. [status |-> s, run |-> handler[h].run, context |-> handler[h].context, operation |-> o]
        \in DeliveryRows
  BY <1>1 DEF DeliveryRows
<1> QED BY <1>1, <1>2 DEF EndDeliver, IInv, TypeOK, RequestsOwn

LEMMA EndDeliverStep ==
  ASSUME IInv, NEW h \in Handlers, NEW s \in Reported, NEW o \in Operations \cup {None},
         EndDeliver(h, s, o)
  PROVE  IInv'
<1>1. /\ At(h, "deliver")
      /\ Return(h)
      /\ UNCHANGED <<installation, connection, context, ledger, events, run, callback, applied>>
  BY DEF EndDeliver
<1>2. /\ handler' \in [Handlers -> HandlerType]
      /\ \A g \in Handlers : handler'[g] \in {handler[g], Free}
      /\ handler'[h] = Free
  BY <1>1, Returned DEF IInv, Return, TypeOK
<1>3. RequestsOwn'
  <2>1. ASSUME NEW g \in Handlers, handler'[g] = handler[g], At(g, "deliver")
        PROVE  delivery'[handler[g].delivery].status = delivery[handler[g].delivery].status
    <3>1. g # h
      BY <1>2, <2>1 DEF At, Free
    <3>2. handler[g].delivery # handler[h].delivery
      BY <1>1, <2>1, <3>1 DEF IInv, RequestsOwn
    <3> QED BY <2>1, <3>2, EndDeliverRow, RequestNames DEF IInv
  <2> QED BY <1>1, <1>2, <2>1, OwnersReturn
<1>4. WaitingRunIsOpen'
  BY <1>1, EndDeliverRow, WaitingKept DEF IInv
<1>5. TypeOK' /\ LedgerMatchesEvents' /\ OneEffectPerCallback'
  BY <1>1, <1>2, EndDeliverRow DEF IInv, TypeOK, LedgerMatchesEvents, OneEffectPerCallback
<1> QED BY <1>3, <1>4, <1>5 DEF IInv

LEMMA EndRunStep ==
  ASSUME IInv, NEW r \in Runs, EndRun(r)
  PROVE  IInv'
<1>1. /\ run' = [run EXCEPT ![r] = "over"]
      /\ UNCHANGED <<installation, connection, context, ledger, events, delivery, callback,
                     applied, handler>>
  BY DEF EndRun
<1>2. TypeOK'
  BY <1>1 DEF IInv, TypeOK, RunStatus
<1>3. RequestsOwn' /\ LedgerMatchesEvents' /\ OneEffectPerCallback'
  BY <1>1 DEF IInv, RequestsOwn, LedgerMatchesEvents, OneEffectPerCallback, At
<1>4. WaitingRunIsOpen'
  BY <1>1, WaitingKept DEF IInv, TypeOK
<1> QED BY <1>2, <1>3, <1>4 DEF IInv

-----------------------------------------------------------------------------
(* Results *)

\* The fields of a row with its result.
LEMMA AnsweredFields ==
  ASSUME NEW t \in DeliveryRows, NEW s \in Reported, NEW o \in Operations \cup {None},
         NEW u, u = Answered(t, s, o)
  PROVE  /\ u \in DeliveryRows /\ u.status = s /\ u.operation = o
         /\ u.run = t.run /\ u.context = t.context
<1>1. u = [t EXCEPT !.status = s, !.operation = o]
  BY DEF Answered
<1>2. s \in Reported \cup {"absent"}
  OBVIOUS
<1> QED BY ONLY <1>1, <1>2, t \in DeliveryRows, o \in Operations \cup {None}, s \in Reported, Zenon
        DEF DeliveryRows

\* What every result has in common.
LEMMA ResultCommon ==
  ASSUME IInv, NEW h \in Handlers, NEW d \in Deliveries, NEW s \in Reported,
         NEW o \in Operations \cup {None}, NEW a \in Actions,
         PublishDeliveryResult(h, d, s, o, a)
  PROVE  /\ handler[h].key \in Callbacks
         /\ callback[handler[h].key] = None
         /\ callback' = [callback EXCEPT ![handler[h].key] = a]
         /\ UNCHANGED <<installation, connection, context, ledger, events>>
         /\ handler' \in [Handlers -> HandlerType]
         /\ \A g \in Handlers : handler'[g] \in {handler[g], Free}
         /\ delivery[d].status # "absent"
         /\ Classify(d, s) = a
BY Returned, RequestNames DEF IInv, PublishDeliveryResult, IsNewCallback, Bound

\* What a result that moves a Delivery leaves intact.
LEMMA ResultApplied ==
  ASSUME IInv, NEW h \in Handlers, NEW d \in Deliveries, NEW s \in Reported,
         NEW o \in Operations \cup {None}, NEW a \in Actions \ {"stale_callback"},
         PublishDeliveryResult(h, d, s, o, a), UpdateDelivery(h, d, s, o),
         run' \in [Runs -> RunStatus],
         \A r \in Runs : run'[r] = "waiting" => run[r] = "waiting",
         delivery[d].run \in Runs /\ run'[delivery[d].run] = "waiting" => ~Closed(s)
  PROVE  IInv'
<1> DEFINE k == handler[h].key
           u == Answered(delivery[d], s, o)
<1>1. /\ k \in Callbacks /\ callback[k] = None
      /\ callback' = [callback EXCEPT ![k] = a]
      /\ UNCHANGED <<installation, connection, context, ledger, events>>
      /\ handler' \in [Handlers -> HandlerType]
      /\ \A g \in Handlers : handler'[g] \in {handler[g], Free}
      /\ delivery[d].status # "absent"
  BY ResultCommon
<1>2. /\ delivery' = [delivery EXCEPT ![d] = u]
      /\ applied' = [applied EXCEPT ![k] = applied[k] + 1]
  BY DEF UpdateDelivery
<1>3. u \in DeliveryRows /\ u.status = s /\ u.run = delivery[d].run
  BY AnsweredFields DEF IInv, TypeOK
<1> HIDE DEF k, u
<1>4. delivery'[d] = u /\ \A e \in Deliveries \ {d} : delivery'[e] = delivery[e]
  BY <1>2 DEF IInv, TypeOK
<1>5. RequestsOwn'
  <2>1. ASSUME NEW g \in Handlers, At(g, "deliver")
        PROVE  delivery'[handler[g].delivery].status = delivery[handler[g].delivery].status
    <3>1. handler[g].delivery \in Deliveries /\ handler[g].delivery # d
      BY <1>1, <2>1, RequestNames DEF IInv, RequestsOwn
    <3> QED BY <1>4, <3>1
  <2> QED BY <1>1, <2>1, OwnersReturn
<1>6. WaitingRunIsOpen'
  <2>1. ASSUME NEW r \in Runs, run'[r] = "waiting"
        PROVE  \E e \in Deliveries :
                 delivery'[e].run = r /\ delivery'[e].status # "absent" /\ ~Closed(delivery'[e].status)
    <3>1. PICK e \in Deliveries :
            delivery[e].run = r /\ delivery[e].status # "absent" /\ ~Closed(delivery[e].status)
      BY <2>1 DEF IInv, WaitingRunIsOpen
    <3>2. CASE e = d
      BY <1>3, <1>4, <2>1, <3>1, <3>2 DEF Reported
    <3>3. CASE e # d
      BY <1>4, <3>1, <3>3
    <3> QED BY <3>2, <3>3
  <2> QED BY <2>1 DEF WaitingRunIsOpen, Closed
<1>7. OneEffectPerCallback'
  <2>1. applied[k] = 0 /\ applied'[k] = 1 /\ callback'[k] = a
    BY <1>1, <1>2 DEF IInv, TypeOK, OneEffectPerCallback
  <2>2. \A j \in Callbacks \ {k} : applied'[j] = applied[j] /\ callback'[j] = callback[j]
    BY <1>1, <1>2 DEF IInv, TypeOK
  <2>3. a \notin {None, "stale_callback"}
    BY DEF Actions, None
  <2> QED BY <2>1, <2>2, <2>3 DEF IInv, OneEffectPerCallback
<1>8. TypeOK'
  BY <1>1, <1>2, <1>3 DEF IInv, TypeOK
<1>9. LedgerMatchesEvents'
  BY <1>1 DEF IInv, LedgerMatchesEvents
<1> QED BY <1>5, <1>6, <1>7, <1>8, <1>9 DEF IInv

LEMMA ResultSteps ==
  ASSUME IInv, NEW h \in Handlers, NEW d \in Deliveries, NEW s \in Reported,
         NEW o \in Operations \cup {None},
         \/ StaleCallback(h, d, s, o) \/ Resume(h, d, s, o)
         \/ TerminalFailure(h, d, s, o) \/ FollowUpEvent(h, d, s, o)
  PROVE  IInv'
<1>0. TypeOK /\ delivery[d] \in DeliveryRows /\ run \in [Runs -> RunStatus]
  BY DEF IInv, TypeOK
<1>1. CASE StaleCallback(h, d, s, o)
  <2>1. PublishDeliveryResult(h, d, s, o, "stale_callback") /\ UNCHANGED <<run, delivery, applied>>
    BY <1>1 DEF StaleCallback
  <2>2. "stale_callback" \in Actions
    BY DEF Actions
  <2>3. /\ handler[h].key \in Callbacks /\ callback[handler[h].key] = None
        /\ callback' = [callback EXCEPT ![handler[h].key] = "stale_callback"]
        /\ UNCHANGED <<installation, connection, context, ledger, events>>
        /\ handler' \in [Handlers -> HandlerType]
        /\ \A g \in Handlers : handler'[g] \in {handler[g], Free}
    BY <2>1, <2>2, ResultCommon
  <2>4. RequestsOwn'
    BY <2>1, <2>3, OwnersReturn
  <2>5. TypeOK' /\ LedgerMatchesEvents' /\ WaitingRunIsOpen'
    BY <2>1, <2>2, <2>3 DEF IInv, TypeOK, LedgerMatchesEvents, WaitingRunIsOpen, Closed
  <2>6. OneEffectPerCallback'
    BY <2>1, <2>3 DEF IInv, TypeOK, OneEffectPerCallback
  <2> QED BY <2>4, <2>5, <2>6 DEF IInv
<1>2. CASE Resume(h, d, s, o)
  <2>1. PublishDeliveryResult(h, d, s, o, "resume") /\ UpdateDelivery(h, d, s, o)
    BY <1>2 DEF Resume
  <2>2. run' = [run EXCEPT ![delivery[d].run] = "resumed"]
    BY <1>2 DEF Resume
  <2>3. "resume" \in Actions \ {"stale_callback"}
    BY DEF Actions
  <2> QED BY <1>0, <2>1, <2>2, <2>3, ResultApplied DEF RunStatus
<1>3. CASE TerminalFailure(h, d, s, o)
  <2>1. PublishDeliveryResult(h, d, s, o, "terminal_failure") /\ UpdateDelivery(h, d, s, o)
    BY <1>3 DEF TerminalFailure
  <2>2. run' = [run EXCEPT ![delivery[d].run] = "over"]
    BY <1>3 DEF TerminalFailure
  <2>3. "terminal_failure" \in Actions \ {"stale_callback"}
    BY DEF Actions
  <2> QED BY <1>0, <2>1, <2>2, <2>3, ResultApplied DEF RunStatus
<1>4. CASE FollowUpEvent(h, d, s, o)
  <2>1. PublishDeliveryResult(h, d, s, o, "follow_up_event") /\ UpdateDelivery(h, d, s, o)
    BY <1>4 DEF FollowUpEvent
  <2>2. /\ run' \in [Runs -> RunStatus]
        /\ \A r \in Runs : run'[r] = "waiting" <=> run[r] = "waiting"
    BY <1>0, <1>4, Upserted DEF FollowUpEvent
  <2>3. "follow_up_event" \in Actions \ {"stale_callback"}
    BY DEF Actions
  <2>4. Classify(d, s) = "follow_up_event"
    BY <2>1, <2>3, ResultCommon
  <2>5. delivery[d].run \in Runs => s = "follow_up"
    <3>1. delivery[d].run \in Runs => delivery[d].run # None
      BY DeliveryAssumption
    <3> QED BY <2>4, <3>1 DEF Classify
  <2>6. delivery[d].run \in Runs => ~Closed(s)
    BY <2>5 DEF Closed
  <2> QED BY <2>1, <2>2, <2>3, <2>6, ResultApplied
<1> QED BY <1>1, <1>2, <1>3, <1>4

LEMMA NextInv == IInv /\ [Next]_vars => IInv'
<1> SUFFICES ASSUME IInv, [Next]_vars PROVE IInv'
  OBVIOUS
<1>1. CASE \/ InstallIntegration \/ UninstallIntegration
           \/ \E n \in Connections : CreateAdapterConnection(n) \/ DeleteAdapterConnection(n)
  BY <1>1, InstallationSteps
<1>2. ASSUME NEW h \in Handlers, Ingress(h) PROVE IInv'
  BY <1>2, VerifySteps, RefusalSteps, ReserveStep, AppendStep, FailStep DEF Ingress
<1>3. ASSUME NEW h \in Handlers, Deliver(h) PROVE IInv'
  <2>1. CASE \E d \in Deliveries, x \in Contexts, r \in Runs \cup {None} : BeginDeliver(h, d, x, r)
    BY <2>1, BeginDeliverStep
  <2>2. CASE \E s \in Reported, o \in Operations \cup {None} : ProviderAnswers(h, s, o)
    BY <2>2, EndDeliverStep DEF ProviderAnswers
  <2>3. CASE ProviderFails(h)
    BY <2>3, EndDeliverStep DEF ProviderFails, Reported
  <2> QED BY <1>3, <2>1, <2>2, <2>3 DEF Deliver
<1>4. ASSUME NEW h \in Handlers, Callback(h) PROVE IInv'
  BY <1>4, VerifySteps, RefusalSteps, ResultSteps DEF Callback
<1>5. ASSUME NEW r \in Runs, NEW x \in Contexts, NEW ds \in SUBSET Deliveries,
             CommitDeliveryDecision(r, x, ds)
      PROVE  IInv'
  BY <1>5, CommitStep
<1>6. ASSUME NEW r \in Runs, EndRun(r) PROVE IInv'
  BY <1>6, EndRunStep
<1>7. CASE Evict
  BY <1>7, RefusalSteps
<1>8. CASE UNCHANGED vars
  BY <1>8 DEF vars, IInv, TypeOK, RequestsOwn, At, LedgerMatchesEvents, OneEffectPerCallback,
              WaitingRunIsOpen, Closed
<1> QED BY <1>1, <1>2, <1>3, <1>4, <1>5, <1>6, <1>7, <1>8 DEF Next

LEMMA DeliveryInvariant == Spec => []IInv
BY InitInv, NextInv, PTL DEF Spec

-----------------------------------------------------------------------------
(* The properties *)

\* The rows of the Installation and the requests in flight have their types
\* (storage/schema/integration.ts).
THEOREM DeliveryTypes == Spec => []TypeOK
<1>1. IInv => TypeOK
  BY DEF IInv
<1> QED BY <1>1, DeliveryInvariant, PTL

\* A command is recorded as succeeded if and only if its Event is in the mailbox,
\* once, whatever the number of its retries and wherever they are lost
\* (operations-publish.ts).
THEOREM LedgerIsTrue == Spec => []LedgerMatchesEvents
<1>1. IInv => LedgerMatchesEvents
  BY DEF IInv
<1> QED BY <1>1, DeliveryInvariant, PTL

\* A PublishDeliveryResult has one effect under its key, and none when it is
\* recorded as stale (operations-delivery.ts).
THEOREM EffectOnce == Spec => []OneEffectPerCallback
<1>1. IInv => OneEffectPerCallback
  BY DEF IInv
<1> QED BY <1>1, DeliveryInvariant, PTL

\* A Run that waits for Deliveries has one whose result is still accepted
\* (delivery-classification.ts).
THEOREM WaitingCanEnd == Spec => []WaitingRunIsOpen
<1>1. IInv => WaitingRunIsOpen
  BY DEF IInv
<1> QED BY <1>1, DeliveryInvariant, PTL

\* A step writes a row that was absent, or the row of an accepted result.
LEMMA RowsWritten ==
  ASSUME IInv, Next, NEW d \in Deliveries, delivery[d].status # "absent"
  PROVE  \/ delivery'[d] = delivery[d]
         \/ \E h \in Handlers, s \in Reported, o \in Operations \cup {None},
              a \in Actions \ {"stale_callback"} : PublishDeliveryResult(h, d, s, o, a)
<1> DEFINE Accepted == \E h \in Handlers, s \in Reported, o \in Operations \cup {None},
              a \in Actions \ {"stale_callback"} : PublishDeliveryResult(h, d, s, o, a)
<1>1. CASE UNCHANGED delivery
  BY <1>1
<1>2. ASSUME NEW h \in Handlers, Deliver(h) PROVE delivery'[d] = delivery[d]
  <2>1. CASE \E e \in Deliveries, x \in Contexts, r \in Runs \cup {None} : BeginDeliver(h, e, x, r)
    BY <2>1 DEF BeginDeliver
  <2>2. ASSUME NEW s \in Reported, NEW o \in Operations \cup {None}, EndDeliver(h, s, o)
        PROVE  delivery'[d] = delivery[d]
    BY <2>2, EndDeliverRow
  <2> QED BY <1>2, <2>1, <2>2 DEF Deliver, ProviderAnswers, ProviderFails, Reported
<1>3. ASSUME NEW r \in Runs, NEW x \in Contexts, NEW ds \in SUBSET Deliveries,
             CommitDeliveryDecision(r, x, ds)
      PROVE  delivery'[d] = delivery[d]
  BY <1>3 DEF CommitDeliveryDecision, Fresh
<1>4. ASSUME NEW h \in Handlers, Callback(h) PROVE delivery'[d] = delivery[d] \/ Accepted
  <2>1. CASE \/ \E k \in Callbacks : ReceiveCallback(h, k)
             \/ RefuseCallback(h)
    BY <2>1 DEF ReceiveCallback, RefuseCallback
  <2>2. ASSUME NEW e \in Deliveries, NEW s \in Reported, NEW o \in Operations \cup {None},
               \/ StaleCallback(h, e, s, o) \/ Resume(h, e, s, o)
               \/ TerminalFailure(h, e, s, o) \/ FollowUpEvent(h, e, s, o)
        PROVE  delivery'[d] = delivery[d] \/ Accepted
    <3>1. CASE StaleCallback(h, e, s, o)
      BY <3>1 DEF StaleCallback
    <3>2. CASE \E a \in Actions \ {"stale_callback"} :
                 PublishDeliveryResult(h, e, s, o, a) /\ UpdateDelivery(h, e, s, o)
      <4>1. CASE e = d
        BY <3>2, <4>1
      <4>2. CASE e # d
        BY <3>2, <4>2 DEF UpdateDelivery, IInv, TypeOK
      <4> QED BY <4>1, <4>2
    <3>3. {"resume", "terminal_failure", "follow_up_event"} \subseteq Actions \ {"stale_callback"}
      BY DEF Actions
    <3> QED BY <2>2, <3>1, <3>2, <3>3 DEF Resume, TerminalFailure, FollowUpEvent
  <2> QED BY <1>4, <2>1, <2>2 DEF Callback
<1>5. ASSUME NEW h \in Handlers, Ingress(h) PROVE UNCHANGED delivery
  BY <1>5 DEF Ingress, ReceiveEvent, ReserveEvent, ReplayEvent, RefuseEvent, AppendEvent, EventFails
<1>6. CASE \/ InstallIntegration \/ UninstallIntegration
           \/ \E n \in Connections : CreateAdapterConnection(n) \/ DeleteAdapterConnection(n)
           \/ \E r \in Runs : EndRun(r)
           \/ Evict
  BY <1>6 DEF InstallIntegration, UninstallIntegration, CreateAdapterConnection,
              DeleteAdapterConnection, EndRun, Evict
<1> QED BY <1>1, <1>2, <1>3, <1>4, <1>5, <1>6 DEF Next

\* A result the ledger holds as final is not overwritten (operations-delivery.ts,
\* delivery-classification.ts).
THEOREM FinalStays == Spec => FinalDeliveryStays
<1>1. ASSUME IInv, Next, NEW d \in Deliveries, delivery[d].status \in {"delivered", "failed"}
      PROVE  delivery'[d] = delivery[d]
  <2>1. ASSUME NEW h \in Handlers, NEW s \in Reported, NEW o \in Operations \cup {None},
               NEW a \in Actions \ {"stale_callback"}, PublishDeliveryResult(h, d, s, o, a)
        PROVE  FALSE
    BY <1>1, <2>1 DEF PublishDeliveryResult, Classify, Closed
  <2> QED BY <1>1, <2>1, RowsWritten
<1>2. IInv /\ [Next]_vars =>
        [\A d \in Deliveries :
           delivery[d].status \in {"delivered", "failed"} => delivery'[d] = delivery[d]]_vars
  BY <1>1
<1> QED BY <1>2, DeliveryInvariant, PTL DEF Spec, FinalDeliveryStays

\* No step but a result moves a Run that waits, unless it ends it.
LEMMA WaitingMoved ==
  ASSUME IInv, Next, installation = "uninstalled", NEW r \in Runs, run[r] = "waiting"
  PROVE  run'[r] \in {"waiting", "over"}
<1>1. CASE UNCHANGED run
  BY <1>1
<1>2. ASSUME NEW h \in Handlers, Callback(h) PROVE UNCHANGED run
  <2>1. CASE (\E k \in Callbacks : ReceiveCallback(h, k)) \/ RefuseCallback(h)
    BY <2>1 DEF ReceiveCallback, RefuseCallback
  <2>2. ASSUME NEW d, NEW s, NEW o, NEW a, PublishDeliveryResult(h, d, s, o, a)
        PROVE  FALSE
    BY <2>2 DEF PublishDeliveryResult, Bound
  <2> QED BY <1>2, <2>1, <2>2
          DEF Callback, StaleCallback, Resume, TerminalFailure, FollowUpEvent
<1>3. ASSUME NEW h \in Handlers, Ingress(h) PROVE run'[r] = "waiting"
  <2>1. CASE UpsertPendingRun
    BY <2>1, Upserted DEF IInv
  <2> QED BY <1>3, <2>1
          DEF Ingress, ReceiveEvent, ReserveEvent, ReplayEvent, RefuseEvent, AppendEvent, EventFails
<1>4. ASSUME NEW h \in Handlers, Deliver(h) PROVE UNCHANGED run
  BY <1>4 DEF Deliver, BeginDeliver, ProviderAnswers, ProviderFails, EndDeliver
<1>5. CASE \E q \in Runs, x \in Contexts, ds \in SUBSET Deliveries : CommitDeliveryDecision(q, x, ds)
  BY <1>5 DEF CommitDeliveryDecision, IInv, TypeOK
<1>6. CASE \E q \in Runs : EndRun(q)
  BY <1>6 DEF EndRun, IInv, TypeOK
<1>7. CASE \/ InstallIntegration \/ UninstallIntegration
           \/ \E n \in Connections : CreateAdapterConnection(n) \/ DeleteAdapterConnection(n)
           \/ Evict
  BY <1>7 DEF InstallIntegration, UninstallIntegration, CreateAdapterConnection,
              DeleteAdapterConnection, Evict
<1> QED BY <1>1, <1>2, <1>3, <1>4, <1>5, <1>6, <1>7 DEF Next

\* After the uninstallation no Delivery moves and no Run is resumed, although
\* signatures were verified before it (operations-delivery.ts).
THEOREM QuietAfterUninstall == Spec => UninstalledIsQuiet
<1>1. ASSUME IInv, Next, installation = "uninstalled", NEW d \in Deliveries,
             delivery[d].status # "absent"
      PROVE  delivery'[d] = delivery[d]
  <2>1. ASSUME NEW h \in Handlers, NEW s \in Reported, NEW o \in Operations \cup {None},
               NEW a \in Actions \ {"stale_callback"}, PublishDeliveryResult(h, d, s, o, a)
        PROVE  FALSE
    BY <1>1, <2>1 DEF PublishDeliveryResult, Bound
  <2> QED BY <1>1, <2>1, RowsWritten
<1>2. IInv /\ [Next]_vars =>
        [installation = "uninstalled" =>
           /\ \A d \in Deliveries :
                delivery[d].status # "absent" => delivery'[d] = delivery[d]
           /\ \A r \in Runs : run[r] = "waiting" => run'[r] \in {"waiting", "over"}]_vars
  BY <1>1, WaitingMoved
<1> QED BY <1>2, DeliveryInvariant, PTL DEF Spec, UninstalledIsQuiet

-----------------------------------------------------------------------------
(* The refinements *)

\* What a step does to the ledger and the mailbox: nothing, or it reserves,
\* settles or fails one key.
LEMMA KeyMoves ==
  ASSUME IInv, [Next]_vars
  PROVE  \/ UNCHANGED <<ledger, events>>
         \/ \E k \in Keys :
              \/ /\ ledger[k] = "absent" /\ UNCHANGED events
                 /\ ledger' = [ledger EXCEPT ![k] = "recording"]
              \/ /\ ledger[k] = "recording"
                 /\ ledger' = [ledger EXCEPT ![k] = "succeeded"]
                 /\ events' = [events EXCEPT ![k] = events[k] + 1]
              \/ /\ ledger[k] = "recording" /\ UNCHANGED events
                 /\ ledger' = [ledger EXCEPT ![k] = "failed"]
<1>1. ASSUME NEW h \in Handlers, ReserveEvent(h) \/ AppendEvent(h) \/ EventFails(h)
      PROVE  \E k \in Keys :
              \/ /\ ledger[k] = "absent" /\ UNCHANGED events
                 /\ ledger' = [ledger EXCEPT ![k] = "recording"]
              \/ /\ ledger[k] = "recording"
                 /\ ledger' = [ledger EXCEPT ![k] = "succeeded"]
                 /\ events' = [events EXCEPT ![k] = events[k] + 1]
              \/ /\ ledger[k] = "recording" /\ UNCHANGED events
                 /\ ledger' = [ledger EXCEPT ![k] = "failed"]
  <2>1. At(h, "verify") \/ At(h, "blob")
    BY <1>1 DEF ReserveEvent, AppendEvent, EventFails
  <2>2. handler[h].key \in Keys
    BY <2>1, RequestNames DEF IInv
  <2>3. At(h, "blob") => ledger[handler[h].key] = "recording"
    BY DEF IInv, RequestsOwn
  <2> QED BY <1>1, <2>2, <2>3 DEF ReserveEvent, KeyIsNew, AppendEvent, EventFails, FailedKey
<1>2. ASSUME NEW h \in Handlers,
             \/ \E k \in Keys, n \in Connections : ReceiveEvent(h, k, n)
             \/ ReplayEvent(h)
             \/ RefuseEvent(h)
      PROVE  UNCHANGED <<ledger, events>>
  BY <1>2 DEF ReceiveEvent, ReplayEvent, RefuseEvent
<1>3. ASSUME NEW h \in Handlers, Deliver(h)
      PROVE  UNCHANGED <<ledger, events>>
  BY <1>3 DEF Deliver, BeginDeliver, ProviderAnswers, ProviderFails, EndDeliver
<1>4. ASSUME NEW h \in Handlers, Callback(h)
      PROVE  UNCHANGED <<ledger, events>>
  BY <1>4 DEF Callback, ReceiveCallback, RefuseCallback, StaleCallback, Resume, TerminalFailure,
              FollowUpEvent, PublishDeliveryResult
<1>5. CASE \/ InstallIntegration \/ UninstallIntegration
           \/ \E n \in Connections : CreateAdapterConnection(n) \/ DeleteAdapterConnection(n)
           \/ \E r \in Runs, x \in Contexts, ds \in SUBSET Deliveries :
                CommitDeliveryDecision(r, x, ds)
           \/ \E r \in Runs : EndRun(r)
           \/ Evict
           \/ UNCHANGED vars
  BY <1>5 DEF InstallIntegration, UninstallIntegration, CreateAdapterConnection,
              DeleteAdapterConnection, CommitDeliveryDecision, EndRun, Evict, vars
<1> QED BY <1>1, <1>2, <1>3, <1>4, <1>5, ZenonT(30) DEF Next, Ingress

PublishedOutcome == [k \in Keys |-> PublishOutcome(ledger[k])]

\* Every step is a decision about one key of AgentOnce or leaves all open.
LEMMA PublishedStep ==
  ASSUME IInv, [Next]_vars
  PROVE  [Published!Next]_<<PublishedOutcome, events>>
<1>1. CASE UNCHANGED <<ledger, events>>
  BY <1>1 DEF PublishedOutcome
<1>2. ASSUME NEW k \in Keys, NEW s, ledger' = [ledger EXCEPT ![k] = s]
      PROVE  PublishedOutcome' = [PublishedOutcome EXCEPT ![k] = PublishOutcome(s)]
  BY <1>2 DEF PublishedOutcome, IInv, TypeOK
<1>3. ASSUME NEW k \in Keys
      PROVE  PublishedOutcome[k] = PublishOutcome(ledger[k])
  BY DEF PublishedOutcome
<1>4. ASSUME NEW k \in Keys, ledger[k] = "absent", UNCHANGED events,
             ledger' = [ledger EXCEPT ![k] = "recording"]
      PROVE  UNCHANGED <<PublishedOutcome, events>>
  BY <1>4 DEF PublishedOutcome, PublishOutcome, IInv, TypeOK
<1>5. ASSUME NEW k \in Keys, ledger[k] = "recording",
             ledger' = [ledger EXCEPT ![k] = "succeeded"],
             events' = [events EXCEPT ![k] = events[k] + 1]
      PROVE  Published!Perform(k)
  BY <1>2, <1>3, <1>5 DEF Published!Perform, PublishedOutcome, PublishOutcome
<1>6. ASSUME NEW k \in Keys, ledger[k] = "recording", UNCHANGED events,
             ledger' = [ledger EXCEPT ![k] = "failed"]
      PROVE  Published!Refuse(k)
  BY <1>2, <1>3, <1>6 DEF Published!Refuse, PublishedOutcome, PublishOutcome
<1> QED BY <1>1, <1>4, <1>5, <1>6, KeyMoves DEF Published!Next

\* PublishEvent implements AgentOnce: a key is decided once, with its Event or
\* without one, and the ledger keeps the decision (operations-publish.ts).
THEOREM PublishIsOnce == Spec => PublishedOnce
<1>1. Init => Published!Init
  BY DEF Init, Published!Init, PublishOutcome
<1>2. IInv /\ [Next]_vars => [Published!Next]_<<PublishedOutcome, events>>
  BY PublishedStep
<1> QED BY <1>1, <1>2, DeliveryInvariant, PTL
        DEF Spec, PublishedOnce, Published!Spec, PublishedOutcome

\* What a step does to the recorded callbacks: nothing, or it classifies one,
\* with an effect unless it is stale.
LEMMA CallbackMoves ==
  ASSUME IInv, [Next]_vars
  PROVE  \/ UNCHANGED <<callback, applied>>
         \/ \E k \in Callbacks :
              /\ callback[k] = None
              /\ \/ /\ callback' = [callback EXCEPT ![k] = "stale_callback"]
                    /\ UNCHANGED applied
                 \/ /\ \E a \in Actions \ {"stale_callback"} :
                         callback' = [callback EXCEPT ![k] = a]
                    /\ applied' = [applied EXCEPT ![k] = applied[k] + 1]
<1>1. ASSUME NEW h \in Handlers, NEW d \in Deliveries, NEW s \in Reported,
             NEW o \in Operations \cup {None},
             \/ StaleCallback(h, d, s, o) \/ Resume(h, d, s, o)
             \/ TerminalFailure(h, d, s, o) \/ FollowUpEvent(h, d, s, o)
      PROVE  \E k \in Callbacks :
              /\ callback[k] = None
              /\ \/ /\ callback' = [callback EXCEPT ![k] = "stale_callback"]
                    /\ UNCHANGED applied
                 \/ /\ \E a \in Actions \ {"stale_callback"} :
                         callback' = [callback EXCEPT ![k] = a]
                    /\ applied' = [applied EXCEPT ![k] = applied[k] + 1]
  <2>1. \E a \in Actions : PublishDeliveryResult(h, d, s, o, a)
    BY <1>1 DEF Actions, StaleCallback, Resume, TerminalFailure, FollowUpEvent
  <2>2. handler[h].key \in Callbacks /\ callback[handler[h].key] = None
    BY <2>1, RequestNames DEF PublishDeliveryResult, IsNewCallback, IInv
  <2>3. CASE StaleCallback(h, d, s, o)
    BY <2>2, <2>3 DEF StaleCallback, PublishDeliveryResult
  <2>4. CASE \E a \in Actions \ {"stale_callback"} :
               PublishDeliveryResult(h, d, s, o, a) /\ UpdateDelivery(h, d, s, o)
    BY <2>2, <2>4 DEF PublishDeliveryResult, UpdateDelivery
  <2> QED BY <1>1, <2>3, <2>4 DEF Actions, Resume, TerminalFailure, FollowUpEvent
<1>2. ASSUME NEW h \in Handlers,
             (\E k \in Callbacks : ReceiveCallback(h, k)) \/ RefuseCallback(h)
      PROVE  UNCHANGED <<callback, applied>>
  BY <1>2 DEF ReceiveCallback, RefuseCallback
<1>3. ASSUME NEW h \in Handlers, Ingress(h)
      PROVE  UNCHANGED <<callback, applied>>
  BY <1>3 DEF Ingress, ReceiveEvent, ReserveEvent, ReplayEvent, RefuseEvent, AppendEvent,
              EventFails
<1>4. ASSUME NEW h \in Handlers, Deliver(h)
      PROVE  UNCHANGED <<callback, applied>>
  BY <1>4 DEF Deliver, BeginDeliver, ProviderAnswers, ProviderFails, EndDeliver
<1>5. CASE \/ InstallIntegration \/ UninstallIntegration
           \/ \E n \in Connections : CreateAdapterConnection(n) \/ DeleteAdapterConnection(n)
           \/ \E r \in Runs, x \in Contexts, ds \in SUBSET Deliveries :
                CommitDeliveryDecision(r, x, ds)
           \/ \E r \in Runs : EndRun(r)
           \/ Evict
           \/ UNCHANGED vars
  BY <1>5 DEF InstallIntegration, UninstallIntegration, CreateAdapterConnection,
              DeleteAdapterConnection, CommitDeliveryDecision, EndRun, Evict, vars
<1> QED BY <1>1, <1>2, <1>3, <1>4, <1>5, ZenonT(30) DEF Next, Callback

AppliedOutcome == [k \in Callbacks |-> CallbackOutcome(callback[k])]

LEMMA AppliedStep ==
  ASSUME IInv, [Next]_vars
  PROVE  [Applied!Next]_<<AppliedOutcome, applied>>
<1>1. CASE UNCHANGED <<callback, applied>>
  BY <1>1 DEF AppliedOutcome
<1>2. ASSUME NEW k \in Callbacks, NEW a, callback' = [callback EXCEPT ![k] = a]
      PROVE  AppliedOutcome' = [AppliedOutcome EXCEPT ![k] = CallbackOutcome(a)]
  BY <1>2 DEF AppliedOutcome, IInv, TypeOK
<1>3. \A k \in Callbacks : callback[k] = None => AppliedOutcome[k] = "open"
  BY DEF AppliedOutcome, CallbackOutcome
<1>4. ASSUME NEW k \in Callbacks, callback[k] = None, UNCHANGED applied,
             callback' = [callback EXCEPT ![k] = "stale_callback"]
      PROVE  Applied!Refuse(k)
  <2>1. CallbackOutcome("stale_callback") = "refused"
    BY DEF CallbackOutcome, None
  <2>2. AppliedOutcome' = [AppliedOutcome EXCEPT ![k] = "refused"]
    BY <1>2, <1>4, <2>1
  <2> QED BY <1>3, <1>4, <2>2 DEF Applied!Refuse, AppliedOutcome
<1>5. ASSUME NEW k \in Callbacks, callback[k] = None, NEW a \in Actions \ {"stale_callback"},
             callback' = [callback EXCEPT ![k] = a],
             applied' = [applied EXCEPT ![k] = applied[k] + 1]
      PROVE  Applied!Perform(k)
  <2>1. CallbackOutcome(a) = "done"
    BY DEF CallbackOutcome, Actions, None
  <2>2. AppliedOutcome' = [AppliedOutcome EXCEPT ![k] = "done"]
    BY <1>2, <1>5, <2>1
  <2> QED BY <1>3, <1>5, <2>2 DEF Applied!Perform, AppliedOutcome
<1> QED BY <1>1, <1>4, <1>5, CallbackMoves DEF Applied!Next

\* PublishDeliveryResult implements AgentOnce: under its key it is applied once
\* or recorded as stale, for good (operations-delivery.ts reads the ledger after
\* the signature was verified).
THEOREM CallbackIsOnce == Spec => AppliedOnce
<1>1. Init => Applied!Init
  BY DEF Init, Applied!Init, CallbackOutcome
<1>2. IInv /\ [Next]_vars => [Applied!Next]_<<AppliedOutcome, applied>>
  BY AppliedStep
<1> QED BY <1>1, <1>2, DeliveryInvariant, PTL
        DEF Spec, AppliedOnce, Applied!Spec, AppliedOutcome
=============================================================================
