----------------------- MODULE AgentRegistrationProofs -----------------------
(***************************************************************************)
(* Proofs about AgentRegistration, for every set of server actions and of  *)
(* names and of Workers, every number of attempts and every choice of      *)
(* faults.                                                                 *)
(***************************************************************************)
EXTENDS AgentRegistration, TLAPS

\* A row that no attempt made is active, and an absent row keeps nothing.
RowShape ==
  /\ row.state = "absent" => row = NoRow
  /\ row.state \in {"initializing", "reconciliation_required"} => row.attempt # NoAttempt

\* Only attempts that were created are spoken of, and a call on its way was
\* given up.
Issued ==
  /\ row.attempt <= attempts
  /\ \A o \in Origins : agent[o].receipt <= attempts
  /\ \A a \in Attempts : \A o \in Outcomes : <<a, o>> \in answers => a <= attempts
  /\ \A a \in Attempts : \A n \in Names : <<a, n>> \in calls => a \in overdue
  /\ \A a \in overdue : a <= attempts
  /\ \A r \in Requests : request[r].attempt <= attempts

\* An Agent has a receipt exactly when it has a profile, and the receipt is of an
\* attempt that was sent to its Worker.
ReceiptWithProfile ==
  \A o \in Origins :
    /\ agent[o].status = "none" <=> agent[o].receipt = NoAttempt
    /\ agent[o].receipt # NoAttempt => sentTo[agent[o].receipt] = o

\* Calls go to Workers.
Addressed ==
  /\ RowExists => row.origin \in Origins
  /\ \A r \in Requests : request[r].pc \in {"checked", "ask"} => request[r].origin \in Origins

\* What a server action has learnt of the Agent remains true while it goes on.
RequestsKnow ==
  \A r \in Requests :
    /\ request[r].pc \in Held <=> request[r].attempt # NoAttempt
    /\ request[r].pc = "matched" => Initialized(request[r].attempt)
    /\ request[r].pc = "absent" =>
         ~Initialized(request[r].attempt) \/ request[r].attempt \in overdue \cup astray

Starting(r) == request[r].pc \in {"created", "initialize"}

\* Until its call has returned, an attempt belongs to the server action that
\* created it: no other one works on it, its row waits unless it was deleted,
\* and nothing was said of it.
StartersOwn ==
  \A r \in Requests : Starting(r) =>
    /\ \A q \in Requests \ {r} : request[q].attempt # request[r].attempt
    /\ row.attempt = request[r].attempt \/ request[r].attempt \in deleted
    /\ row.attempt = request[r].attempt => row.state = "initializing"
    /\ ~Initialized(request[r].attempt)
    /\ request[r].attempt \notin overdue
    /\ \A o \in Outcomes : <<request[r].attempt, o>> \notin answers

\* The properties of the run.
Safety ==
  /\ ActiveMeansInitialized
  /\ RegisteredStays
  /\ FailedIsForgotten
  /\ FailedMeansNoAgent
  /\ AgentHasRow
  /\ AnswerIsReconcilable

IInv ==
  /\ TypeOK
  /\ RowShape
  /\ Issued
  /\ ReceiptWithProfile
  /\ Addressed
  /\ RequestsKnow
  /\ StartersOwn
  /\ Safety

-----------------------------------------------------------------------------
(* Types of what the actions write *)

\* A name there is.
LEMMA SomeNameType == SomeName \in Names
BY RegistrationAssumption DEF SomeName

\* The absent row is a row.
LEMMA NoRowType == NoRow \in Rows
BY SomeNameType DEF NoRow, Rows, States, Addresses

\* A row that changes its state is one.
LEMMA RowInState ==
  ASSUME TypeOK, NEW s \in States
  PROVE  /\ [row EXCEPT !.state = s] \in Rows
         /\ [row EXCEPT !.state = s].state = s
         /\ [row EXCEPT !.state = s].attempt = row.attempt
         /\ [row EXCEPT !.state = s].origin = row.origin
BY DEF TypeOK, Rows

\* A server action that is free is one.
LEMMA FreeType == Free \in RequestType
BY SomeNameType DEF Free, RequestType, Addresses

\* What a server action that goes on holds.
LEMMA ContinueType ==
  ASSUME TypeOK,
         NEW r \in Requests,
         NEW pc \in Held,
         NEW o \in Addresses,
         Continue(r, pc, o)
  PROVE  /\ request' \in [Requests -> RequestType]
         /\ request'[r].pc = pc /\ request'[r].attempt = request[r].attempt
         /\ request'[r].origin = o
         /\ \A q \in Requests \ {r} : request'[q] = request[q]
<1>1. request[r] \in RequestType
  BY DEF TypeOK
<1>2. [request[r] EXCEPT !.pc = pc, !.origin = o] \in RequestType
  BY <1>1 DEF RequestType
<1>3. request'[r] = [request[r] EXCEPT !.pc = pc, !.origin = o]
  BY DEF TypeOK, Continue
<1>4. request'[r].pc = pc /\ request'[r].attempt = request[r].attempt /\ request'[r].origin = o
  BY <1>1, <1>3 DEF RequestType
<1> QED
  BY <1>2, <1>4 DEF TypeOK, Continue

\* The same of one that asks nobody.
LEMMA GotoType ==
  ASSUME TypeOK, NEW r \in Requests, NEW pc \in Held, Goto(r, pc)
  PROVE  /\ request' \in [Requests -> RequestType]
         /\ request'[r].pc = pc /\ request'[r].attempt = request[r].attempt
         /\ request'[r].origin = NoOrigin
         /\ \A q \in Requests \ {r} : request'[q] = request[q]
BY ContinueType DEF Goto, Addresses

\* The same of one that ends.
LEMMA FreedType ==
  ASSUME TypeOK, NEW r \in Requests, request' = [request EXCEPT ![r] = Free]
  PROVE  /\ request' \in [Requests -> RequestType]
         /\ request'[r].pc = "free" /\ request'[r].attempt = NoAttempt
         /\ \A q \in Requests \ {r} : request'[q] = request[q]
<1>1. request'[r] = Free
  BY DEF TypeOK
<1> QED
  BY <1>1, FreeType DEF TypeOK, Free

-----------------------------------------------------------------------------
(* Steps of the server actions that write nothing *)

\* A server action that goes on, knowing what it knows.
LEMMA ContinueStep ==
  ASSUME IInv,
         NEW r \in Requests,
         NEW pc \in Held,
         NEW o \in Addresses,
         request[r].pc \in Held,
         pc \in {"created", "initialize"} => Starting(r),
         pc = "ask" => o \in Origins,
         pc = "matched" => Initialized(request[r].attempt),
         pc = "absent" =>
           ~Initialized(request[r].attempt) \/ request[r].attempt \in overdue \cup astray',
         Continue(r, pc, o),
         astray' \in {astray, astray \cup {request[r].attempt}},
         \/ sentTo' = sentTo
         \/ Starting(r) /\ sentTo' = [sentTo EXCEPT ![request[r].attempt] = row.origin],
         UNCHANGED <<row, agent, attempts, calls, answers, deleted, overdue, unrecorded>>
  PROVE  IInv'
<1>0. request[r].attempt \in Attempts
  BY DEF IInv, TypeOK, RequestsKnow, RequestType
<1>1. /\ request' \in [Requests -> RequestType]
      /\ request'[r].pc = pc /\ request'[r].attempt = request[r].attempt
      /\ request'[r].origin = o
      /\ \A q \in Requests \ {r} : request'[q] = request[q]
  <2>1. TypeOK
    BY DEF IInv
  <2> QED
    BY <2>1, ContinueType
<1>2. TypeOK'
  BY <1>0, <1>1 DEF IInv, TypeOK, Rows
<1>3. Issued' /\ Addressed'
  BY <1>1 DEF IInv, Issued, Addressed, RowExists, Held
<1>4. ReceiptWithProfile'
  <2>1. \A a \in Attempts : Initialized(a) => sentTo'[a] = sentTo[a]
    BY <1>0 DEF IInv, StartersOwn, TypeOK
  <2>2. \A w \in Origins :
          \/ agent[w].receipt = NoAttempt
          \/ agent[w].receipt \in Attempts /\ Initialized(agent[w].receipt)
    BY DEF IInv, TypeOK, Agents, Initialized
  <2> QED
    BY <2>1, <2>2 DEF IInv, ReceiptWithProfile
<1>5. RequestsKnow'
  BY <1>1 DEF IInv, RequestsKnow, Initialized
<1>6. StartersOwn'
  BY <1>1 DEF IInv, StartersOwn, Starting, Initialized
<1>7. /\ RowShape' /\ ActiveMeansInitialized' /\ RegisteredStays' /\ FailedIsForgotten'
      /\ FailedMeansNoAgent' /\ AgentHasRow' /\ AnswerIsReconcilable'
  BY DEF IInv, Safety, RowShape, ActiveMeansInitialized, RegisteredStays, FailedIsForgotten,
       FailedMeansNoAgent, AgentHasRow, AnswerIsReconcilable, Initialized
<1> QED
  BY <1>2, <1>3, <1>4, <1>5, <1>6, <1>7 DEF IInv, Safety

\* The same, when nothing else changes.
LEMMA GotoStep ==
  ASSUME IInv,
         NEW r \in Requests,
         NEW pc \in Held \ {"ask"},
         request[r].pc \in Held,
         pc \in {"created", "initialize"} => Starting(r),
         pc = "matched" => Initialized(request[r].attempt),
         pc = "absent" =>
           ~Initialized(request[r].attempt) \/ request[r].attempt \in overdue \cup astray,
         Goto(r, pc),
         UNCHANGED <<row, agent, attempts, calls, answers, sentTo, deleted, overdue, astray,
                     unrecorded>>
  PROVE  IInv'
BY ContinueStep DEF Goto, Addresses

\* A server action that ends.
LEMMA FreeStep ==
  ASSUME IInv,
         NEW r \in Requests,
         request' = [request EXCEPT ![r] = Free],
         UNCHANGED <<row, agent, attempts, calls, answers, sentTo, deleted, overdue,
                     astray, unrecorded>>
  PROVE  IInv'
<1>1. TypeOK'
  BY FreeType DEF IInv, TypeOK
<1>2. Issued' /\ ReceiptWithProfile' /\ Addressed'
  BY FreeType DEF IInv, Issued, ReceiptWithProfile, TypeOK, NoAttempt, Free, Addressed,
       RowExists
<1>3. RequestsKnow'
  BY FreeType DEF IInv, RequestsKnow, Held, Free, Initialized
<1>4. StartersOwn'
  BY FreeType DEF IInv, StartersOwn, Starting, RowShape, TypeOK, Attempts, NoAttempt,
       Free, Initialized
<1>5. /\ RowShape' /\ ActiveMeansInitialized' /\ RegisteredStays' /\ FailedIsForgotten'
      /\ FailedMeansNoAgent' /\ AgentHasRow' /\ AnswerIsReconcilable'
  BY DEF IInv, Safety, RowShape, ActiveMeansInitialized, RegisteredStays,
       FailedIsForgotten, FailedMeansNoAgent, AgentHasRow, AnswerIsReconcilable,
       Initialized
<1> QED
  BY <1>1, <1>2, <1>3, <1>4, <1>5 DEF IInv, Safety

\* A server action that gives its call up, and goes on or ends.
LEMMA GiveUpStep ==
  ASSUME IInv,
         NEW r \in Requests,
         request[r].pc = "initialize",
         StillOnItsWay(r),
         Goto(r, "reconcile") \/ request' = [request EXCEPT ![r] = Free],
         UNCHANGED <<row, agent, attempts, answers, sentTo, deleted, astray, unrecorded>>
  PROVE  IInv'
<1>1. request[r].attempt \in Attempts
  BY DEF IInv, TypeOK, RequestsKnow, RequestType
<1>2. \A q \in Requests \ {r} : Starting(q) =>
       q # r /\ request[q].attempt # request[r].attempt
  BY <1>1 DEF IInv, StartersOwn, Initialized
<1>3. /\ \A q \in Requests \ {r} : request'[q] = request[q]
      /\ \/ request'[r].pc = "free" /\ request'[r].attempt = NoAttempt
         \/ request'[r].pc = "reconcile" /\ request'[r].attempt = request[r].attempt
      /\ request' \in [Requests -> RequestType]
      /\ request'[r].pc # "ask" /\ request'[r].pc # "checked"
  BY GotoType, FreedType DEF IInv, Held
<1>4. \A q \in Requests : Starting(q)' => q \in Requests \ {r} /\ Starting(q)
  BY <1>3 DEF Starting
<1>5. TypeOK'
  <2>1. <<request[r].attempt, request[r].name>> \in Attempts \X Names
    BY <1>1 DEF IInv, TypeOK, RequestType
  <2> QED
    BY <1>1, <1>3, <2>1 DEF IInv, TypeOK, StillOnItsWay
<1>6. Issued' /\ ReceiptWithProfile' /\ Addressed'
  BY <1>1, <1>2, <1>3, <1>4, FreeType DEF IInv, Issued, ReceiptWithProfile, TypeOK,
       NoAttempt, StillOnItsWay, Addressed, RowExists
<1>7. RequestsKnow'
  BY <1>1, <1>2, <1>3, <1>4, FreeType DEF IInv, RequestsKnow, Held, StillOnItsWay,
       Initialized
<1>8. StartersOwn'
  BY <1>1, <1>2, <1>3, <1>4, FreeType DEF IInv, StartersOwn, Starting, StillOnItsWay,
       RequestsKnow, Held, Initialized
<1>9. FailedIsForgotten' /\ FailedMeansNoAgent'
  BY <1>1, <1>2, <1>3, <1>4, FreeType DEF IInv, Safety, FailedIsForgotten,
       FailedMeansNoAgent, StillOnItsWay, Initialized
<1>10. AgentHasRow' /\ AnswerIsReconcilable'
  BY <1>1, <1>2, <1>3, <1>4, FreeType DEF IInv, Safety, AgentHasRow, AnswerIsReconcilable,
       StillOnItsWay
<1>11. RowShape' /\ ActiveMeansInitialized' /\ RegisteredStays'
  BY <1>1, <1>2, <1>3, <1>4 DEF IInv, Safety, RowShape, ActiveMeansInitialized,
       RegisteredStays, Initialized
<1> QED
  BY <1>5, <1>6, <1>7, <1>8, <1>9, <1>10, <1>11 DEF IInv, Safety

-----------------------------------------------------------------------------
(* Steps of the server actions that create or read the row *)

\* The check of a registration.
LEMMA SubmitStep ==
  ASSUME IInv,
         NEW r \in Requests,
         NEW n \in Names,
         NEW o \in Origins,
         SubmitRegistration(r, n, o)
  PROVE  IInv'
<1>1. TypeOK'
  BY DEF IInv, TypeOK, RequestType, SubmitRegistration, Addresses
<1>2. Issued' /\ ReceiptWithProfile' /\ Addressed'
  BY DEF IInv, Issued, ReceiptWithProfile, TypeOK, NoAttempt, SubmitRegistration,
       Addressed, RowExists, Addresses
<1>3. RequestsKnow'
  BY DEF IInv, RequestsKnow, Held, SubmitRegistration, Initialized, Addresses
<1>4. StartersOwn'
  BY DEF IInv, StartersOwn, Starting, RowShape, TypeOK, Attempts, NoAttempt,
       SubmitRegistration, Initialized, Addresses
<1>5. /\ RowShape' /\ ActiveMeansInitialized' /\ RegisteredStays' /\ FailedIsForgotten'
      /\ FailedMeansNoAgent' /\ AgentHasRow' /\ AnswerIsReconcilable'
  BY DEF IInv, SubmitRegistration, Safety, RowShape, ActiveMeansInitialized,
       RegisteredStays, FailedIsForgotten, FailedMeansNoAgent, AgentHasRow,
       AnswerIsReconcilable, Initialized, Addresses
<1> QED
  BY <1>1, <1>2, <1>3, <1>4, <1>5 DEF IInv, Safety

\* The insertion of an attempt by the server action that goes on with it.
LEMMA InsertStep ==
  ASSUME IInv,
         NEW r \in Requests,
         request[r].pc = "checked",
         attempts < MaxAttempts,
         InsertAttempt(attempts + 1, request[r].name, request[r].origin),
         attempts' = attempts + 1,
         request' = [request EXCEPT ![r] = [@ EXCEPT !.pc = "created", !.attempt = attempts + 1,
                                                        !.origin = NoOrigin]],
         UNCHANGED <<agent, calls, answers, sentTo, deleted, overdue, astray, unrecorded>>
  PROVE  IInv'
<1>1. attempts + 1 \in Attempts /\ row.attempt = NoAttempt
  BY RegistrationAssumption DEF IInv, TypeOK, RowShape, InsertAttempt, RowExists, NoRow,
       Attempts
<1>2. /\ ~Initialized(attempts + 1)
      /\ attempts + 1 \notin overdue
      /\ \A q \in Requests : request[q].attempt # attempts + 1
      /\ \A o \in Outcomes : <<attempts + 1, o>> \notin answers
  BY <1>1 DEF IInv, Issued, TypeOK, Initialized
<1>3. TypeOK'
  <2>1. row' \in Rows /\ attempts' \in 0 .. MaxAttempts
    BY <1>1 DEF IInv, TypeOK, Rows, States, RequestType, Attempts, InsertAttempt,
         Addresses
  <2>2. [request[r] EXCEPT !.pc = "created", !.attempt = attempts + 1, !.origin = NoOrigin]
         \in RequestType
    BY <1>1 DEF IInv, TypeOK, RequestType, Held, Addresses
  <2> QED
    BY <2>1, <2>2 DEF IInv, TypeOK
<1>4. RowShape'
  BY <1>1, <1>2 DEF IInv, RowShape, Attempts, NoAttempt, InsertAttempt
<1>5. Issued' /\ ReceiptWithProfile' /\ Addressed'
  BY <1>1, <1>2 DEF IInv, Issued, ReceiptWithProfile, TypeOK, Agents, RequestType,
       Attempts, NoAttempt, InsertAttempt, Addressed, RowExists, Addresses
<1>6. RequestsKnow'
  BY <1>1, <1>2 DEF IInv, RequestsKnow, Held, Initialized
<1>7. StartersOwn'
  BY <1>1, <1>2 DEF IInv, StartersOwn, Starting, InsertAttempt, RowExists, Initialized
<1>8. ActiveMeansInitialized' /\ RegisteredStays'
  BY <1>1, <1>2 DEF IInv, Safety, ActiveMeansInitialized, RegisteredStays, InsertAttempt,
       RowExists, Initialized
<1>9. FailedIsForgotten' /\ FailedMeansNoAgent'
  BY <1>1, <1>2 DEF IInv, Safety, FailedIsForgotten, FailedMeansNoAgent, Outcomes,
       InsertAttempt, Initialized
<1>10. AgentHasRow' /\ AnswerIsReconcilable'
  BY <1>1, <1>2 DEF IInv, Safety, AgentHasRow, AnswerIsReconcilable, Outcomes,
       InsertAttempt
<1> QED
  BY <1>3, <1>4, <1>5, <1>6, <1>7, <1>8, <1>9, <1>10 DEF IInv, Safety

\* The insertion of an attempt whose server action does not learn of it.
LEMMA InsertUnheldStep ==
  ASSUME IInv,
         NEW r \in Requests,
         request[r].pc = "checked",
         attempts < MaxAttempts,
         InsertAttempt(attempts + 1, request[r].name, request[r].origin),
         attempts' = attempts + 1,
         request' = [request EXCEPT ![r] = Free],
         UNCHANGED <<agent, calls, answers, sentTo, deleted, overdue, astray, unrecorded>>
  PROVE  IInv'
<1>1. attempts + 1 \in Attempts /\ row.attempt = NoAttempt
  BY RegistrationAssumption DEF IInv, TypeOK, RowShape, InsertAttempt, RowExists, NoRow,
       Attempts
<1>2. /\ ~Initialized(attempts + 1)
      /\ attempts + 1 \notin overdue
      /\ \A q \in Requests : request[q].attempt # attempts + 1
      /\ \A o \in Outcomes : <<attempts + 1, o>> \notin answers
  BY <1>1 DEF IInv, Issued, TypeOK, Initialized
<1>3. TypeOK'
  BY <1>1, <1>2, FreeType DEF IInv, TypeOK, Rows, States, RequestType, Attempts,
       InsertAttempt, Addresses
<1>4. RowShape'
  BY <1>1, <1>2, FreeType DEF IInv, RowShape, Attempts, NoAttempt, InsertAttempt
<1>5. Issued' /\ ReceiptWithProfile' /\ Addressed'
  BY <1>1, <1>2, FreeType DEF IInv, Issued, ReceiptWithProfile, TypeOK, Agents,
       RequestType, Attempts, NoAttempt, InsertAttempt, Free, Addressed, RowExists,
       Addresses
<1>6. RequestsKnow'
  BY <1>1, <1>2, FreeType DEF IInv, RequestsKnow, Held, Free, Initialized
<1>7. StartersOwn'
  BY <1>1, <1>2, FreeType DEF IInv, StartersOwn, Starting, RequestType, InsertAttempt,
       RowExists, Free, Initialized, Addresses
<1>8. ActiveMeansInitialized' /\ RegisteredStays'
  BY <1>1, <1>2, FreeType DEF IInv, Safety, ActiveMeansInitialized, RegisteredStays,
       InsertAttempt, RowExists, Initialized
<1>9. FailedIsForgotten' /\ FailedMeansNoAgent'
  BY <1>1, <1>2, FreeType DEF IInv, Safety, FailedIsForgotten, FailedMeansNoAgent,
       Outcomes, InsertAttempt, Initialized
<1>10. AgentHasRow' /\ AnswerIsReconcilable'
  BY <1>1, <1>2, FreeType DEF IInv, Safety, AgentHasRow, AnswerIsReconcilable, Outcomes,
       InsertAttempt
<1> QED
  BY <1>3, <1>4, <1>5, <1>6, <1>7, <1>8, <1>9, <1>10 DEF IInv, Safety

\* The check of an attempt that asks for it.
LEMMA ReconcileStep ==
  ASSUME IInv,
         NEW r \in Requests,
         ReconcileRegistration(r)
  PROVE  IInv'
<1>1. TypeOK'
  BY RegistrationAssumption DEF IInv, TypeOK, Rows, RequestType, Held,
       ReconcileRegistration, Addresses
<1>2. Issued' /\ ReceiptWithProfile' /\ Addressed'
  BY RegistrationAssumption DEF IInv, Issued, ReceiptWithProfile, ReconcileRegistration,
       Addressed, RowExists
<1>3. RequestsKnow'
  BY RegistrationAssumption DEF IInv, RequestsKnow, RowShape, Held, ReconcileRegistration,
       Initialized
<1>4. StartersOwn'
  BY RegistrationAssumption DEF IInv, StartersOwn, Starting, ReconcileRegistration,
       Initialized
<1>5. /\ RowShape' /\ ActiveMeansInitialized' /\ RegisteredStays' /\ FailedIsForgotten'
      /\ FailedMeansNoAgent' /\ AgentHasRow' /\ AnswerIsReconcilable'
  BY DEF IInv, ReconcileRegistration, Safety, RowShape, ActiveMeansInitialized,
       RegisteredStays, FailedIsForgotten, FailedMeansNoAgent, AgentHasRow,
       AnswerIsReconcilable, Initialized
<1> QED
  BY <1>1, <1>2, <1>3, <1>4, <1>5 DEF IInv, Safety

-----------------------------------------------------------------------------
(* Steps of the Agent *)

\* The Agent handles the call of the server action that awaits it.
LEMMA InitializeStep ==
  ASSUME IInv,
         NEW r \in Requests,
         InitializeAgent(r)
  PROVE  IInv'
<1>1. request[r].attempt \in Attempts
  BY DEF IInv, TypeOK, RequestsKnow, RequestType, InitializeAgent, Initialized, Addresses
<1>0. /\ request' \in [Requests -> RequestType]
      /\ request'[r].pc = "reconcile" /\ request'[r].attempt = request[r].attempt
      /\ \A q \in Requests \ {r} : request'[q] = request[q]
  BY GotoType DEF IInv, InitializeAgent, Held
<1>2. TypeOK'
  <2>1. [status |-> "active", receipt |-> request[r].attempt, name |-> request[r].name] \in Agents
    BY <1>1 DEF IInv, TypeOK, RequestType, Agents
  <2> QED
    BY <1>0, <2>1 DEF IInv, TypeOK, InitializeAgent, InitializeInStore
<1>3. Issued' /\ ReceiptWithProfile' /\ Addressed'
  <2>1. Issued'
    BY <1>0, <1>1 DEF IInv, Issued, TypeOK, InitializeAgent, InitializeInStore
  <2>2. ReceiptWithProfile'
    BY <1>1 DEF IInv, ReceiptWithProfile, TypeOK, Attempts, NoAttempt, InitializeAgent,
         InitializeInStore
  <2>3. Addressed'
    BY <1>0 DEF IInv, Addressed, RowExists, InitializeAgent
  <2> QED
    BY <2>1, <2>2, <2>3
<1>4. RequestsKnow'
  <2>1. \A a \in Attempts : Initialized(a) => Initialized(a)'
    BY DEF IInv, ReceiptWithProfile, TypeOK, Attempts, NoAttempt, Initialized,
         InitializeAgent, InitializeInStore
  <2>2. \A a \in Attempts : Initialized(a)' => Initialized(a) \/ a = request[r].attempt
    BY DEF IInv, TypeOK, Initialized, InitializeAgent, InitializeInStore
  <2>3. \A q \in Requests \ {r} : request[q].attempt # request[r].attempt
    BY DEF IInv, StartersOwn, Starting, InitializeAgent
  <2>4. \A q \in Requests : request[q].pc \in Held => request[q].attempt \in Attempts
    BY DEF IInv, TypeOK, RequestType, RequestsKnow
  <2> QED
    BY <1>0, <2>1, <2>2, <2>3, <2>4 DEF IInv, RequestsKnow, Held, InitializeAgent
<1>5. StartersOwn'
  <2>1. \A q \in Requests : Starting(q)' => Starting(q) /\ q # r
    BY <1>0 DEF Starting
  <2>2. \A q \in Requests \ {r} : request[q].attempt # request[r].attempt
    BY DEF IInv, StartersOwn, Starting, InitializeAgent
  <2>3. \A q \in Requests \ {r} :
          Initialized(request[q].attempt)' => Initialized(request[q].attempt)
    BY <1>0, <2>2 DEF IInv, TypeOK, Initialized, InitializeAgent, InitializeInStore
  <2> QED
    BY <1>0, <2>1, <2>2, <2>3 DEF IInv, StartersOwn, InitializeAgent
<1>6. ActiveMeansInitialized' /\ RegisteredStays'
  BY <1>1 DEF IInv, Safety, ActiveMeansInitialized, RegisteredStays, ReceiptWithProfile,
       Attempts, NoAttempt, InitializeAgent, InitializeInStore, Initialized
<1>7. FailedIsForgotten' /\ FailedMeansNoAgent'
  BY <1>1 DEF IInv, Safety, FailedIsForgotten, FailedMeansNoAgent, StartersOwn, Starting,
       TypeOK, Rows, States, Agents, RequestType, Held, Attempts, NoAttempt,
       InitializeAgent, InitializeInStore, Initialized, Addresses
<1>8. AgentHasRow' /\ AnswerIsReconcilable'
  BY <1>1 DEF IInv, Safety, AgentHasRow, AnswerIsReconcilable, StartersOwn, Starting,
       TypeOK, Rows, States, Agents, RequestType, Held, Attempts, NoAttempt,
       InitializeAgent, InitializeInStore, Initialized, Addresses
<1>9. RowShape'
  BY <1>1 DEF IInv, InitializeAgent, RowShape
<1> QED
  BY <1>2, <1>3, <1>4, <1>5, <1>6, <1>7, <1>8, <1>9 DEF IInv, Safety

\* The Agent handles a call that was given up.
LEMMA LateInitializeStep ==
  ASSUME IInv,
         NEW a \in Attempts,
         NEW n \in Names,
         LateInitialize(a, n)
  PROVE  IInv'
<1>1. TypeOK'
  BY DEF IInv, TypeOK, Agents, LateInitialize, InitializeInStore
<1>2. Issued' /\ ReceiptWithProfile' /\ Addressed'
  BY DEF IInv, Issued, ReceiptWithProfile, Attempts, NoAttempt, LateInitialize,
       InitializeInStore, Addressed, RowExists
<1>3. RequestsKnow'
  BY DEF IInv, RequestsKnow, ReceiptWithProfile, Issued, TypeOK, RequestType,
       LateInitialize, InitializeInStore, Initialized, Addressed, RowExists, Addresses
<1>4. StartersOwn'
  BY DEF IInv, StartersOwn, Starting, Issued, LateInitialize, InitializeInStore,
       Initialized
<1>5. ActiveMeansInitialized' /\ RegisteredStays'
  BY DEF IInv, Safety, ActiveMeansInitialized, RegisteredStays, ReceiptWithProfile,
       Attempts, NoAttempt, LateInitialize, InitializeInStore, Initialized
<1>6. FailedIsForgotten' /\ FailedMeansNoAgent'
  BY DEF IInv, Safety, FailedIsForgotten, FailedMeansNoAgent, Issued, LateInitialize,
       InitializeInStore, Initialized
<1>7. AgentHasRow' /\ AnswerIsReconcilable'
  BY DEF IInv, Safety, AgentHasRow, AnswerIsReconcilable, Issued, LateInitialize,
       InitializeInStore
<1>8. RowShape'
  BY DEF IInv, LateInitialize, RowShape
<1> QED
  BY <1>1, <1>2, <1>3, <1>4, <1>5, <1>6, <1>7, <1>8 DEF IInv, Safety

\* The Agent changes its profile, never its receipt.
LEMMA AgentStep ==
  ASSUME IInv,
         NEW o \in Origins,
         agent[o].status = "active",
         agent' \in [Origins -> Agents],
         \A w \in Origins : /\ agent'[w].status = "none" <=> agent[w].status = "none"
                            /\ agent'[w].receipt = agent[w].receipt,
         UNCHANGED <<row, attempts, calls, request, answers, sentTo, deleted, overdue,
                     astray, unrecorded>>
  PROVE  IInv'
<1>1. TypeOK'
  BY DEF IInv, TypeOK
<1>2. Issued' /\ ReceiptWithProfile' /\ Addressed'
  BY DEF IInv, Issued, ReceiptWithProfile, Addressed, RowExists
<1>3. RequestsKnow'
  BY DEF IInv, RequestsKnow, Initialized
<1>4. StartersOwn'
  BY DEF IInv, StartersOwn, Starting, Initialized
<1>5. ActiveMeansInitialized' /\ RegisteredStays'
  BY DEF IInv, Safety, ActiveMeansInitialized, RegisteredStays, Initialized
<1>6. FailedIsForgotten' /\ FailedMeansNoAgent'
  BY DEF IInv, Safety, FailedIsForgotten, FailedMeansNoAgent, Initialized
<1>7. AgentHasRow' /\ AnswerIsReconcilable'
  BY DEF IInv, Safety, AgentHasRow, AnswerIsReconcilable
<1>8. RowShape'
  BY DEF IInv, RowShape
<1> QED
  BY <1>1, <1>2, <1>3, <1>4, <1>5, <1>6, <1>7, <1>8 DEF IInv, Safety

-----------------------------------------------------------------------------
(* Steps that settle an attempt *)

\* The row of a matched attempt becomes active.
LEMMA MarkActiveStep ==
  ASSUME IInv,
         NEW r \in Requests,
         request[r].pc = "matched",
         CanMarkActive(request[r].attempt),
         row' = ActiveRow,
         \/ Answer(r, "active")
         \/ Goto(r, "unsure") /\ answers' = answers,
         UNCHANGED <<agent, attempts, calls, sentTo, deleted, overdue, astray, unrecorded>>
  PROVE  IInv'
<1>0. /\ row' \in Rows /\ row'.state = "active"
      /\ row'.attempt = row.attempt /\ row'.origin = row.origin
  BY RowInState DEF IInv, States, ActiveRow
<1>1. request[r].attempt \in Attempts
  BY DEF IInv, TypeOK, RequestsKnow, RequestType
<1>2. \A q \in Requests : Starting(q) =>
       q # r /\ request[q].attempt # request[r].attempt
  BY <1>1 DEF IInv, StartersOwn, Starting, Initialized
<1>3. /\ \A q \in Requests \ {r} : request'[q] = request[q]
      /\ \/ request'[r].pc = "free" /\ request'[r].attempt = NoAttempt
         \/ request'[r].pc = "unsure" /\ request'[r].attempt = request[r].attempt
      /\ request' \in [Requests -> RequestType]
  BY GotoType, FreedType DEF IInv, Held, Answer
<1>4. TypeOK'
  BY <1>0, <1>1, <1>3 DEF IInv, TypeOK, Outcomes, Answer
<1>5. RowShape'
  BY <1>1, <1>2, <1>3, FreeType DEF IInv, RowShape, ActiveRow
<1>6. Issued' /\ ReceiptWithProfile' /\ Addressed'
  <2>1. Issued' /\ ReceiptWithProfile'
    BY <1>0, <1>1, <1>3 DEF IInv, Issued, ReceiptWithProfile, TypeOK, NoAttempt, Answer
  <2>2. Addressed'
    BY <1>0, <1>3 DEF IInv, Addressed, CanMarkActive, RowOf, RowExists
  <2> QED
    BY <2>1, <2>2
<1>7. RequestsKnow'
  BY <1>1, <1>2, <1>3, FreeType DEF IInv, RequestsKnow, Held, Initialized
<1>8. StartersOwn'
  BY <1>1, <1>2, <1>3, FreeType DEF IInv, StartersOwn, Starting, TypeOK, Attempts,
       NoAttempt, CanMarkActive, RowOf, ActiveRow, Answer, Initialized
<1>9. ActiveMeansInitialized' /\ RegisteredStays'
  BY <1>1, <1>2, <1>3, FreeType DEF IInv, Safety, ActiveMeansInitialized, RegisteredStays,
       RequestsKnow, CanMarkActive, RowOf, ActiveRow, Answer, Initialized
<1>10. FailedIsForgotten' /\ FailedMeansNoAgent'
  BY <1>1, <1>2, <1>3, FreeType DEF IInv, Safety, FailedIsForgotten, FailedMeansNoAgent,
       ActiveRow, Answer, Initialized
<1>11. AgentHasRow' /\ AnswerIsReconcilable'
  BY <1>1, <1>2, <1>3, FreeType DEF IInv, Safety, AgentHasRow, AnswerIsReconcilable,
       ActiveRow
<1> QED
  BY <1>4, <1>5, <1>6, <1>7, <1>8, <1>9, <1>10, <1>11 DEF IInv, Safety

\* The row of an attempt the Agent does not know is deleted, or there is none.
LEMMA CleanupStep ==
  ASSUME IInv,
         NEW r \in Requests,
         request[r].pc = "absent",
         \/ CanCleanup(request[r].attempt) /\ row' = NoRow
         \/ AlreadyAbsent(request[r].attempt) /\ row' = row,
         \/ Answer(r, "failed")
         \/ Goto(r, "unsure") /\ answers' = answers,
         UNCHANGED <<agent, attempts, calls, sentTo, deleted, overdue, astray, unrecorded>>
  PROVE  IInv'
<1>1. request[r].attempt \in Attempts
  BY DEF IInv, TypeOK, RequestsKnow, RequestType
<1>2. \A q \in Requests : Starting(q) =>
       q # r /\ request[q].attempt # request[r].attempt
  BY <1>1 DEF IInv, StartersOwn, Starting, Initialized
<1>3. /\ \A q \in Requests \ {r} : request'[q] = request[q]
      /\ \/ request'[r].pc = "free" /\ request'[r].attempt = NoAttempt
         \/ request'[r].pc = "unsure" /\ request'[r].attempt = request[r].attempt
      /\ request' \in [Requests -> RequestType]
  BY GotoType, FreedType DEF IInv, Held, Answer
<1>4. answers' \in {answers, answers \cup {<<request[r].attempt, "failed">>}}
  BY DEF Answer
<1>5. row' = NoRow /\ row.attempt \in {NoAttempt, request[r].attempt}
  BY DEF IInv, RowShape, CanCleanup, AlreadyAbsent, RowOf, RowExists, NoRow
<1>6. TypeOK'
  BY <1>1, <1>3, <1>4, <1>5, NoRowType DEF IInv, TypeOK, Outcomes
<1>7. RowShape'
  BY <1>1, <1>2, <1>3, <1>4, <1>5, FreeType, NoRowType DEF IInv, RowShape, NoRow
<1>8. Issued' /\ ReceiptWithProfile' /\ Addressed'
  BY <1>1, <1>2, <1>3, <1>4, <1>5, FreeType, NoRowType DEF IInv, Issued,
       ReceiptWithProfile, TypeOK, NoAttempt, NoRow, Addressed, RowExists
<1>9. RequestsKnow'
  BY <1>1, <1>2, <1>3, <1>4, <1>5, FreeType, NoRowType DEF IInv, RequestsKnow, Held,
       Initialized
<1>10. StartersOwn'
  BY <1>1, <1>2, <1>3, <1>4, <1>5, FreeType, NoRowType DEF IInv, StartersOwn, Starting,
       RequestsKnow, Held, NoRow, Initialized
<1>11. ActiveMeansInitialized' /\ RegisteredStays'
  BY <1>1, <1>2, <1>3, <1>4, <1>5, FreeType, NoRowType DEF IInv, Safety,
       ActiveMeansInitialized, RegisteredStays, CanCleanup, NoRow, Initialized
<1>12. FailedIsForgotten' /\ FailedMeansNoAgent'
  BY <1>1, <1>2, <1>3, <1>4, <1>5, FreeType, NoRowType DEF IInv, Safety,
       FailedIsForgotten, FailedMeansNoAgent, RequestsKnow, Attempts, NoAttempt, NoRow,
       Initialized
<1>13. AgentHasRow' /\ AnswerIsReconcilable'
  BY <1>1, <1>2, <1>3, <1>4, <1>5, FreeType, NoRowType DEF IInv, Safety, AgentHasRow,
       AnswerIsReconcilable, RequestsKnow, Attempts, NoAttempt, NoRow, Initialized
<1> QED
  BY <1>6, <1>7, <1>8, <1>9, <1>10, <1>11, <1>12, <1>13 DEF IInv, Safety

\* An attempt that could not be settled.
LEMMA KeepStep ==
  ASSUME IInv,
         NEW r \in Requests,
         KeepReconciliationRequired(r)
  PROVE  IInv'
<1>0. /\ row' \in Rows /\ row'.attempt = row.attempt /\ row'.origin = row.origin
      /\ row'.state # "absent" => row.state # "absent"
  <2>1. CASE CanMarkReconciliation(request[r].attempt)
    BY <2>1, RowInState DEF IInv, States, KeepReconciliationRequired, UnsettledRow,
         CanMarkReconciliation, RowOf, RowExists
  <2>2. CASE ~CanMarkReconciliation(request[r].attempt)
    BY <2>2 DEF IInv, TypeOK, KeepReconciliationRequired, UnsettledRow
  <2> QED
    BY <2>1, <2>2
<1>1. request[r].attempt \in Attempts
  BY DEF IInv, TypeOK, RequestsKnow, RequestType, KeepReconciliationRequired
<1>2. \A q \in Requests : Starting(q) =>
       q # r /\ request[q].attempt # request[r].attempt
  BY <1>1 DEF IInv, StartersOwn, Starting, KeepReconciliationRequired, Initialized
<1>3. /\ \A q \in Requests \ {r} : request'[q] = request[q]
      /\ request'[r].pc = "free" /\ request'[r].attempt = NoAttempt
      /\ request' \in [Requests -> RequestType]
  BY FreedType DEF IInv, KeepReconciliationRequired, Answer
<1>4. answers' = answers \cup {<<request[r].attempt, "reconciliation_required">>}
  BY DEF KeepReconciliationRequired, Answer
<1>5. TypeOK'
  BY <1>1, <1>2, <1>3, <1>4, FreeType DEF IInv, TypeOK, Rows, States, Outcomes,
       KeepReconciliationRequired, UnsettledRow, Answer, Addresses
<1>6. RowShape'
  BY <1>1, <1>2, <1>3, <1>4, FreeType DEF IInv, RowShape, Attempts, NoAttempt,
       KeepReconciliationRequired, UnsettledRow, CanMarkReconciliation, RowOf
<1>7. Issued' /\ ReceiptWithProfile' /\ Addressed'
  <2>1. Issued'
    BY <1>0, <1>1, <1>3, <1>4 DEF IInv, Issued, TypeOK, NoAttempt,
         KeepReconciliationRequired
  <2>2. ReceiptWithProfile'
    BY DEF IInv, ReceiptWithProfile, KeepReconciliationRequired
  <2>3. Addressed'
    BY <1>0, <1>3 DEF IInv, Addressed, RowExists
  <2> QED
    BY <2>1, <2>2, <2>3
<1>8. RequestsKnow'
  BY <1>1, <1>2, <1>3, <1>4, FreeType DEF IInv, RequestsKnow, Held,
       KeepReconciliationRequired, Initialized
<1>9. StartersOwn'
  BY <1>1, <1>2, <1>3, <1>4, FreeType DEF IInv, StartersOwn, Starting, RowShape, TypeOK,
       Attempts, NoAttempt, KeepReconciliationRequired, UnsettledRow,
       CanMarkReconciliation, RowOf, Initialized
<1>10. ActiveMeansInitialized' /\ RegisteredStays'
  BY <1>1, <1>2, <1>3, <1>4, FreeType DEF IInv, Safety, ActiveMeansInitialized,
       RegisteredStays, KeepReconciliationRequired, UnsettledRow, CanMarkReconciliation,
       Initialized
<1>11. FailedIsForgotten' /\ FailedMeansNoAgent'
  BY <1>1, <1>2, <1>3, <1>4, FreeType DEF IInv, Safety, FailedIsForgotten,
       FailedMeansNoAgent, KeepReconciliationRequired, UnsettledRow, Initialized
<1>12. AgentHasRow' /\ AnswerIsReconcilable'
  BY <1>1, <1>2, <1>3, <1>4, FreeType DEF IInv, Safety, AgentHasRow, AnswerIsReconcilable,
       RowShape, Attempts, NoAttempt, KeepReconciliationRequired, UnsettledRow,
       CanMarkReconciliation, RowOf, RowExists, NoRow
<1> QED
  BY <1>5, <1>6, <1>7, <1>8, <1>9, <1>10, <1>11, <1>12 DEF IInv, Safety

\* An attempt that could not be settled, and D1 does not take it.
LEMMA KeepFailsStep ==
  ASSUME IInv,
         NEW r \in Requests,
         KeepFails(r)
  PROVE  IInv'
<1>1. request[r].attempt \in Attempts
  BY DEF IInv, TypeOK, RequestsKnow, RequestType, KeepFails, Initialized, Addresses
<1>2. \A q \in Requests : Starting(q) =>
       q # r /\ request[q].attempt # request[r].attempt
  BY <1>1 DEF IInv, StartersOwn, Starting, KeepFails, Initialized
<1>3. /\ \A q \in Requests \ {r} : request'[q] = request[q]
      /\ request'[r].pc = "free" /\ request'[r].attempt = NoAttempt
      /\ request' \in [Requests -> RequestType]
  BY FreedType DEF IInv, KeepFails, Answer
<1>4. unrecorded' \subseteq Attempts /\ unrecorded \subseteq unrecorded'
  BY <1>1 DEF IInv, TypeOK, KeepFails
<1>5. TypeOK'
  BY <1>1, <1>2, <1>3, <1>4, FreeType DEF IInv, TypeOK, Outcomes, KeepFails, Answer
<1>6. Issued' /\ ReceiptWithProfile' /\ Addressed'
  BY <1>1, <1>2, <1>3, <1>4, FreeType DEF IInv, Issued, ReceiptWithProfile, TypeOK,
       NoAttempt, KeepFails, Answer, Addressed, RowExists
<1>7. RequestsKnow'
  BY <1>1, <1>2, <1>3, <1>4, FreeType DEF IInv, RequestsKnow, Held, KeepFails, Initialized
<1>8. StartersOwn'
  BY <1>1, <1>2, <1>3, <1>4, FreeType DEF IInv, StartersOwn, Starting, RequestsKnow,
       RequestType, KeepFails, Answer, Initialized, Addresses
<1>9. ActiveMeansInitialized' /\ RegisteredStays'
  BY <1>1, <1>2, <1>3, <1>4, FreeType DEF IInv, Safety, ActiveMeansInitialized,
       RegisteredStays, KeepFails, Answer, Initialized
<1>10. FailedIsForgotten' /\ FailedMeansNoAgent'
  BY <1>1, <1>2, <1>3, <1>4, FreeType DEF IInv, Safety, FailedIsForgotten,
       FailedMeansNoAgent, KeepFails, Answer, Initialized
<1>11. AgentHasRow' /\ AnswerIsReconcilable'
  <2>1. AgentHasRow'
    BY DEF IInv, Safety, AgentHasRow, KeepFails
  <2>2. row.attempt = request[r].attempt /\ request[r].attempt \notin unrecorded' =>
          row.state \in {"reconciliation_required", "active"}
    BY <1>1 DEF IInv, RowShape, NoRow, KeepFails, RowOf, RowExists, TypeOK, Rows, States,
         Attempts, NoAttempt
  <2>3. \A a \in Attempts : <<a, "reconciliation_required">> \in answers' =>
          <<a, "reconciliation_required">> \in answers \/ a = request[r].attempt
    BY DEF KeepFails, Answer
  <2>4. AnswerIsReconcilable'
    BY <1>4, <2>2, <2>3 DEF IInv, Safety, AnswerIsReconcilable, KeepFails
  <2> QED
    BY <2>1, <2>4
<1>12. RowShape'
  BY <1>1, <1>2, <1>3, <1>4 DEF IInv, KeepFails, RowShape
<1> QED
  BY <1>5, <1>6, <1>7, <1>8, <1>9, <1>10, <1>11, <1>12 DEF IInv, Safety

-----------------------------------------------------------------------------
(* Steps of the other writers of the row *)

\* A row that gets another name and another Worker.
LEMMA EditStep ==
  ASSUME IInv,
         NEW n \in Names,
         NEW o \in Origins,
         EditRegistration(n, o)
  PROVE  IInv'
<1>1. TypeOK'
  BY DEF IInv, TypeOK, Rows, EditRegistration, Addresses
<1>2. RowShape'
  BY DEF IInv, RowShape, EditRegistration, RowExists
<1>3. Issued' /\ ReceiptWithProfile' /\ Addressed'
  BY DEF IInv, Issued, ReceiptWithProfile, EditRegistration, Addressed, RowExists
<1>4. RequestsKnow'
  BY DEF IInv, RequestsKnow, EditRegistration, Initialized
<1>5. StartersOwn'
  BY DEF IInv, StartersOwn, Starting, EditRegistration, Initialized
<1>6. ActiveMeansInitialized' /\ RegisteredStays'
  BY DEF IInv, Safety, ActiveMeansInitialized, RegisteredStays, EditRegistration,
       Initialized
<1>7. FailedIsForgotten' /\ FailedMeansNoAgent'
  BY DEF IInv, Safety, FailedIsForgotten, FailedMeansNoAgent, EditRegistration,
       Initialized
<1>8. AgentHasRow' /\ AnswerIsReconcilable'
  BY DEF IInv, Safety, AgentHasRow, AnswerIsReconcilable, EditRegistration
<1> QED
  BY <1>1, <1>2, <1>3, <1>4, <1>5, <1>6, <1>7, <1>8 DEF IInv, Safety

\* A row without an attempt.
LEMMA RegisterStep ==
  ASSUME IInv,
         NEW n \in Names,
         NEW o \in Origins,
         RegisterManagedAgent(n, o)
  PROVE  IInv'
<1>1. TypeOK'
  BY DEF IInv, TypeOK, Rows, States, RegisterManagedAgent, Addresses
<1>2. RowShape'
  BY DEF IInv, RowShape, RegisterManagedAgent
<1>3. Issued' /\ ReceiptWithProfile' /\ Addressed'
  BY DEF IInv, Issued, ReceiptWithProfile, TypeOK, NoAttempt, RegisterManagedAgent,
       Addressed, RowExists
<1>4. RequestsKnow'
  BY DEF IInv, RequestsKnow, RegisterManagedAgent, Initialized
<1>5. StartersOwn'
  BY DEF IInv, StartersOwn, Starting, RowShape, RegisterManagedAgent, RowExists, NoRow,
       Initialized
<1>6. ActiveMeansInitialized' /\ RegisteredStays'
  BY DEF IInv, Safety, ActiveMeansInitialized, RegisteredStays, RegisterManagedAgent,
       RowExists, Initialized
<1>7. FailedIsForgotten' /\ FailedMeansNoAgent'
  BY DEF IInv, Safety, FailedIsForgotten, FailedMeansNoAgent, Attempts, NoAttempt,
       RegisterManagedAgent, Initialized
<1>8. AgentHasRow' /\ AnswerIsReconcilable'
  BY DEF IInv, Safety, AgentHasRow, AnswerIsReconcilable, RowShape, RegisterManagedAgent,
       RowExists, NoRow
<1> QED
  BY <1>1, <1>2, <1>3, <1>4, <1>5, <1>6, <1>7, <1>8 DEF IInv, Safety

\* An operator deletes the row.
LEMMA DeleteStep ==
  ASSUME IInv,
         DeleteManagedAgent
  PROVE  IInv'
<1>1. TypeOK'
  BY NoRowType DEF IInv, TypeOK, Rows, RequestType, Held, NoAttempt, DeleteManagedAgent,
       Addresses
<1>2. RowShape'
  BY NoRowType DEF IInv, RowShape, NoRow, DeleteManagedAgent
<1>3. Issued' /\ ReceiptWithProfile' /\ Addressed'
  BY NoRowType DEF IInv, Issued, ReceiptWithProfile, TypeOK, NoAttempt,
       DeleteManagedAgent, NoRow, Addressed, RowExists
<1>4. RequestsKnow'
  BY NoRowType DEF IInv, RequestsKnow, DeleteManagedAgent, Initialized
<1>5. StartersOwn'
  BY NoRowType DEF IInv, StartersOwn, Starting, RowShape, TypeOK, Attempts, NoAttempt,
       DeleteManagedAgent, NoRow, Initialized
<1>6. ActiveMeansInitialized' /\ RegisteredStays'
  BY NoRowType DEF IInv, Safety, ActiveMeansInitialized, RegisteredStays, Attempts,
       NoAttempt, DeleteManagedAgent, NoRow, Initialized
<1>7. FailedIsForgotten' /\ FailedMeansNoAgent'
  BY NoRowType DEF IInv, Safety, FailedIsForgotten, FailedMeansNoAgent, Attempts,
       NoAttempt, DeleteManagedAgent, NoRow, Initialized
<1>8. AgentHasRow' /\ AnswerIsReconcilable'
  BY NoRowType DEF IInv, Safety, AgentHasRow, AnswerIsReconcilable, Attempts, NoAttempt,
       DeleteManagedAgent, NoRow
<1> QED
  BY <1>1, <1>2, <1>3, <1>4, <1>5, <1>6, <1>7, <1>8 DEF IInv, Safety

-----------------------------------------------------------------------------
(* The invariant *)

\* The initial states satisfy the invariant.
LEMMA InitInv == Init => IInv
<1> SUFFICES ASSUME Init PROVE IInv
  OBVIOUS
<1>1. TypeOK
  BY RegistrationAssumption, SomeNameType, NoRowType, FreeType DEF Init, TypeOK, Agents,
       Addresses
<1>2. RowShape /\ ReceiptWithProfile /\ Addressed /\ RequestsKnow /\ StartersOwn
  BY DEF Init, RowShape, NoRow, ReceiptWithProfile, Addressed, RowExists, RequestsKnow,
       StartersOwn, Starting, Free, Held
<1>3. Issued
  BY DEF Init, Issued, NoRow, Free, NoAttempt
<1>4. Safety
  BY DEF Init, Safety, NoRow, ActiveMeansInitialized, RegisteredStays, FailedIsForgotten,
       FailedMeansNoAgent, AgentHasRow, AnswerIsReconcilable, Initialized
<1> QED
  BY <1>1, <1>2, <1>3, <1>4 DEF IInv

\* A step of a server action preserves it.
LEMMA RequestStepInv ==
  ASSUME IInv, NEW r \in Requests, RequestStep(r)
  PROVE  IInv'
<1>1. CASE \E n \in Names, o \in Origins : SubmitRegistration(r, n, o)
  BY <1>1, SubmitStep
<1>2. CASE CreateAttempt(r)
  BY <1>2, InsertStep DEF CreateAttempt
<1>3. CASE CreateRefused(r)
  BY <1>3, FreeStep DEF CreateRefused
<1>4. CASE CreateFails(r)
  BY <1>4, FreeStep, InsertUnheldStep DEF CreateFails
<1>5. CASE SendInitialize(r)
  BY <1>5, ContinueStep DEF SendInitialize, AgentRpcOrigin, Goto, Addresses, Held,
       Starting
<1>6. CASE LoadClientsFails(r)
  BY <1>6, GotoStep DEF LoadClientsFails, Held
<1>7. CASE InitializeAgent(r)
  BY <1>7, InitializeStep
<1>8. CASE InitializeLost(r)
  BY <1>8, GotoStep DEF InitializeLost, Held
<1>9. CASE GiveUpInitialize(r)
  BY <1>9, GiveUpStep DEF GiveUpInitialize
<1>10. CASE ReconcileRegistration(r)
  BY <1>10, ReconcileStep
<1>11. CASE SendGetAgent(r)
  BY <1>11, ContinueStep DEF SendGetAgent, AgentRpcOrigin, IInv, Addressed, Addresses,
       Held
<1>12. CASE GetAgent(r)
  <2> DEFINE a == request[r].attempt
             asked == request[r].origin
  <2>1. asked \in Origins /\ a \in Attempts
    BY <1>12 DEF GetAgent, IInv, Addressed, RequestsKnow, TypeOK, RequestType, Held,
         Initialized, Addresses
  <2>2. CASE IsNotFound(asked)
    <3>1. \A o \in Origins : agent[o].receipt = a => sentTo[a] = o /\ o # asked
      BY <2>1, <2>2 DEF IInv, ReceiptWithProfile, IsNotFound, Attempts, NoAttempt
    <3>2. ~Initialized(a) \/ a \in astray'
      BY <1>12, <2>2, <3>1, RegistrationAssumption DEF GetAgent, Initialized
    <3> QED
      BY <1>12, <2>2, <3>2, ContinueStep DEF GetAgent, Goto, Addresses, Held
  <2>3. CASE ~IsNotFound(asked) /\ Matches(asked, a, request[r].name)
    <3>1. Initialized(a)
      BY <2>1, <2>3 DEF Matches, Initialized
    <3> QED
      BY <1>12, <2>3, <3>1, GotoStep DEF GetAgent, Held
  <2>4. CASE ~IsNotFound(asked) /\ ~Matches(asked, a, request[r].name)
    BY <1>12, <2>4, GotoStep DEF GetAgent, Held
  <2> QED
    BY <2>2, <2>3, <2>4
<1>13. CASE GetAgentFails(r)
  BY <1>13, GotoStep DEF GetAgentFails, Held
<1>14. CASE MarkActive(r)
  <2>1. CASE CanMarkActive(request[r].attempt)
    BY <1>14, <2>1, MarkActiveStep DEF MarkActive
  <2>2. CASE ~CanMarkActive(request[r].attempt)
    BY <1>14, <2>2, GotoStep DEF MarkActive, Held
  <2> QED
    BY <2>1, <2>2
<1>15. CASE MarkActiveFails(r)
  <2>1. CASE row' = row
    BY <1>15, <2>1, GotoStep DEF MarkActiveFails, Held
  <2>2. CASE CanMarkActive(request[r].attempt) /\ row' = ActiveRow
    BY <1>15, <2>2, MarkActiveStep DEF MarkActiveFails
  <2> QED
    BY <1>15, <2>1, <2>2 DEF MarkActiveFails
<1>16. CASE Cleanup(r)
  <2>1. CASE CanCleanup(request[r].attempt) \/ AlreadyAbsent(request[r].attempt)
    <3>1. \/ CanCleanup(request[r].attempt) /\ row' = NoRow
          \/ AlreadyAbsent(request[r].attempt) /\ row' = row
      BY <1>16, <2>1 DEF Cleanup
    <3> QED
      BY <1>16, <2>1, <3>1, CleanupStep DEF Cleanup
  <2>2. CASE ~CanCleanup(request[r].attempt) /\ ~AlreadyAbsent(request[r].attempt)
    BY <1>16, <2>2, GotoStep DEF Cleanup, Held
  <2> QED
    BY <2>1, <2>2
<1>17. CASE CleanupFails(r)
  <2>1. CASE row' = row
    BY <1>17, <2>1, GotoStep DEF CleanupFails, Held
  <2>2. CASE CanCleanup(request[r].attempt) /\ row' = NoRow
    BY <1>17, <2>2, CleanupStep DEF CleanupFails
  <2> QED
    BY <1>17, <2>1, <2>2 DEF CleanupFails
<1>18. CASE KeepReconciliationRequired(r)
  BY <1>18, KeepStep
<1>19. CASE KeepFails(r)
  BY <1>19, KeepFailsStep
<1>20. CASE Crash(r)
  <2>1. CASE request[r].pc = "initialize"
    BY <1>20, <2>1, GiveUpStep DEF Crash
  <2>2. CASE request[r].pc # "initialize"
    BY <1>20, <2>2, FreeStep DEF Crash
  <2> QED
    BY <2>1, <2>2
<1> QED
  BY <1>1, <1>2, <1>3, <1>4, <1>5, <1>6, <1>7, <1>8, <1>9, <1>10, <1>11, <1>12, <1>13,
       <1>14, <1>15, <1>16, <1>17, <1>18, <1>19, <1>20 DEF RequestStep

\* Every step preserves it.
LEMMA NextInv == IInv /\ [Next]_vars => IInv'
<1> SUFFICES ASSUME IInv, [Next]_vars PROVE IInv'
  OBVIOUS
<1>1. CASE \E r \in Requests : RequestStep(r)
  BY <1>1, RequestStepInv
<1>2. CASE \E a \in Attempts, n \in Names : LateInitialize(a, n)
  BY <1>2, LateInitializeStep
<1>3. CASE \E o \in Origins, n \in Names : UpdateConfig(o, n)
  BY <1>3, AgentStep DEF UpdateConfig, IInv, TypeOK, Agents
<1>4. CASE \E o \in Origins : DestroyAgent(o)
  BY <1>4, AgentStep DEF DestroyAgent, IInv, TypeOK, Agents
<1>5. CASE \E n \in Names, o \in Origins : EditRegistration(n, o)
  BY <1>5, EditStep
<1>6. CASE \E n \in Names, o \in Origins : RegisterManagedAgent(n, o)
  BY <1>6, RegisterStep
<1>7. CASE DeleteManagedAgent
  BY <1>7, DeleteStep
<1>8. CASE UNCHANGED vars
  BY <1>8 DEF vars, IInv, TypeOK, RowShape, Issued, ReceiptWithProfile, RequestsKnow,
       StartersOwn, Starting, Safety, ActiveMeansInitialized, RegisteredStays,
       FailedIsForgotten, FailedMeansNoAgent, AgentHasRow, AnswerIsReconcilable,
       Initialized, Addressed, RowExists
<1> QED
  BY <1>1, <1>2, <1>3, <1>4, <1>5, <1>6, <1>7, <1>8 DEF Next

\* The invariant holds throughout.
THEOREM Invariance == Spec => []IInv
BY InitInv, NextInv, PTL DEF Spec

-----------------------------------------------------------------------------
(* The theorems *)

\* The variables have their types.
THEOREM RegistrationTypes == Spec => []TypeOK
<1>1. IInv => TypeOK
  BY DEF IInv
<1> QED
  BY <1>1, Invariance, PTL

\* An attempt is active, in the ledger or for the operator, only when the Agent
\* holds its receipt (markAttemptActive after GetAgent has matched).
THEOREM ActiveIsInitialized == Spec => []ActiveMeansInitialized
<1>1. IInv => ActiveMeansInitialized
  BY DEF IInv, Safety
<1> QED
  BY <1>1, Invariance, PTL

\* An attempt the operator was told is registered stays active until its row is
\* deleted (markAttemptReconciliationRequired, cleanupCreatedAttempt).
THEOREM RegisteredIsFinal == Spec => []RegisteredStays
<1>1. IInv => RegisteredStays
  BY DEF IInv, Safety
<1> QED
  BY <1>1, Invariance, PTL

\* An attempt the operator was told has failed is gone from the ledger for good,
\* and has no Agent unless its call was given up on its way, or not_found came
\* from another Worker, to which an edit had moved the row
\* (cleanupCreatedAttempt, reconcileAttempt, loadAgentRpcClients).
THEOREM FailedIsGone == Spec => []FailedLeavesNothing
<1>1. IInv => FailedLeavesNothing
  BY DEF IInv, Safety, FailedLeavesNothing
<1> QED
  BY <1>1, Invariance, PTL

\* An initialized Agent has its row, but for a deletion, a call given up, or a
\* not_found of another Worker, to which an edit had moved the row
\* (createRegistrationAttempt, cleanupCreatedAttempt, updateRegistrationMetadata).
THEOREM AgentIsListed == Spec => []AgentHasRow
<1>1. IInv => AgentHasRow
  BY DEF IInv, Safety
<1> QED
  BY <1>1, Invariance, PTL

\* An attempt the operator was told to check can be checked or was settled, if D1
\* took its failure observation (keepReconciliationRequired).
THEOREM UnsettledCanBeChecked == Spec => []AnswerIsReconcilable
<1>1. IInv => AnswerIsReconcilable
  BY DEF IInv, Safety
<1> QED
  BY <1>1, Invariance, PTL

\* A server action reports what it wrote unless D1 fails: with no such fault, the
\* operator can always check what he was told to check.
THEOREM CheckIsPossibleWithoutWriteFaults ==
  ASSUME "write" \notin Faults
  PROVE  Spec => []CheckStaysPossible
<1> DEFINE Recorded == unrecorded = {}
<1>1. Init => Recorded
  BY DEF Init
<1>2. Recorded /\ [Next]_vars => Recorded'
  BY DEF Next, vars, RequestStep, SubmitRegistration, CreateAttempt, CreateRefused,
       CreateFails, SendInitialize, LoadClientsFails, InitializeAgent, InitializeLost,
       GiveUpInitialize, ReconcileRegistration, SendGetAgent, GetAgent, GetAgentFails,
       MarkActive, MarkActiveFails, Cleanup, CleanupFails, KeepReconciliationRequired,
       KeepFails, Crash, LateInitialize, UpdateConfig, DestroyAgent, EditRegistration,
       RegisterManagedAgent, DeleteManagedAgent, Addresses
<1>3. IInv /\ Recorded => CheckStaysPossible
  BY DEF IInv, Safety, AnswerIsReconcilable, CheckStaysPossible
<1> HIDE DEF Recorded
<1> QED
  BY <1>1, <1>2, <1>3, Invariance, PTL DEF Spec

\* not_found confirms that there is no Agent when no call is given up, the
\* Client's Worker is not ended, and the Client calls one Worker only
\* (AGENT_RPC_ALLOWED_ORIGINS): no Agent appears for an attempt that failed.
THEOREM NoAgentAfterFailureWithoutLateCalls ==
  ASSUME "late" \notin Faults, "crash" \notin Faults, NEW w, Origins = {w}
  PROVE  Spec => []NoAgentAfterFailure
<1> DEFINE SentToWorker == \A a \in Attempts : sentTo[a] \in {NoOrigin, w}
           NothingWrong == overdue = {} /\ astray = {} /\ SentToWorker
<1>1. Init => NothingWrong
  BY DEF Init
<1>2. IInv /\ NothingWrong /\ [Next]_vars => NothingWrong'
  <2> SUFFICES ASSUME IInv, NothingWrong, [Next]_vars PROVE NothingWrong'
    OBVIOUS
  <2>1. CASE \E r \in Requests : SendInitialize(r)
    BY <2>1 DEF SendInitialize, AgentRpcOrigin, IInv, TypeOK, Addressed
  <2>2. CASE \E r \in Requests : GetAgent(r)
    <3> PICK r \in Requests : GetAgent(r)
      BY <2>2
    <3>1. request[r].attempt \in Attempts /\ request[r].origin = w
      BY DEF GetAgent, IInv, Addressed, RequestsKnow, TypeOK, RequestType, Held
    <3> QED
      BY <3>1 DEF GetAgent
  <2>3. CASE UNCHANGED <<sentTo, overdue, astray>>
    BY <2>3
  <2>4. \/ \E r \in Requests : SendInitialize(r)
        \/ \E r \in Requests : GetAgent(r)
        \/ UNCHANGED <<sentTo, overdue, astray>>
    BY DEF Next, vars, RequestStep, SubmitRegistration, CreateAttempt, CreateRefused,
         CreateFails, LoadClientsFails, InitializeAgent, InitializeLost, GiveUpInitialize,
         ReconcileRegistration, SendGetAgent, GetAgentFails, MarkActive, MarkActiveFails,
         Cleanup, CleanupFails, KeepReconciliationRequired, KeepFails, Crash,
         LateInitialize, UpdateConfig, DestroyAgent, EditRegistration,
         RegisterManagedAgent, DeleteManagedAgent
  <2> QED
    BY <2>1, <2>2, <2>3, <2>4
<1>3. IInv /\ NothingWrong => NoAgentAfterFailure
  BY DEF IInv, Safety, FailedMeansNoAgent, NoAgentAfterFailure
<1> HIDE DEF NothingWrong
<1> QED
  BY <1>1, <1>2, <1>3, Invariance, PTL DEF Spec
=============================================================================
