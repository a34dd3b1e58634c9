-------------------------- MODULE AgentRegistration --------------------------
(***************************************************************************)
(* The registration of one Agent ID: the row of the Management Client's    *)
(* ledger in D1, the profile and the initialization receipt of the Agent   *)
(* that each Agent Worker may have under this ID, and the server actions   *)
(* of the Client between them.  A server action awaits D1 and an Agent in  *)
(* turn, so each of its steps is an action here and other server actions,  *)
(* the Agents and the network run in between.  The row names the Worker    *)
(* that is called, and is read anew for each call.                         *)
(*                                                                         *)
(* An attempt stands for its idempotency key and request digest, which are *)
(* drawn anew for each attempt.  A display name stands for the profile and *)
(* the model policy that GetAgent is compared with.                        *)
(***************************************************************************)
EXTENDS Integers, FiniteSets

CONSTANTS
  Requests,     \* Server actions in flight at the same time.
  Names,        \* Display names.
  Origins,      \* Agent RPC origins: Workers that may hold an Agent of this ID.
  NoOrigin,     \* No origin.
  MaxAttempts,  \* Bound: attempts ever created.
  Faults        \* "late": a call given up may still reach the Agent.
                \* "write": D1 may fail, before or after it has written.
                \* "crash": the Client's Worker may end a server action.

ASSUME RegistrationAssumption ==
  /\ Names # {}
  /\ NoOrigin \notin Origins
  /\ MaxAttempts \in Nat
  /\ Faults \subseteq {"late", "write", "crash"}

VARIABLES
  row,        \* client_managed_agents, see Rows.
  agent,      \* Per Worker, the Agent's profile and initialization receipt.
  attempts,   \* How many attempts were created.
  calls,      \* InitializeAgent calls given up that may still reach the Agent.
  request,    \* Server actions in flight.
  answers,    \* What the Browser was told of each attempt.
  sentTo,     \* Per attempt, the Worker its InitializeAgent was sent to.
  deleted,    \* Attempts whose row an operator deleted.
  overdue,    \* Attempts whose InitializeAgent was given up, not known to be lost.
  astray,     \* Attempts that another Worker than theirs said not_found of.
  unrecorded  \* Attempts left initializing, since D1 did not take what was found.

vars == <<row, agent, attempts, calls, request, answers, sentTo, deleted, overdue, astray,
          unrecorded>>

-----------------------------------------------------------------------------
(* Types *)

Attempts == 1 .. MaxAttempts
NoAttempt == 0

States == {"absent", "initializing", "reconciliation_required", "active"}
Outcomes == {"active", "failed", "reconciliation_required"}

\* Where an attempt was sent, and where a call goes.
Addresses == Origins \cup {NoOrigin}

Rows == [state : States, attempt : Attempts \cup {NoAttempt}, name : Names,
         origin : Addresses]

SomeName == CHOOSE n \in Names : TRUE
NoRow == [state |-> "absent", attempt |-> NoAttempt, name |-> SomeName, origin |-> NoOrigin]

Agents == [status : {"none", "active", "destroyed"},
           receipt : Attempts \cup {NoAttempt}, name : Names]

\* A server action that found no row ("checked"), has created its attempt
\* ("created"), awaits InitializeAgent ("initialize"), is about to ask GetAgent
\* ("reconcile"), awaits it ("ask"), or knows what to write to the ledger.  It
\* holds an origin from the form until the insert, and the one it asks.
Held == {"created", "initialize", "reconcile", "ask", "matched", "absent", "unsure"}
RequestType == [pc : {"free", "checked"} \cup Held,
                attempt : Attempts \cup {NoAttempt}, name : Names, origin : Addresses]

Free == [pc |-> "free", attempt |-> NoAttempt, name |-> SomeName, origin |-> NoOrigin]

TypeOK ==
  /\ row \in Rows
  /\ agent \in [Origins -> Agents]
  /\ attempts \in 0 .. MaxAttempts
  /\ calls \subseteq Attempts \X Names
  /\ request \in [Requests -> RequestType]
  /\ answers \subseteq Attempts \X Outcomes
  /\ sentTo \in [Attempts -> Addresses]
  /\ deleted \subseteq Attempts
  /\ overdue \subseteq Attempts
  /\ astray \subseteq Attempts
  /\ unrecorded \subseteq Attempts

Init ==
  /\ row = NoRow
  /\ agent = [o \in Origins |-> [status |-> "none", receipt |-> NoAttempt, name |-> SomeName]]
  /\ attempts = 0
  /\ calls = {}
  /\ request = [r \in Requests |-> Free]
  /\ answers = {}
  /\ sentTo = [a \in Attempts |-> NoOrigin]
  /\ deleted = {}
  /\ overdue = {}
  /\ astray = {}
  /\ unrecorded = {}

-----------------------------------------------------------------------------
(* The ledger *)

RowExists == row.state # "absent"

\* The row of attempt a.
RowOf(a) == RowExists /\ row.attempt = a

\* Mutant: ON CONFLICT DO UPDATE.
InsertAttemptUpsert(a, n, o) ==
  row' = [state |-> "initializing", attempt |-> a, name |-> n, origin |-> o]

\* The primary key refuses a second row.
InsertAttempt(a, n, o) ==
  /\ ~RowExists
  /\ row' = [state |-> "initializing", attempt |-> a, name |-> n, origin |-> o]

\* UPDATE ... WHERE agent_id = ? AND registration_attempt_id = ?.
CanMarkActive(a) == RowOf(a)

\* Mutant: no condition on the state.
CanMarkReconciliationInAnyState(a) == RowOf(a)

\* Mutant: a row that is initializing is left out.
CanMarkReconciliationAgain(a) == RowOf(a) /\ row.state = "reconciliation_required"

\* A failure that arrives late does not take back what is active.
CanMarkReconciliation(a) == RowOf(a) /\ row.state # "active"

\* Cleanup deletes the row of its own attempt while it is not active.
CanCleanup(a) == RowOf(a) /\ row.state \in {"initializing", "reconciliation_required"}

\* Mutant: the row is not read again.
AlreadyAbsentIfNothingDeleted(a) == TRUE

\* Nothing to delete is an answer only when there is no row at all.  The row is
\* read again for it; no row of attempt a can have come in between.
AlreadyAbsent(a) == ~RowExists

-----------------------------------------------------------------------------
(* The Agents *)

\* InitializeAgent.  An initialized Agent replays or refuses; its receipt stays.
InitializeInStore(o, a, n) ==
  agent' = IF agent[o].status = "none"
           THEN [agent EXCEPT ![o] = [status |-> "active", receipt |-> a, name |-> n]]
           ELSE agent

\* Mutant: the receipt is not compared.
MatchesProfile(o, a, n) ==
  /\ agent[o].status = "active"
  /\ agent[o].name = n

\* GetAgent answers with the receipt and the profile of attempt a.
Matches(o, a, n) ==
  /\ agent[o].status = "active"
  /\ agent[o].name = n
  /\ agent[o].receipt = a

\* The Worker knows of no Agent.
IsNotFound(o) == agent[o].status = "none"

\* UpdateConfig renames the profile.
UpdateConfig(o, n) ==
  /\ agent[o].status = "active"
  /\ agent' = [agent EXCEPT ![o].name = n]
  /\ UNCHANGED <<row, attempts, calls, request, answers, sentTo, deleted, overdue, astray,
                 unrecorded>>

\* The profile and the receipt of a destroyed Agent stay.
DestroyAgent(o) ==
  /\ agent[o].status = "active"
  /\ agent' = [agent EXCEPT ![o].status = "destroyed"]
  /\ UNCHANGED <<row, attempts, calls, request, answers, sentTo, deleted, overdue, astray,
                 unrecorded>>

-----------------------------------------------------------------------------
(* submitManagedAgentRegistration *)

Continue(r, pc, o) ==
  request' = [request EXCEPT ![r] = [@ EXCEPT !.pc = pc, !.origin = o]]

Goto(r, pc) == Continue(r, pc, NoOrigin)

\* The check, before the signing key is awaited.
SubmitRegistration(r, n, o) ==
  /\ request[r].pc = "free"
  /\ ~RowExists
  /\ request' = [request EXCEPT ![r] = [pc |-> "checked", attempt |-> NoAttempt, name |-> n,
                                        origin |-> o]]
  /\ UNCHANGED <<row, agent, attempts, calls, answers, sentTo, deleted, overdue, astray,
                 unrecorded>>

\* The insert, or the loser of a race, which fails on the primary key.
CreateAttempt(r) ==
  /\ request[r].pc = "checked"
  /\ attempts < MaxAttempts
  /\ InsertAttempt(attempts + 1, request[r].name, request[r].origin)
  /\ attempts' = attempts + 1
  /\ request' = [request EXCEPT ![r] = [@ EXCEPT !.pc = "created", !.attempt = attempts + 1,
                                                 !.origin = NoOrigin]]
  /\ UNCHANGED <<agent, calls, answers, sentTo, deleted, overdue, astray, unrecorded>>

CreateRefused(r) ==
  /\ request[r].pc = "checked"
  /\ RowExists
  /\ request' = [request EXCEPT ![r] = Free]
  /\ UNCHANGED <<row, agent, attempts, calls, answers, sentTo, deleted, overdue, astray,
                 unrecorded>>

\* D1 fails.  The batch may have been committed, and nobody holds its attempt.
CreateFails(r) ==
  /\ "write" \in Faults
  /\ request[r].pc = "checked"
  /\ request' = [request EXCEPT ![r] = Free]
  /\ \/ row' = row /\ attempts' = attempts
     \/ /\ attempts < MaxAttempts
        /\ InsertAttempt(attempts + 1, request[r].name, request[r].origin)
        /\ attempts' = attempts + 1
  /\ UNCHANGED <<agent, calls, answers, sentTo, deleted, overdue, astray, unrecorded>>

\* loadAgentRpcClients reads the row and its signing key, then the call is sent to
\* the Worker the row names by now.
AgentRpcOrigin == row.origin

SendInitialize(r) ==
  /\ request[r].pc = "created"
  /\ RowExists
  /\ sentTo' = [sentTo EXCEPT ![request[r].attempt] = AgentRpcOrigin]
  /\ Goto(r, "initialize")
  /\ UNCHANGED <<row, agent, attempts, calls, answers, deleted, overdue, astray, unrecorded>>

\* The row is gone, or its key cannot be used: an error like any other.
LoadClientsFails(r) ==
  /\ request[r].pc \in {"created", "reconcile"}
  /\ Goto(r, IF request[r].pc = "created" THEN "reconcile" ELSE "unsure")
  /\ UNCHANGED <<row, agent, attempts, calls, answers, sentTo, deleted, overdue, astray,
                 unrecorded>>

\* The Agent handles the call.  Its answer, a refusal and a lost answer all lead
\* to the comparison with GetAgent.
InitializeAgent(r) ==
  /\ request[r].pc = "initialize"
  /\ InitializeInStore(sentTo[request[r].attempt], request[r].attempt, request[r].name)
  /\ Goto(r, "reconcile")
  /\ UNCHANGED <<row, attempts, calls, answers, sentTo, deleted, overdue, astray,
                 unrecorded>>

\* The call never reaches the Agent.
InitializeLost(r) ==
  /\ request[r].pc = "initialize"
  /\ Goto(r, "reconcile")
  /\ UNCHANGED <<row, agent, attempts, calls, answers, sentTo, deleted, overdue, astray,
                 unrecorded>>

\* The call is given up while it is still on its way.
StillOnItsWay(r) ==
  /\ calls' = calls \cup {<<request[r].attempt, request[r].name>>}
  /\ overdue' = overdue \cup {request[r].attempt}

GiveUpInitialize(r) ==
  /\ "late" \in Faults
  /\ request[r].pc = "initialize"
  /\ StillOnItsWay(r)
  /\ Goto(r, "reconcile")
  /\ UNCHANGED <<row, agent, attempts, answers, sentTo, deleted, astray, unrecorded>>

LateInitialize(a, n) ==
  /\ <<a, n>> \in calls
  /\ calls' = calls \ {<<a, n>>}
  /\ InitializeInStore(sentTo[a], a, n)
  /\ UNCHANGED <<row, attempts, request, answers, sentTo, deleted, overdue, astray,
                 unrecorded>>

-----------------------------------------------------------------------------
(* reconcileAttempt *)

\* The action "check the registration": only for a row that asks for it.
ReconcileRegistration(r) ==
  /\ request[r].pc = "free"
  /\ row.state = "reconciliation_required"
  /\ request' = [request EXCEPT ![r] = [pc |-> "reconcile", attempt |-> row.attempt,
                                        name |-> row.name, origin |-> NoOrigin]]
  /\ UNCHANGED <<row, agent, attempts, calls, answers, sentTo, deleted, overdue, astray,
                 unrecorded>>

\* The row is read again: it may name another Worker than InitializeAgent was sent
\* to, or be the row of another attempt.
SendGetAgent(r) ==
  /\ request[r].pc = "reconcile"
  /\ RowExists
  /\ Continue(r, "ask", AgentRpcOrigin)
  /\ UNCHANGED <<row, agent, attempts, calls, answers, sentTo, deleted, overdue, astray,
                 unrecorded>>

\* The Worker answers; the server action goes on later.
GetAgent(r) ==
  LET a == request[r].attempt
      asked == request[r].origin
  IN  /\ request[r].pc = "ask"
      /\ \/ /\ IsNotFound(asked)
            /\ Goto(r, "absent")
            /\ astray' = IF sentTo[a] \in {NoOrigin, asked} THEN astray ELSE astray \cup {a}
         \/ /\ ~IsNotFound(asked)
            /\ Goto(r, IF Matches(asked, a, request[r].name) THEN "matched" ELSE "unsure")
            /\ astray' = astray
      /\ UNCHANGED <<row, agent, attempts, calls, answers, sentTo, deleted, overdue,
                     unrecorded>>

GetAgentFails(r) ==
  /\ request[r].pc = "ask"
  /\ Goto(r, "unsure")
  /\ UNCHANGED <<row, agent, attempts, calls, answers, sentTo, deleted, overdue, astray,
                 unrecorded>>

Answer(r, outcome) ==
  /\ answers' = answers \cup {<<request[r].attempt, outcome>>}
  /\ request' = [request EXCEPT ![r] = Free]

\* markAttemptActive.
ActiveRow == [row EXCEPT !.state = "active"]

MarkActive(r) ==
  /\ request[r].pc = "matched"
  /\ IF CanMarkActive(request[r].attempt)
     THEN row' = ActiveRow /\ Answer(r, "active")
     ELSE row' = row /\ Goto(r, "unsure") /\ answers' = answers
  /\ UNCHANGED <<agent, attempts, calls, sentTo, deleted, overdue, astray, unrecorded>>

MarkActiveFails(r) ==
  /\ "write" \in Faults
  /\ request[r].pc = "matched"
  /\ \/ row' = row
     \/ CanMarkActive(request[r].attempt) /\ row' = ActiveRow
  /\ Goto(r, "unsure")
  /\ UNCHANGED <<agent, attempts, calls, answers, sentTo, deleted, overdue, astray,
                 unrecorded>>

\* cleanupCreatedAttempt.
Cleanup(r) ==
  LET a == request[r].attempt IN
  /\ request[r].pc = "absent"
  /\ row' = IF CanCleanup(a) THEN NoRow ELSE row
  /\ IF CanCleanup(a) \/ AlreadyAbsent(a)
     THEN Answer(r, "failed")
     ELSE Goto(r, "unsure") /\ answers' = answers
  /\ UNCHANGED <<agent, attempts, calls, sentTo, deleted, overdue, astray, unrecorded>>

CleanupFails(r) ==
  /\ "write" \in Faults
  /\ request[r].pc = "absent"
  /\ \/ row' = row
     \/ CanCleanup(request[r].attempt) /\ row' = NoRow
  /\ Goto(r, "unsure")
  /\ UNCHANGED <<agent, attempts, calls, answers, sentTo, deleted, overdue, astray,
                 unrecorded>>

\* keepReconciliationRequired: what D1 says of the write is swallowed.
UnsettledRow(a) ==
  IF CanMarkReconciliation(a)
  THEN [row EXCEPT !.state = "reconciliation_required"]
  ELSE row

KeepReconciliationRequired(r) ==
  /\ request[r].pc = "unsure"
  /\ row' = UnsettledRow(request[r].attempt)
  /\ Answer(r, "reconciliation_required")
  /\ UNCHANGED <<agent, attempts, calls, sentTo, deleted, overdue, astray, unrecorded>>

KeepFails(r) ==
  /\ "write" \in Faults
  /\ request[r].pc = "unsure"
  /\ unrecorded' = IF RowOf(request[r].attempt) /\ row.state = "initializing"
                   THEN unrecorded \cup {request[r].attempt}
                   ELSE unrecorded
  /\ Answer(r, "reconciliation_required")
  /\ UNCHANGED <<row, agent, attempts, calls, sentTo, deleted, overdue, astray>>

\* The Worker ends the server action between two of its awaits.
Crash(r) ==
  /\ "crash" \in Faults
  /\ request[r].pc # "free"
  /\ request' = [request EXCEPT ![r] = Free]
  /\ IF request[r].pc = "initialize" THEN StillOnItsWay(r) ELSE UNCHANGED <<calls, overdue>>
  /\ UNCHANGED <<row, agent, attempts, answers, sentTo, deleted, astray, unrecorded>>

-----------------------------------------------------------------------------
(* Other writers of the row *)

\* The edit of a registration, whatever its state: the name and the Worker.
\* renameManagedAgent keeps the Worker.
EditRegistration(n, o) ==
  /\ RowExists
  /\ row' = [row EXCEPT !.name = n, !.origin = o]
  /\ UNCHANGED <<agent, attempts, calls, request, answers, sentTo, deleted, overdue, astray,
                 unrecorded>>

\* registerManagedAgent inserts a row without an attempt, or edits.
RegisterManagedAgent(n, o) ==
  /\ ~RowExists
  /\ row' = [state |-> "active", attempt |-> NoAttempt, name |-> n, origin |-> o]
  /\ UNCHANGED <<agent, attempts, calls, request, answers, sentTo, deleted, overdue, astray,
                 unrecorded>>

DeleteManagedAgent ==
  /\ RowExists
  /\ row' = NoRow
  /\ deleted' = deleted \cup ({row.attempt} \ {NoAttempt})
  /\ UNCHANGED <<agent, attempts, calls, request, answers, sentTo, overdue, astray,
                 unrecorded>>

-----------------------------------------------------------------------------
(* The specification *)

RequestStep(r) ==
  \/ \E n \in Names, o \in Origins : SubmitRegistration(r, n, o)
  \/ CreateAttempt(r)
  \/ CreateRefused(r)
  \/ CreateFails(r)
  \/ SendInitialize(r)
  \/ LoadClientsFails(r)
  \/ InitializeAgent(r)
  \/ InitializeLost(r)
  \/ GiveUpInitialize(r)
  \/ ReconcileRegistration(r)
  \/ SendGetAgent(r)
  \/ GetAgent(r)
  \/ GetAgentFails(r)
  \/ MarkActive(r)
  \/ MarkActiveFails(r)
  \/ Cleanup(r)
  \/ CleanupFails(r)
  \/ KeepReconciliationRequired(r)
  \/ KeepFails(r)
  \/ Crash(r)

Next ==
  \/ \E r \in Requests : RequestStep(r)
  \/ \E a \in Attempts, n \in Names : LateInitialize(a, n)
  \/ \E o \in Origins, n \in Names : UpdateConfig(o, n)
  \/ \E o \in Origins : DestroyAgent(o)
  \/ \E n \in Names, o \in Origins : EditRegistration(n, o)
  \/ \E n \in Names, o \in Origins : RegisterManagedAgent(n, o)
  \/ DeleteManagedAgent

Spec == Init /\ [][Next]_vars

-----------------------------------------------------------------------------
(* Properties *)

\* Some Worker has an Agent that was initialized by attempt a.
Initialized(a) == \E o \in Origins : agent[o].receipt = a

\* An attempt becomes active, in the ledger or for the operator, only when an
\* Agent holds the receipt of that very attempt (reconcileAttempt compares
\* key, digest and profile before markAttemptActive).  That Agent may be at
\* another Worker than the row names, once the registration was edited.
ActiveMeansInitialized ==
  /\ row.state = "active" /\ row.attempt # NoAttempt => Initialized(row.attempt)
  /\ \A a \in Attempts : <<a, "active">> \in answers => Initialized(a)

\* An attempt the operator was told is registered stays so, whatever the server
\* actions that check it meanwhile find, until its row is deleted: neither a
\* late failure nor a late cleanup takes it back.
RegisteredStays ==
  \A a \in Attempts :
    <<a, "active">> \in answers /\ a \notin deleted => row.attempt = a /\ row.state = "active"

\* An attempt the operator was told has failed is gone from the ledger for good.
FailedIsForgotten ==
  \A a \in Attempts : <<a, "failed">> \in answers => row.attempt # a

\* It left no Agent behind either: GetAgent said not_found before the ledger was
\* cleaned.  There are two exceptions.  Its InitializeAgent was given up on its
\* way, or an edit moved the unsettled row and not_found came from another
\* Worker than InitializeAgent was sent to.
FailedMeansNoAgent ==
  \A a \in Attempts : <<a, "failed">> \in answers /\ Initialized(a) => a \in overdue \cup astray

\* Failed means that neither the ledger nor an Agent knows the attempt, now or
\* later: a check that runs at the same time brings neither back.
FailedLeavesNothing == FailedIsForgotten /\ FailedMeansNoAgent

\* An initialized Agent has the row of its attempt: two registrations of one ID
\* cannot overwrite each other, and cleanup cannot orphan the Agent.  Only a
\* deletion, a call that was given up, or a row that was moved while the attempt
\* was unsettled, so that another Worker was asked, can.
AgentHasRow ==
  \A o \in Origins : agent[o].receipt # NoAttempt =>
    row.attempt = agent[o].receipt \/ agent[o].receipt \in deleted \cup overdue \cup astray

\* An attempt the operator was told to check can be checked, or was settled
\* meanwhile, unless D1 did not take the observation of the server action that
\* found it still initializing.
AnswerIsReconcilable ==
  \A a \in Attempts \ unrecorded :
    <<a, "reconciliation_required">> \in answers /\ row.attempt = a =>
      row.state \in {"reconciliation_required", "active"}

\* not_found confirms that the Agent does not exist (the comment before
\* cleanupCreatedAttempt in reconcileAttempt), so no Agent of a failed attempt
\* ever does.
NoAgentAfterFailure ==
  \A a \in Attempts : <<a, "failed">> \in answers => ~Initialized(a)

\* An attempt the operator was told to check can be checked: the confirmation
\* action goes on although the write failed (the comment in
\* keepReconciliationRequired).
CheckStaysPossible ==
  \A a \in Attempts :
    <<a, "reconciliation_required">> \in answers /\ row.attempt = a =>
      row.state \in {"reconciliation_required", "active"}
=============================================================================
