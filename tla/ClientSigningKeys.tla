-------------------------- MODULE ClientSigningKeys --------------------------
(***************************************************************************)
(* The Client's signing keys, and the Agents of its ledger that name them. *)
(* Each SQL statement of D1 is atomic, but a server action issues several  *)
(* of them and awaits each: what it has read may be stale when it writes.  *)
(* A step here is one statement with what the action does before the next. *)
(*                                                                         *)
(* A key stands for its issuer and key ID, which are drawn anew for each,  *)
(* and for the fingerprint of its public half, which never changes.        *)
(***************************************************************************)
EXTENDS Integers, FiniteSets

CONSTANTS
  Keys,     \* Signing keys ever generated.
  Agents,   \* Agent IDs.
  Requests, \* Server actions in flight at the same time.
  NoKey,    \* NULL in the signing columns of an Agent.
  NoAgent   \* A server action that is about no Agent.

ASSUME KeysAssumption == NoKey \notin Keys /\ NoAgent \notin Agents

VARIABLES
  key,      \* client_signing_keys, see KeyRows.
  agent,    \* client_managed_agents: whether there is a row, and the key it names.
  request,  \* Server actions in flight.
  revoked,  \* History: keys that were ever deleted, with or without a tombstone.
  stale,    \* History: Agents inserted with a key that was no longer active.
  chosen    \* History: a default was set, and no change of it has broken off since.

vars == <<key, agent, request, revoked, stale, chosen>>

-----------------------------------------------------------------------------
(* Types *)

\* The row does not exist in status "unborn" and "removed".
Statuses == {"active", "disabled", "deleted"}
KeyRows == [status : Statuses \cup {"unborn", "removed"}, isDefault : BOOLEAN,
            sealed : BOOLEAN]   \* sealed: the ciphertext holds the private key.

Unborn == [status |-> "unborn", isDefault |-> FALSE, sealed |-> FALSE]

AgentRows == [exists : BOOLEAN, key : Keys \cup {NoKey}]
NoRow == [exists |-> FALSE, key |-> NoKey]

\* A server action is about to update a status, to clear the default, to set it,
\* to insert an Agent, to read an Agent's key, or holds a key that signs.
RequestType == [pc : {"free", "status", "clear", "set", "insert", "load", "sign"},
                key : Keys \cup {NoKey}, agent : Agents \cup {NoAgent},
                status : Statuses]

Free == [pc |-> "free", key |-> NoKey, agent |-> NoAgent, status |-> "active"]

TypeOK ==
  /\ key \in [Keys -> KeyRows]
  /\ agent \in [Agents -> AgentRows]
  /\ request \in [Requests -> RequestType]
  /\ revoked \subseteq Keys
  /\ stale \subseteq Agents
  /\ chosen \in BOOLEAN

Init ==
  /\ key = [k \in Keys |-> Unborn]
  /\ agent = [a \in Agents |-> NoRow]
  /\ request = [r \in Requests |-> Free]
  /\ revoked = {}
  /\ stale = {}
  /\ chosen = FALSE

-----------------------------------------------------------------------------
(* The conditions of the statements *)

Exists(k) == key[k].status \in Statuses
Active(k) == key[k].status = "active"

Await(r, pc, k, a, s) ==
  request' = [request EXCEPT ![r] = [pc |-> pc, key |-> k, agent |-> a, status |-> s]]

Return(r) == request' = [request EXCEPT ![r] = Free]

HasDefault == \E k \in Keys : key[k].isDefault

\* Mutant: the references are not in the condition of the statement.
CanInvalidateReferenced(k) == Exists(k) /\ ~key[k].isDefault

\* Mutant: the default is not in the condition of the statement.
CanInvalidateDefault(k) == Exists(k) /\ \A a \in Agents : agent[a].key # k

\* A key in use is neither disabled nor deleted: the statement itself says so.
CanInvalidate(k) ==
  /\ Exists(k)
  /\ ~key[k].isDefault
  /\ \A a \in Agents : agent[a].key # k

\* A deleted key is not made active again.
CanActivate(k) == Exists(k) /\ key[k].status # "deleted"

\* Mutant: the tombstone does not replace the ciphertext.
KeepsMaterialAlways(k, s) == key[k].sealed

\* Whether the ciphertext outlives an update to status s.
KeepsMaterial(k, s) == key[k].sealed /\ s # "deleted"

WithStatus(k, s) ==
  [status |-> s, isDefault |-> key[k].isDefault /\ s = "active",
   sealed |-> KeepsMaterial(k, s)]

-----------------------------------------------------------------------------
(* The keys *)

GenerateKey(k) ==
  /\ key[k].status = "unborn"
  /\ key' = [key EXCEPT ![k] = [status |-> "active", isDefault |-> FALSE, sealed |-> TRUE]]
  /\ UNCHANGED <<agent, request, revoked, stale, chosen>>

\* The status that is read refuses to change a deleted key.
ReadForStatus(r, k, s) ==
  /\ request[r].pc = "free"
  /\ Exists(k)
  /\ key[k].status = "deleted" => s = "deleted"
  /\ Await(r, "status", k, NoAgent, s)
  /\ UNCHANGED <<key, agent, revoked, stale, chosen>>

WriteStatus(r) ==
  LET k == request[r].key
      s == request[r].status
      holds == IF s = "active" THEN CanActivate(k) ELSE CanInvalidate(k)
  IN  /\ request[r].pc = "status"
      /\ key' = IF holds THEN [key EXCEPT ![k] = WithStatus(k, s)] ELSE key
      /\ revoked' = IF holds /\ s = "deleted" THEN revoked \cup {k} ELSE revoked
      /\ Return(r)
      /\ UNCHANGED <<agent, stale, chosen>>

\* What is read before the DELETE decides nothing that the DELETE does not.
RemoveKey(k) ==
  /\ CanInvalidate(k)
  /\ key' = [key EXCEPT ![k] = [Unborn EXCEPT !.status = "removed"]]
  /\ revoked' = revoked \cup {k}
  /\ UNCHANGED <<agent, request, stale, chosen>>

ReadForDefault(r, k) ==
  /\ request[r].pc = "free"
  /\ Active(k)
  /\ Await(r, "clear", k, NoAgent, "active")
  /\ UNCHANGED <<key, agent, revoked, stale, chosen>>

ClearDefault(r) ==
  /\ request[r].pc = "clear"
  /\ key' = [k \in Keys |-> [key[k] EXCEPT !.isDefault = FALSE]]
  /\ request' = [request EXCEPT ![r].pc = "set"]
  /\ UNCHANGED <<agent, revoked, stale, chosen>>

\* The unique index refuses a second default, and there may be no row any more.
WriteDefault(r) ==
  LET k == request[r].key IN
  /\ request[r].pc = "set"
  /\ key' = IF Exists(k) /\ \A x \in Keys \ {k} : ~key[x].isDefault
              THEN [key EXCEPT ![k].isDefault = TRUE]
              ELSE key
  /\ chosen' = \E x \in Keys : key'[x].isDefault
  /\ Return(r)
  /\ UNCHANGED <<agent, revoked, stale>>

-----------------------------------------------------------------------------
(* The Agents *)

\* submitRegistration reads the default key and inserts the Agent with it.
ReadForRegistration(r, a, k) ==
  /\ request[r].pc = "free"
  /\ ~agent[a].exists
  /\ key[k].isDefault /\ Active(k)
  /\ Await(r, "insert", k, a, "active")
  /\ UNCHANGED <<key, agent, revoked, stale, chosen>>

\* The INSERT says nothing of the key; the primary key refuses a second row.
InsertAgent(r) ==
  LET a == request[r].agent
      k == request[r].key
      inserted == ~agent[a].exists
  IN  /\ request[r].pc = "insert"
      /\ agent' = IF inserted THEN [agent EXCEPT ![a] = [exists |-> TRUE, key |-> k]] ELSE agent
      /\ stale' = IF inserted /\ ~Active(k) THEN stale \cup {a} ELSE stale
      /\ Return(r)
      /\ UNCHANGED <<key, revoked, chosen>>

\* An upsert that leaves the signing columns alone.
RegisterManagedAgent(a) ==
  /\ agent' = [agent EXCEPT ![a].exists = TRUE]
  /\ UNCHANGED <<key, request, revoked, stale, chosen>>

\* The UPDATE looks the key up again, so that what was read before it is not used.
SaveSigningKey(a, k) ==
  /\ agent[a].exists
  /\ Active(k)
  /\ agent' = [agent EXCEPT ![a].key = k]
  /\ stale' = stale \ {a}
  /\ UNCHANGED <<key, request, revoked, chosen>>

\* The operator deletes the Agent, or its registration cleans up.
DeleteManagedAgent(a) ==
  /\ agent' = [agent EXCEPT ![a] = NoRow]
  /\ stale' = stale \ {a}
  /\ UNCHANGED <<key, request, revoked, chosen>>

-----------------------------------------------------------------------------
(* Signing *)

\* loadAgentRpcClients reads the Agent first and then the key it names.
ReadAgent(r, a) ==
  /\ request[r].pc = "free"
  /\ agent[a].exists /\ agent[a].key # NoKey
  /\ Await(r, "load", agent[a].key, a, "active")
  /\ UNCHANGED <<key, agent, revoked, stale, chosen>>

\* A key that is not active is refused; a tombstone cannot be decrypted.
CanSign(k) == Active(k) /\ key[k].sealed

ReadKey(r) ==
  /\ request[r].pc = "load"
  /\ IF CanSign(request[r].key)
       THEN request' = [request EXCEPT ![r].pc = "sign"]
       ELSE Return(r)
  /\ UNCHANGED <<key, agent, revoked, stale, chosen>>

\* Before there is an Agent, its policy is validated with the default key.
LoadRegistrationClients(r, k) ==
  /\ request[r].pc = "free"
  /\ key[k].isDefault
  /\ CanSign(k)
  /\ Await(r, "sign", k, NoAgent, "active")
  /\ UNCHANGED <<key, agent, revoked, stale, chosen>>

\* The call has returned and the key is forgotten.
EndCall(r) ==
  /\ request[r].pc = "sign"
  /\ Return(r)
  /\ UNCHANGED <<key, agent, revoked, stale, chosen>>

\* The Worker ends between two statements, or D1 refuses the next one.
BreakOff(r) ==
  /\ request[r].pc # "free"
  /\ Return(r)
  /\ chosen' = (chosen /\ request[r].pc # "set")
  /\ UNCHANGED <<key, agent, revoked, stale>>

-----------------------------------------------------------------------------

Next ==
  \/ \E k \in Keys : GenerateKey(k) \/ RemoveKey(k)
  \/ \E a \in Agents :
       \/ RegisterManagedAgent(a)
       \/ DeleteManagedAgent(a)
       \/ \E k \in Keys : SaveSigningKey(a, k)
  \/ \E r \in Requests, k \in Keys :
       \/ \E s \in Statuses : ReadForStatus(r, k, s)
       \/ ReadForDefault(r, k)
       \/ \E a \in Agents : ReadForRegistration(r, a, k)
       \/ LoadRegistrationClients(r, k)
  \/ \E r \in Requests :
       \/ WriteStatus(r)
       \/ ClearDefault(r) \/ WriteDefault(r)
       \/ InsertAgent(r)
       \/ \E a \in Agents : ReadAgent(r, a)
       \/ ReadKey(r)
       \/ EndCall(r)
       \/ BreakOff(r)

Spec == Init /\ [][Next]_vars

-----------------------------------------------------------------------------
(* Properties *)

\* Nothing is signed with a key that was read after it had been deleted, not even
\* when a request that read it earlier has since taken it out of status deleted
\* (db/signing-keys.ts replaces the ciphertext, agent-loader.ts has to decrypt it).
DeletedNeverSigns ==
  [][\A r \in Requests :
       request[r].pc # "sign" /\ request'[r].pc = "sign" => request'[r].key \notin revoked]_vars

\* The key an Agent names is active, whatever other server actions do to it,
\* unless the registration inserted it after it had ceased to be
\* (createInvalidatableSigningKeyCondition, createActiveSigningKeySelectionCondition).
AssignedCanSign ==
  \A a \in Agents : agent[a].key # NoKey => a \in stale \/ Active(agent[a].key)

\* There is always one default once one was set, except while it is being changed
\* or when a change was not completed: setDefaultSigningKey writes twice, and may
\* break off after the first or find that its target was removed meanwhile.
DefaultIsKept ==
  /\ \A k, x \in Keys : key[k].isDefault /\ key[x].isDefault => k = x
  /\ chosen => HasDefault \/ \E r \in Requests : request[r].pc = "set"

\* A deleted key never gets another status ("Deleted signing keys cannot be
\* reactivated", also in a race: db/signing-keys.ts:254).
DeletedIsFinal ==
  [][\A k \in Keys : key[k].status = "deleted" => key'[k].status \in {"deleted", "removed"}]_vars

=============================================================================
