----------------------- MODULE ClientSigningKeysProofs -----------------------
(***************************************************************************)
(* Proofs about ClientSigningKeys, for any sets of keys, Agents and server *)
(* actions.                                                                *)
(***************************************************************************)
EXTENDS ClientSigningKeys, TLAPS

\* A key that was ever deleted has lost its private half, and cannot be generated
\* again: whatever its status is, nothing decrypts it.
RevokedIsSealed ==
  \A k \in revoked : ~key[k].sealed /\ key[k].status # "unborn"

\* The default has a row.
DefaultHasRow == \A k \in Keys : key[k].isDefault => Exists(k)

\* A server action on its way is about a key, and inserts an Agent.
Proper(x) ==
  /\ x.pc # "free" => x.key \in Keys
  /\ x.pc = "insert" => x.agent \in Agents

RequestsAreProper == \A r \in Requests : Proper(request[r])

IInv == /\ TypeOK
        /\ RequestsAreProper
        /\ RevokedIsSealed
        /\ AssignedCanSign
        /\ DefaultHasRow
        /\ DefaultIsKept

-----------------------------------------------------------------------------
(* What the steps have in common *)

LEMMA ReturnTyped ==
  ASSUME TypeOK, RequestsAreProper, NEW r \in Requests, Return(r)
  PROVE  request' \in [Requests -> RequestType] /\ RequestsAreProper'
<1>1. Free \in RequestType /\ Proper(Free)
  BY DEF Free, RequestType, Statuses, Proper
<1> QED BY <1>1 DEF Return, TypeOK, RequestsAreProper, Proper

\* A key whose row is updated, and the rest of the keys.
LEMMA WithStatusTyped ==
  ASSUME TypeOK, NEW k \in Keys, NEW s \in Statuses
  PROVE  WithStatus(k, s) \in KeyRows
  BY DEF WithStatus, KeepsMaterial, TypeOK, KeyRows

\* A server action that is about to set a default still is, when another goes on.
SetPending == \E r \in Requests : request[r].pc = "set"

LEMMA AwaitKeepsSetPending ==
  ASSUME TypeOK, SetPending, NEW r \in Requests, request[r].pc # "set",
         NEW x, request' = [request EXCEPT ![r] = x]
  PROVE  SetPending'
<1>1. PICK q \in Requests : request[q].pc = "set"
  BY DEF SetPending
<1>2. request'[q] = request[q]
  BY <1>1 DEF TypeOK
<1> QED BY <1>1, <1>2 DEF SetPending

\* Steps that write neither the keys nor the Agents.
Reads(r) ==
  /\ request[r].pc # "set"
  /\ \E x \in RequestType : Proper(x) /\ request' = [request EXCEPT ![r] = x]
  /\ UNCHANGED <<key, agent, revoked, stale, chosen>>

LEMMA ReadsKeep ==
  ASSUME IInv, NEW r \in Requests, Reads(r)
  PROVE  IInv'
<1>1. PICK x \in RequestType : Proper(x) /\ request' = [request EXCEPT ![r] = x]
  BY DEF Reads
<1>2. TypeOK' /\ RequestsAreProper'
  BY <1>1 DEF IInv, Reads, TypeOK, RequestsAreProper, Proper
<1>3. SetPending => SetPending'
  BY <1>1, AwaitKeepsSetPending DEF IInv, Reads
<1>4. RevokedIsSealed' /\ AssignedCanSign' /\ DefaultHasRow'
  BY DEF IInv, Reads, RevokedIsSealed, AssignedCanSign, DefaultHasRow, Exists, Active
<1>5. DefaultIsKept'
  BY <1>3 DEF IInv, Reads, DefaultIsKept, SetPending, HasDefault
<1> QED BY <1>2, <1>4, <1>5 DEF IInv

LEMMA AwaitReads ==
  ASSUME TypeOK, NEW r \in Requests, request[r].pc = "free",
         NEW pc \in {"status", "clear", "insert", "load", "sign"},
         NEW k \in Keys, NEW a \in Agents \cup {NoAgent}, NEW s \in Statuses,
         pc = "insert" => a \in Agents,
         Await(r, pc, k, a, s), UNCHANGED <<key, agent, revoked, stale, chosen>>
  PROVE  Reads(r)
<1>1. [pc |-> pc, key |-> k, agent |-> a, status |-> s] \in RequestType
  BY DEF RequestType
<1>2. Proper([pc |-> pc, key |-> k, agent |-> a, status |-> s])
  BY DEF Proper
<1> QED BY <1>1, <1>2 DEF Await, Reads

LEMMA ReturnReads ==
  ASSUME TypeOK, NEW r \in Requests, request[r].pc # "set", Return(r),
         UNCHANGED <<key, agent, revoked, stale, chosen>>
  PROVE  Reads(r)
<1>1. Free \in RequestType /\ Proper(Free)
  BY DEF RequestType, Free, Statuses, Proper
<1> QED BY <1>1 DEF Return, Reads

\* Steps that leave every default where it is.
LEMMA DefaultsStay ==
  ASSUME DefaultIsKept, \A k \in Keys : key'[k].isDefault <=> key[k].isDefault,
         SetPending => SetPending', UNCHANGED chosen
  PROVE  DefaultIsKept'
  BY DEF DefaultIsKept, HasDefault, SetPending

-----------------------------------------------------------------------------
(* One lemma for each step that writes *)

LEMMA GenerateStep ==
  ASSUME IInv, NEW k \in Keys, GenerateKey(k)
  PROVE  IInv'
<1> DEFINE new == [status |-> "active", isDefault |-> FALSE, sealed |-> TRUE]
<1>1. /\ key' = [key EXCEPT ![k] = new]
      /\ UNCHANGED <<agent, request, revoked, stale, chosen>>
      /\ key[k].status = "unborn"
  BY DEF GenerateKey
<1>2. new \in KeyRows /\ ~new.isDefault /\ new.status = "active"
  BY DEF KeyRows, Statuses
<1>3. new.status \in Statuses
  BY DEF Statuses
<1> HIDE DEF new
<1>4. TypeOK' /\ RequestsAreProper'
  BY <1>1, <1>2 DEF IInv, TypeOK, RequestsAreProper, Proper
<1>5. k \notin revoked
  BY <1>1 DEF IInv, RevokedIsSealed
<1>6. RevokedIsSealed'
  BY <1>1, <1>5 DEF IInv, RevokedIsSealed, TypeOK
<1>7. AssignedCanSign'
  BY <1>1, <1>2 DEF IInv, AssignedCanSign, Active, TypeOK, AgentRows
<1>8. ~key[k].isDefault
  BY <1>1 DEF IInv, DefaultHasRow, Exists, Statuses
<1>9. \A x \in Keys : key'[x].isDefault <=> key[x].isDefault
  BY <1>1, <1>2, <1>8, Zenon DEF IInv, TypeOK
<1>10. DefaultHasRow'
  BY <1>1, <1>2, <1>3 DEF IInv, DefaultHasRow, Exists, TypeOK
<1>11. SetPending => SetPending'
  BY <1>1 DEF SetPending
<1>12. DefaultIsKept'
  BY <1>1, <1>9, <1>11, DefaultsStay DEF IInv
<1> QED BY <1>4, <1>6, <1>7, <1>10, <1>12 DEF IInv

LEMMA RemoveStep ==
  ASSUME IInv, NEW k \in Keys, RemoveKey(k)
  PROVE  IInv'
<1> DEFINE gone == [Unborn EXCEPT !.status = "removed"]
<1>1. /\ key' = [key EXCEPT ![k] = gone]
      /\ revoked' = revoked \cup {k}
      /\ UNCHANGED <<agent, request, stale, chosen>>
      /\ ~key[k].isDefault
      /\ \A a \in Agents : agent[a].key # k
  BY DEF RemoveKey, CanInvalidate
<1>2. gone \in KeyRows /\ ~gone.isDefault /\ ~gone.sealed /\ gone.status = "removed"
  BY DEF KeyRows, Unborn
<1> HIDE DEF gone
<1>3. TypeOK' /\ RequestsAreProper'
  BY <1>1, <1>2 DEF IInv, TypeOK, RequestsAreProper, Proper
<1>4. RevokedIsSealed'
  BY <1>1, <1>2 DEF IInv, RevokedIsSealed, TypeOK
<1>5. AssignedCanSign'
  BY <1>1, <1>2 DEF IInv, AssignedCanSign, Active, TypeOK, AgentRows
<1>6. \A x \in Keys : key'[x].isDefault <=> key[x].isDefault
  BY <1>1, <1>2, Zenon DEF IInv, TypeOK
<1>7. DefaultHasRow'
  BY <1>1, <1>2 DEF IInv, DefaultHasRow, Exists, TypeOK
<1>8. SetPending => SetPending'
  BY <1>1 DEF SetPending
<1>9. DefaultIsKept'
  BY <1>1, <1>6, <1>8, DefaultsStay DEF IInv
<1> QED BY <1>3, <1>4, <1>5, <1>7, <1>9 DEF IInv

\* An update of a status: an active key stays the default if it was, a key that is
\* disabled or deleted was neither the default nor in use.
LEMMA WriteStatusStep ==
  ASSUME IInv, NEW r \in Requests, WriteStatus(r)
  PROVE  IInv'
<1> DEFINE k == request[r].key
           s == request[r].status
           new == WithStatus(k, s)
           holds == IF s = "active" THEN CanActivate(k) ELSE CanInvalidate(k)
<1>1. /\ request[r].pc = "status"
      /\ key' = IF holds THEN [key EXCEPT ![k] = new] ELSE key
      /\ revoked' = IF holds /\ s = "deleted" THEN revoked \cup {k} ELSE revoked
      /\ Return(r)
      /\ UNCHANGED <<agent, stale, chosen>>
  BY DEF WriteStatus
<1>2. CASE ~holds
  <2>1. UNCHANGED <<key, agent, revoked, stale, chosen>>
    BY <1>1, <1>2
  <2> QED BY <1>1, <2>1, ReturnReads, ReadsKeep DEF IInv
<1>3. CASE holds /\ k \in Keys
  <2>1. s \in Statuses
    BY DEF IInv, TypeOK, RequestType
  <2>2. new \in KeyRows
    BY <1>3, <2>1, WithStatusTyped DEF IInv
  <2>3. new.status = s
    BY DEF WithStatus
  <2>4. new.sealed => key[k].sealed /\ s # "deleted"
    BY DEF WithStatus, KeepsMaterial
  <2>5. s # "active" => ~key[k].isDefault /\ \A a \in Agents : agent[a].key # k
    BY <1>3 DEF CanInvalidate
  <2>6. new.isDefault <=> key[k].isDefault
    BY <2>5, Zenon DEF WithStatus
  <2>7. key[k].status # "unborn"
    BY <1>3 DEF CanActivate, CanInvalidate, Exists, Statuses
  <2>8. key' = [key EXCEPT ![k] = new]
    BY <1>1, <1>3
  <2>9. revoked' = IF s = "deleted" THEN revoked \cup {k} ELSE revoked
    BY <1>1, <1>3
  <2>10. s # "unborn"
    BY <2>1 DEF Statuses
  <2>11. SetPending => SetPending'
    BY <1>1, AwaitKeepsSetPending DEF Return, IInv
  <2>12. request' \in [Requests -> RequestType] /\ RequestsAreProper'
    BY <1>1, ReturnTyped DEF IInv
  <2>13. key' \in [Keys -> KeyRows]
    BY <2>2, <2>8 DEF IInv, TypeOK
  <2>14. k \in Keys
    BY <1>3
  <2>15. UNCHANGED <<agent, stale, chosen>>
    BY <1>1
  <2> HIDE DEF k, s, new, holds
  <2>16. TypeOK'
    BY <2>9, <2>12, <2>13, <2>14, <2>15 DEF IInv, TypeOK
  <2>17. RevokedIsSealed'
    BY <2>3, <2>4, <2>8, <2>9, <2>10, <2>14 DEF IInv, RevokedIsSealed, TypeOK
  <2>18. AssignedCanSign'
    BY <2>3, <2>5, <2>8, <2>14, <2>15 DEF IInv, AssignedCanSign, Active, TypeOK, AgentRows
  <2>19. \A x \in Keys : key'[x].isDefault <=> key[x].isDefault
    BY <2>6, <2>8, <2>14, Zenon DEF IInv, TypeOK
  <2>20. DefaultHasRow'
    BY <2>1, <2>3, <2>8, <2>14, <2>19 DEF IInv, DefaultHasRow, Exists, TypeOK
  <2>21. DefaultIsKept'
    BY <2>11, <2>15, <2>19, DefaultsStay DEF IInv
  <2> QED BY <2>12, <2>16, <2>17, <2>18, <2>20, <2>21 DEF IInv
<1>4. k \in Keys
  BY <1>1 DEF IInv, RequestsAreProper, Proper
<1> QED BY <1>2, <1>3, <1>4

\* Between the two writes of a change there is no default, and the change is pending.
LEMMA ClearStep ==
  ASSUME IInv, NEW r \in Requests, ClearDefault(r)
  PROVE  IInv'
<1>1. /\ key' = [k \in Keys |-> [key[k] EXCEPT !.isDefault = FALSE]]
      /\ request' = [request EXCEPT ![r].pc = "set"]
      /\ UNCHANGED <<agent, revoked, stale, chosen>>
      /\ request[r].pc = "clear"
  BY DEF ClearDefault
<1>2. \A k \in Keys : /\ key'[k] \in KeyRows
                      /\ ~key'[k].isDefault
                      /\ key'[k].status = key[k].status
                      /\ key'[k].sealed = key[k].sealed
  BY <1>1 DEF IInv, TypeOK, KeyRows
<1>3. key' \in [Keys -> KeyRows]
  BY <1>1, <1>2
<1>4. request' \in [Requests -> RequestType] /\ RequestsAreProper'
  BY <1>1 DEF IInv, TypeOK, RequestType, RequestsAreProper, Proper
<1>5. TypeOK'
  BY <1>1, <1>3, <1>4 DEF IInv, TypeOK
<1>6. RevokedIsSealed'
  BY <1>1, <1>2 DEF IInv, RevokedIsSealed, TypeOK
<1>7. AssignedCanSign'
  BY <1>1, <1>2 DEF IInv, AssignedCanSign, Active, TypeOK, AgentRows
<1>8. DefaultHasRow'
  BY <1>2 DEF DefaultHasRow
<1>9. request'[r].pc = "set"
  BY <1>1 DEF IInv, TypeOK, RequestType
<1>10. DefaultIsKept'
  BY <1>2, <1>9 DEF DefaultIsKept
<1> QED BY <1>4, <1>5, <1>6, <1>7, <1>8, <1>10 DEF IInv

LEMMA SetStep ==
  ASSUME IInv, NEW r \in Requests, WriteDefault(r)
  PROVE  IInv'
<1> DEFINE k == request[r].key
           free == Exists(k) /\ \A x \in Keys \ {k} : ~key[x].isDefault
<1>1. /\ key' = IF free THEN [key EXCEPT ![k].isDefault = TRUE] ELSE key
      /\ chosen' = \E x \in Keys : key'[x].isDefault
      /\ Return(r)
      /\ UNCHANGED <<agent, revoked, stale>>
      /\ request[r].pc = "set"
  BY DEF WriteDefault
<1>2. k \in Keys
  BY <1>1 DEF IInv, RequestsAreProper, Proper
<1>3. free => Exists(k) /\ \A x \in Keys \ {k} : ~key[x].isDefault
  OBVIOUS
<1>4. request' \in [Requests -> RequestType] /\ RequestsAreProper'
  BY <1>1, ReturnTyped DEF IInv
<1> HIDE DEF k, free
<1>5. key' \in [Keys -> KeyRows]
  BY <1>1, <1>2 DEF IInv, TypeOK, KeyRows
<1>6. \A x \in Keys : key'[x].status = key[x].status /\ key'[x].sealed = key[x].sealed
  BY <1>1, <1>2 DEF IInv, TypeOK, KeyRows
<1>7. \A x \in Keys : key'[x].isDefault => key[x].isDefault \/ (free /\ x = k)
  BY <1>1, <1>2 DEF IInv, TypeOK, KeyRows
<1>8. chosen' \in BOOLEAN /\ (chosen' => HasDefault')
  BY <1>1 DEF HasDefault
<1>9. TypeOK'
  BY <1>1, <1>4, <1>5, <1>8 DEF IInv, TypeOK
<1>10. RevokedIsSealed'
  BY <1>1, <1>6 DEF IInv, RevokedIsSealed, TypeOK
<1>11. AssignedCanSign'
  BY <1>1, <1>6 DEF IInv, AssignedCanSign, Active, TypeOK, AgentRows
<1>12. DefaultHasRow'
  BY <1>3, <1>6, <1>7 DEF IInv, DefaultHasRow, Exists
<1>13. \A x, y \in Keys : key'[x].isDefault /\ key'[y].isDefault => x = y
  BY <1>3, <1>7 DEF IInv, DefaultIsKept
<1>14. DefaultIsKept'
  BY <1>8, <1>13 DEF DefaultIsKept
<1> QED BY <1>4, <1>9, <1>10, <1>11, <1>12, <1>14 DEF IInv

\* Steps that write Agents and leave the keys alone.
LEMMA AgentsWritten ==
  ASSUME IInv, UNCHANGED <<key, revoked, chosen>>,
         agent' \in [Agents -> AgentRows], stale' \subseteq Agents,
         request' \in [Requests -> RequestType], RequestsAreProper',
         SetPending => SetPending', AssignedCanSign'
  PROVE  IInv'
<1>1. TypeOK'
  BY DEF IInv, TypeOK
<1>2. RevokedIsSealed' /\ DefaultHasRow'
  BY DEF IInv, RevokedIsSealed, DefaultHasRow, Exists
<1>3. DefaultIsKept'
  BY DefaultsStay DEF IInv
<1> QED BY <1>1, <1>2, <1>3 DEF IInv

LEMMA InsertStep ==
  ASSUME IInv, NEW r \in Requests, InsertAgent(r)
  PROVE  IInv'
<1> DEFINE a == request[r].agent
           k == request[r].key
           row == [exists |-> TRUE, key |-> k]
           inserted == ~agent[a].exists
<1>1. /\ agent' = IF inserted THEN [agent EXCEPT ![a] = row] ELSE agent
      /\ stale' = IF inserted /\ ~Active(k) THEN stale \cup {a} ELSE stale
      /\ Return(r)
      /\ UNCHANGED <<key, revoked, chosen>>
      /\ request[r].pc = "insert"
  BY DEF InsertAgent
<1>2. a \in Agents /\ k \in Keys
  BY <1>1 DEF IInv, RequestsAreProper, Proper
<1>3. row \in AgentRows /\ row.key = k
  BY <1>2 DEF AgentRows
<1>4. request' \in [Requests -> RequestType] /\ RequestsAreProper'
  BY <1>1, ReturnTyped DEF IInv
<1>5. SetPending => SetPending'
  BY <1>1, AwaitKeepsSetPending DEF Return, IInv
<1> HIDE DEF a, k, row, inserted
<1>6. agent' \in [Agents -> AgentRows] /\ stale' \subseteq Agents
  BY <1>1, <1>2, <1>3 DEF IInv, TypeOK
<1>7. AssignedCanSign'
  <2>1. CASE inserted
    BY <1>1, <1>2, <1>3, <2>1 DEF IInv, AssignedCanSign, Active, TypeOK
  <2>2. CASE ~inserted
    BY <1>1, <2>2 DEF IInv, AssignedCanSign, Active
  <2> QED BY <2>1, <2>2
<1> QED BY <1>1, <1>4, <1>5, <1>6, <1>7, AgentsWritten

LEMMA RegisterStep ==
  ASSUME IInv, NEW a \in Agents, RegisterManagedAgent(a)
  PROVE  IInv'
<1>1. /\ agent' = [agent EXCEPT ![a].exists = TRUE]
      /\ UNCHANGED <<key, request, revoked, stale, chosen>>
  BY DEF RegisterManagedAgent
<1>2. agent' \in [Agents -> AgentRows] /\ \A x \in Agents : agent'[x].key = agent[x].key
  BY <1>1 DEF IInv, TypeOK, AgentRows
<1>3. AssignedCanSign'
  BY <1>1, <1>2 DEF IInv, AssignedCanSign, Active
<1>4. RequestsAreProper' /\ (SetPending => SetPending')
  BY <1>1 DEF IInv, RequestsAreProper, Proper, SetPending
<1> QED BY <1>1, <1>2, <1>3, <1>4, AgentsWritten DEF IInv, TypeOK

LEMMA SaveStep ==
  ASSUME IInv, NEW a \in Agents, NEW k \in Keys, SaveSigningKey(a, k)
  PROVE  IInv'
<1>1. /\ Active(k)
      /\ agent' = [agent EXCEPT ![a].key = k]
      /\ stale' = stale \ {a}
      /\ UNCHANGED <<key, request, revoked, chosen>>
  BY DEF SaveSigningKey
<1>2. /\ agent' \in [Agents -> AgentRows]
      /\ agent'[a].key = k
      /\ \A x \in Agents \ {a} : agent'[x] = agent[x]
  BY <1>1 DEF IInv, TypeOK, AgentRows
<1>3. AssignedCanSign'
  BY <1>1, <1>2 DEF IInv, AssignedCanSign, Active
<1>4. RequestsAreProper' /\ (SetPending => SetPending')
  BY <1>1 DEF IInv, RequestsAreProper, Proper, SetPending
<1> QED BY <1>1, <1>2, <1>3, <1>4, AgentsWritten DEF IInv, TypeOK

LEMMA DeleteStep ==
  ASSUME IInv, NEW a \in Agents, DeleteManagedAgent(a)
  PROVE  IInv'
<1>1. /\ agent' = [agent EXCEPT ![a] = NoRow]
      /\ stale' = stale \ {a}
      /\ UNCHANGED <<key, request, revoked, chosen>>
  BY DEF DeleteManagedAgent
<1>2. NoRow \in AgentRows /\ NoRow.key = NoKey
  BY DEF NoRow, AgentRows
<1>3. /\ agent' \in [Agents -> AgentRows]
      /\ agent'[a].key = NoKey
      /\ \A x \in Agents \ {a} : agent'[x] = agent[x]
  BY <1>1, <1>2 DEF IInv, TypeOK
<1>4. AssignedCanSign'
  BY <1>1, <1>3 DEF IInv, AssignedCanSign, Active
<1>5. RequestsAreProper' /\ (SetPending => SetPending')
  BY <1>1 DEF IInv, RequestsAreProper, Proper, SetPending
<1> QED BY <1>1, <1>3, <1>4, <1>5, AgentsWritten DEF IInv, TypeOK

\* Breaking off between the two writes is what chosen forgets.
LEMMA BreakOffStep ==
  ASSUME IInv, NEW r \in Requests, BreakOff(r)
  PROVE  IInv'
<1>1. /\ Return(r)
      /\ chosen' = (chosen /\ request[r].pc # "set")
      /\ UNCHANGED <<key, agent, revoked, stale>>
  BY DEF BreakOff
<1>2. CASE request[r].pc # "set"
  <2>1. chosen' = chosen
    BY <1>1, <1>2, Zenon DEF IInv, TypeOK
  <2> QED BY <1>1, <1>2, <2>1, ReturnReads, ReadsKeep DEF IInv
<1>3. CASE request[r].pc = "set"
  <2>1. chosen' = FALSE
    BY <1>1, <1>3, Zenon
  <2>2. request' \in [Requests -> RequestType] /\ RequestsAreProper'
    BY <1>1, ReturnTyped DEF IInv
  <2>3. TypeOK'
    BY <1>1, <2>1, <2>2 DEF IInv, TypeOK
  <2>4. RevokedIsSealed' /\ AssignedCanSign' /\ DefaultHasRow'
    BY <1>1 DEF IInv, RevokedIsSealed, AssignedCanSign, Active, DefaultHasRow, Exists
  <2>5. DefaultIsKept'
    BY <1>1, <2>1 DEF IInv, DefaultIsKept
  <2> QED BY <2>2, <2>3, <2>4, <2>5 DEF IInv
<1> QED BY <1>2, <1>3

\* The reads of a server action, and the end of a call.
LEMMA ReadStep ==
  ASSUME IInv, NEW r \in Requests,
         \/ \E k \in Keys, s \in Statuses : ReadForStatus(r, k, s)
         \/ \E k \in Keys : ReadForDefault(r, k) \/ LoadRegistrationClients(r, k)
         \/ \E k \in Keys, a \in Agents : ReadForRegistration(r, a, k)
         \/ \E a \in Agents : ReadAgent(r, a)
         \/ ReadKey(r)
         \/ EndCall(r)
  PROVE  IInv'
<1> "active" \in Statuses
  BY DEF Statuses
<1>1. ASSUME NEW k \in Keys, NEW s \in Statuses, ReadForStatus(r, k, s) PROVE Reads(r)
  BY <1>1, AwaitReads DEF ReadForStatus, IInv
<1>2. ASSUME NEW k \in Keys, ReadForDefault(r, k) PROVE Reads(r)
  BY <1>2, AwaitReads DEF ReadForDefault, IInv
<1>3. ASSUME NEW k \in Keys, LoadRegistrationClients(r, k) PROVE Reads(r)
  BY <1>3, AwaitReads DEF LoadRegistrationClients, IInv
<1>4. ASSUME NEW k \in Keys, NEW a \in Agents, ReadForRegistration(r, a, k) PROVE Reads(r)
  BY <1>4, AwaitReads DEF ReadForRegistration, IInv
<1>5. ASSUME NEW a \in Agents, ReadAgent(r, a) PROVE Reads(r)
  <2>1. agent[a].key \in Keys
    BY <1>5 DEF ReadAgent, IInv, TypeOK, AgentRows
  <2> QED BY <1>5, <2>1, AwaitReads DEF ReadAgent, IInv
<1>6. ASSUME ReadKey(r) PROVE Reads(r)
  <2>1. CASE Return(r)
    BY <1>6, <2>1, ReturnReads DEF ReadKey, IInv
  <2>2. CASE request' = [request EXCEPT ![r].pc = "sign"]
    <3> DEFINE x == [request[r] EXCEPT !.pc = "sign"]
    <3>1. x \in RequestType /\ Proper(x)
      BY <1>6 DEF ReadKey, IInv, TypeOK, RequestType, RequestsAreProper, Proper
    <3>2. request' = [request EXCEPT ![r] = x]
      BY <2>2
    <3> HIDE DEF x
    <3> QED BY <1>6, <3>1, <3>2 DEF ReadKey, Reads
  <2> QED BY <1>6, <2>1, <2>2 DEF ReadKey
<1>7. ASSUME EndCall(r) PROVE Reads(r)
  BY <1>7, ReturnReads DEF EndCall, IInv
<1> QED BY <1>1, <1>2, <1>3, <1>4, <1>5, <1>6, <1>7, ReadsKeep

-----------------------------------------------------------------------------

LEMMA KeysInvariant == Spec => []IInv
<1>1. Init => IInv
  <2> SUFFICES ASSUME Init PROVE IInv
    OBVIOUS
  <2>1. Unborn \in KeyRows /\ ~Unborn.isDefault
    BY DEF Unborn, KeyRows
  <2>2. NoRow \in AgentRows /\ NoRow.key = NoKey
    BY DEF NoRow, AgentRows
  <2>3. Free \in RequestType /\ Proper(Free)
    BY DEF Free, RequestType, Statuses, Proper
  <2>4. TypeOK /\ RequestsAreProper
    BY <2>1, <2>2, <2>3 DEF Init, TypeOK, RequestsAreProper
  <2>5. RevokedIsSealed /\ AssignedCanSign /\ DefaultHasRow
    BY <2>1, <2>2 DEF Init, RevokedIsSealed, AssignedCanSign, DefaultHasRow
  <2>6. DefaultIsKept
    BY <2>1 DEF Init, DefaultIsKept
  <2> QED BY <2>4, <2>5, <2>6 DEF IInv
<1>2. IInv /\ [Next]_vars => IInv'
  <2> SUFFICES ASSUME IInv, [Next]_vars PROVE IInv'
    OBVIOUS
  <2>1. ASSUME NEW k \in Keys, GenerateKey(k) \/ RemoveKey(k) PROVE IInv'
    BY <2>1, GenerateStep, RemoveStep
  <2>2. ASSUME NEW a \in Agents,
               \/ RegisterManagedAgent(a)
               \/ DeleteManagedAgent(a)
               \/ \E k \in Keys : SaveSigningKey(a, k)
        PROVE  IInv'
    BY <2>2, RegisterStep, DeleteStep, SaveStep
  <2>3. ASSUME NEW r \in Requests,
               \/ WriteStatus(r) \/ ClearDefault(r) \/ WriteDefault(r)
               \/ InsertAgent(r) \/ BreakOff(r)
        PROVE  IInv'
    BY <2>3, WriteStatusStep, ClearStep, SetStep, InsertStep, BreakOffStep
  <2>4. CASE UNCHANGED vars
    <3>1. TypeOK' /\ RequestsAreProper' /\ RevokedIsSealed' /\ DefaultHasRow'
      BY <2>4 DEF vars, IInv, TypeOK, RequestsAreProper, Proper, RevokedIsSealed,
                  DefaultHasRow, Exists
    <3>2. AssignedCanSign' /\ DefaultIsKept'
      BY <2>4 DEF vars, IInv, AssignedCanSign, Active, DefaultIsKept, HasDefault
    <3> QED BY <3>1, <3>2 DEF IInv
  <2> QED BY <2>1, <2>2, <2>3, <2>4, ReadStep DEF Next
<1> QED BY <1>1, <1>2, PTL DEF Spec

\* Every row of D1 and every server action has its type.
THEOREM KeyTypes == Spec => []TypeOK
<1>1. IInv => TypeOK
  BY DEF IInv
<1> QED BY <1>1, KeysInvariant, PTL

\* No other server action takes its key from an Agent: what is disabled, deleted or
\* removed is in use nowhere, except by an Agent that was inserted too late.
THEOREM AgentKeepsKey == Spec => []AssignedCanSign
<1>1. IInv => AssignedCanSign
  BY DEF IInv
<1> QED BY <1>1, KeysInvariant, PTL

\* There is one default, unless a change of it is going on or has broken off.
THEOREM OneDefault == Spec => []DefaultIsKept
<1>1. IInv => DefaultIsKept
  BY DEF IInv
<1> QED BY <1>1, KeysInvariant, PTL

\* No key that was deleted ever signs again, whatever status it is given.
THEOREM DeletedIsDead == Spec => DeletedNeverSigns
<1>1. IInv /\ [Next]_vars =>
        [\A r \in Requests :
           request[r].pc # "sign" /\ request'[r].pc = "sign" =>
             request'[r].key \notin revoked]_vars
  <2> SUFFICES ASSUME IInv, Next, NEW r \in Requests,
                      request[r].pc # "sign", request'[r].pc = "sign"
               PROVE  request'[r].key \notin revoked
    BY DEF vars
  <2>1. ASSUME NEW q \in Requests, NEW x, request' = [request EXCEPT ![q] = x], x.pc # "sign"
        PROVE  FALSE
    BY <2>1 DEF IInv, TypeOK
  <2>2. Free.pc # "sign"
    BY DEF Free
  <2>3. ASSUME UNCHANGED request PROVE FALSE
    BY <2>3
  <2>4. ASSUME NEW q \in Requests, Return(q) PROVE FALSE
    BY <2>1, <2>2, <2>4 DEF Return
  <2>5. ASSUME NEW q \in Requests, NEW pc, NEW k, NEW a, NEW s, pc # "sign", Await(q, pc, k, a, s)
        PROVE  FALSE
    BY <2>1, <2>5 DEF Await
  <2>6. ASSUME NEW k \in Keys, CanSign(k) PROVE k \notin revoked
    BY <2>6 DEF CanSign, IInv, RevokedIsSealed
  <2>7. ASSUME NEW q \in Requests, ReadKey(q) PROVE request'[r].key \notin revoked
    <3>1. request' = [request EXCEPT ![q].pc = "sign"] /\ CanSign(request[q].key)
      BY <2>4, <2>7 DEF ReadKey
    <3>2. request[q].key \in Keys
      BY <2>7 DEF ReadKey, IInv, RequestsAreProper, Proper
    <3>3. r = q /\ request'[r].key = request[q].key
      BY <3>1 DEF IInv, TypeOK, RequestType
    <3> QED BY <2>6, <3>1, <3>2, <3>3
  <2>8. ASSUME NEW q \in Requests, NEW k \in Keys, LoadRegistrationClients(q, k)
        PROVE  request'[r].key \notin revoked
    <3>1. CanSign(k) /\ Await(q, "sign", k, NoAgent, "active")
      BY <2>8 DEF LoadRegistrationClients
    <3>2. r = q /\ request'[r].key = k
      BY <3>1 DEF Await, IInv, TypeOK
    <3> QED BY <2>6, <3>1, <3>2
  <2>9. ASSUME NEW k \in Keys, GenerateKey(k) \/ RemoveKey(k) PROVE FALSE
    BY <2>3, <2>9 DEF GenerateKey, RemoveKey
  <2>10. ASSUME NEW a \in Agents, NEW k \in Keys, SaveSigningKey(a, k) PROVE FALSE
    BY <2>3, <2>10 DEF SaveSigningKey
  <2>11. ASSUME NEW a \in Agents, RegisterManagedAgent(a) \/ DeleteManagedAgent(a)
         PROVE  FALSE
    BY <2>3, <2>11 DEF RegisterManagedAgent, DeleteManagedAgent
  <2>13. ASSUME NEW q \in Requests, NEW k \in Keys, ReadForDefault(q, k) PROVE FALSE
    BY <2>5, <2>13 DEF ReadForDefault
  <2>14. ASSUME NEW q \in Requests, NEW k \in Keys, NEW s \in Statuses, ReadForStatus(q, k, s)
         PROVE FALSE
    BY <2>5, <2>14 DEF ReadForStatus
  <2>15. ASSUME NEW q \in Requests, NEW k \in Keys, NEW a \in Agents, ReadForRegistration(q, a, k)
         PROVE FALSE
    BY <2>5, <2>15 DEF ReadForRegistration
  <2>16. ASSUME NEW q \in Requests, NEW a \in Agents, ReadAgent(q, a) PROVE FALSE
    BY <2>5, <2>16 DEF ReadAgent
  <2>17. ASSUME NEW q \in Requests,
                \/ WriteStatus(q) \/ WriteDefault(q) \/ InsertAgent(q)
                \/ EndCall(q) \/ BreakOff(q)
         PROVE  FALSE
    BY <2>4, <2>17 DEF WriteStatus, WriteDefault, InsertAgent, EndCall, BreakOff
  <2>18. ASSUME NEW q \in Requests, ClearDefault(q) PROVE FALSE
    <3>1. request' = [request EXCEPT ![q].pc = "set"]
      BY <2>18 DEF ClearDefault
    <3> QED BY <3>1 DEF IInv, TypeOK, RequestType
  <2> QED BY <2>7, <2>8, <2>9, <2>10, <2>11, <2>13, <2>14, <2>15, <2>16, <2>17, <2>18 DEF Next
<1> QED BY <1>1, KeysInvariant, PTL DEF Spec, DeletedNeverSigns

-----------------------------------------------------------------------------
(* One server action at a time *)

\* The status of a row changes by a generation, a removal or an update alone.
LEMMA StatusWritten ==
  ASSUME IInv, [Next]_vars, NEW k \in Keys
  PROVE  \/ key'[k].status = key[k].status
         \/ key[k].status = "unborn" /\ key'[k].status = "active"
         \/ key'[k].status = "removed"
         \/ \E r \in Requests : /\ request[r].pc = "status" /\ request[r].key = k
                                /\ key'[k].status = request[r].status
                                /\ request[r].status = "active" => key[k].status # "deleted"
                                /\ request' = [request EXCEPT ![r] = Free]
<1>1. ASSUME NEW x \in Keys, GenerateKey(x)
      PROVE  \/ key'[k].status = key[k].status
             \/ key[k].status = "unborn" /\ key'[k].status = "active"
  BY <1>1 DEF GenerateKey, IInv, TypeOK
<1>2. ASSUME NEW x \in Keys, RemoveKey(x)
      PROVE  key'[k].status = key[k].status \/ key'[k].status = "removed"
  BY <1>2 DEF RemoveKey, IInv, TypeOK, Unborn
<1>3. ASSUME NEW r \in Requests, WriteStatus(r)
      PROVE  \/ key'[k].status = key[k].status
             \/ /\ request[r].pc = "status" /\ request[r].key = k
                /\ key'[k].status = request[r].status
                /\ request[r].status = "active" => key[k].status # "deleted"
                /\ request' = [request EXCEPT ![r] = Free]
  <2> DEFINE new == WithStatus(request[r].key, request[r].status)
  <2>1. /\ request[r].pc = "status"
        /\ request' = [request EXCEPT ![r] = Free]
        /\ \/ key' = key
           \/ /\ key' = [key EXCEPT ![request[r].key] = new]
              /\ request[r].status = "active" => key[request[r].key].status # "deleted"
    BY <1>3 DEF WriteStatus, Return, CanActivate
  <2>2. new.status = request[r].status
    BY DEF WithStatus
  <2> HIDE DEF new
  <2> QED BY <2>1, <2>2 DEF IInv, TypeOK
<1>4. ASSUME NEW r \in Requests, ClearDefault(r) PROVE key'[k].status = key[k].status
  BY <1>4 DEF ClearDefault, IInv, TypeOK, KeyRows
<1>5. ASSUME NEW r \in Requests, WriteDefault(r) PROVE key'[k].status = key[k].status
  <2>1. key' = key \/ key' = [key EXCEPT ![request[r].key].isDefault = TRUE]
    BY <1>5 DEF WriteDefault
  <2> QED BY <2>1 DEF IInv, TypeOK, KeyRows
<1>6. ASSUME NEW a \in Agents,
             RegisterManagedAgent(a) \/ DeleteManagedAgent(a) \/ \E x \in Keys : SaveSigningKey(a, x)
      PROVE  key'[k].status = key[k].status
  BY <1>6 DEF RegisterManagedAgent, DeleteManagedAgent, SaveSigningKey
<1>7. ASSUME NEW r \in Requests, NEW x \in Keys,
             \/ \E s \in Statuses : ReadForStatus(r, x, s)
             \/ ReadForDefault(r, x) \/ LoadRegistrationClients(r, x)
             \/ \E a \in Agents : ReadForRegistration(r, a, x)
      PROVE  key'[k].status = key[k].status
  BY <1>7 DEF ReadForStatus, ReadForDefault, LoadRegistrationClients, ReadForRegistration
<1>8. ASSUME NEW r \in Requests,
             \/ InsertAgent(r) \/ ReadKey(r) \/ EndCall(r) \/ BreakOff(r)
             \/ \E a \in Agents : ReadAgent(r, a)
      PROVE  key'[k].status = key[k].status
  BY <1>8 DEF InsertAgent, ReadKey, EndCall, BreakOff, ReadAgent
<1>9. CASE UNCHANGED vars
  BY <1>9 DEF vars
<1> QED BY ZenonT(60), <1>1, <1>2, <1>3, <1>4, <1>5, <1>6, <1>7, <1>8, <1>9 DEF Next

\* A server action comes to hold a status by reading the row it will update.
LEMMA StatusRead ==
  ASSUME IInv, [Next]_vars, NEW r \in Requests
  PROVE  \/ request'[r] = request[r]
         \/ request'[r].pc # "status"
         \/ /\ key' = key
            /\ key[request'[r].key].status = "deleted" => request'[r].status = "deleted"
<1>1. ASSUME NEW q \in Requests, Return(q) PROVE request'[r] = request[r] \/ request'[r].pc # "status"
  BY <1>1 DEF Return, Free, IInv, TypeOK
<1>2. ASSUME NEW q \in Requests, NEW k, NEW a, NEW s,
             NEW pc \in {"clear", "insert", "load", "sign"}, Await(q, pc, k, a, s)
      PROVE  request'[r] = request[r] \/ request'[r].pc # "status"
  BY <1>2 DEF Await, IInv, TypeOK
<1>3. ASSUME NEW q \in Requests, NEW pc \in {"set", "sign"}, request' = [request EXCEPT ![q].pc = pc]
      PROVE  request'[r] = request[r] \/ request'[r].pc # "status"
  BY <1>3 DEF IInv, TypeOK, RequestType
<1>4. ASSUME NEW q \in Requests, NEW k \in Keys, NEW s \in Statuses, ReadForStatus(q, k, s)
      PROVE  \/ request'[r] = request[r]
             \/ /\ key' = key
                /\ key[request'[r].key].status = "deleted" => request'[r].status = "deleted"
  BY <1>4 DEF ReadForStatus, Await, IInv, TypeOK
<1>5. ASSUME NEW k \in Keys, GenerateKey(k) \/ RemoveKey(k) PROVE request'[r] = request[r]
  BY <1>5 DEF GenerateKey, RemoveKey
<1>6. ASSUME NEW a \in Agents,
             RegisterManagedAgent(a) \/ DeleteManagedAgent(a) \/ \E x \in Keys : SaveSigningKey(a, x)
      PROVE  request'[r] = request[r]
  BY <1>6 DEF RegisterManagedAgent, DeleteManagedAgent, SaveSigningKey
<1>7. ASSUME NEW q \in Requests, NEW k \in Keys,
             \/ ReadForDefault(q, k) \/ LoadRegistrationClients(q, k)
             \/ \E a \in Agents : ReadForRegistration(q, a, k)
      PROVE  request'[r] = request[r] \/ request'[r].pc # "status"
  BY <1>2, <1>7 DEF ReadForDefault, LoadRegistrationClients, ReadForRegistration
<1>8. ASSUME NEW q \in Requests,
             \/ WriteStatus(q) \/ WriteDefault(q) \/ InsertAgent(q) \/ EndCall(q) \/ BreakOff(q)
             \/ ClearDefault(q) \/ ReadKey(q) \/ \E a \in Agents : ReadAgent(q, a)
      PROVE  request'[r] = request[r] \/ request'[r].pc # "status"
  BY <1>1, <1>2, <1>3, <1>8
  DEF WriteStatus, WriteDefault, InsertAgent, EndCall, BreakOff, ClearDefault, ReadKey, ReadAgent
<1>9. CASE UNCHANGED vars
  BY <1>9 DEF vars
<1> QED BY ZenonT(60), <1>4, <1>5, <1>6, <1>7, <1>8, <1>9 DEF Next

\* The update of a deleted key repeats its deletion.
UpdatesAreCurrent ==
  \A r \in Requests :
    request[r].pc = "status" /\ key[request[r].key].status = "deleted" =>
      request[r].status = "deleted"

\* With one server action at a time a deleted key keeps its status until its row is
\* removed: it takes a second one, which deletes the key between the read and the
\* update of the first, to bring it back.
THEOREM DeletedIsFinalAlone ==
  ASSUME \A q, r \in Requests : q = r
  PROVE  Spec => DeletedIsFinal
<1>1. Init => UpdatesAreCurrent
  BY DEF Init, Free, UpdatesAreCurrent
<1>2. IInv /\ UpdatesAreCurrent /\ [Next]_vars => UpdatesAreCurrent'
  <2> SUFFICES ASSUME IInv, UpdatesAreCurrent, [Next]_vars, NEW r \in Requests,
                      request'[r].pc = "status", key'[request'[r].key].status = "deleted"
               PROVE  request'[r].status = "deleted"
    BY DEF UpdatesAreCurrent
  <2>1. CASE request'[r] = request[r]
    <3> DEFINE k == request[r].key
    <3>1. k \in Keys
      BY <2>1 DEF IInv, RequestsAreProper, Proper
    <3>2. ASSUME NEW q \in Requests, request' = [request EXCEPT ![q] = Free] PROVE FALSE
      BY <2>1, <3>2 DEF IInv, TypeOK, Free
    <3>3. key'[k].status = key[k].status
      BY <2>1, <3>1, <3>2, StatusWritten
    <3> QED BY <2>1, <3>3 DEF UpdatesAreCurrent
  <2> QED BY <2>1, StatusRead
<1>3. IInv /\ UpdatesAreCurrent /\ [Next]_vars =>
        [\A k \in Keys : key[k].status = "deleted" => key'[k].status \in {"deleted", "removed"}]_vars
  BY StatusWritten DEF UpdatesAreCurrent
<1> QED BY <1>1, <1>2, <1>3, KeysInvariant, PTL DEF Spec, DeletedIsFinal

\* Whatever else runs at once, the statement that activates a key never finds a
\* deleted one: such a key is disabled first, by an update that read it earlier.
DeletedIsNotActivated ==
  [][\A k \in Keys : key[k].status = "deleted" => key'[k].status # "active"]_vars

THEOREM NoDirectActivation == Spec => DeletedIsNotActivated
<1>1. IInv /\ [Next]_vars =>
        [\A k \in Keys : key[k].status = "deleted" => key'[k].status # "active"]_vars
  BY StatusWritten
<1> QED BY <1>1, KeysInvariant, PTL DEF Spec, DeletedIsNotActivated
=============================================================================
