-------------------------- MODULE AdmissionProofs ---------------------------
(***************************************************************************)
(* Theorems about Admission with the walks of Directory: for any callers,  *)
(* any number of clients and conversations, and any limits.                *)
(***************************************************************************)
EXTENDS Directory, AccessProofs, FiniteSetTheorems

-----------------------------------------------------------------------------
(* The inductive invariant *)

Status == {"none", "active", "suspended"}

Starting == {"count", "targets", "insert"}

Value == {<<>>} \cup UNION {OwnerSubs(k) : k \in Caller}

AgentRow == [status : Status, owner : Value, writers : SUBSET {Writer(k) : k \in Caller}]

ConversationRow ==
  [state : ConversationState \cup {"none"}, type : ConversationType,
   by : Sub \cup {<<>>}, present : SUBSET Sub, created : Nat, expires : Nat]

RegisterRequest == [pc : {"register"}, sub : Sub, owner : Value,
                    writer : {Writer(k) : k \in Caller}, status : Status]

StartRequest == [pc : Starting, sub : Sub, to : SUBSET Sub, type : ConversationType,
                 created : Nat]

\* A row has a status as soon as it is one.
TablesTyped ==
  /\ agents \in [Sub -> AgentRow]
  /\ \A s \in Sub : agents[s].status = "none" => agents[s] = NoAgent
  /\ conversations \in [Conv -> ConversationRow]
  /\ clock \in Nat

Registration(k, s, w) == s \in SubsOf(k) /\ w = Writer(k)

\* What a request carries over its awaits: a registration is of a caller that may use
\* the sub, and has read a row that does not vanish; a start is of a registered agent.
RequestTyped(c) ==
  /\ "pc" \in DOMAIN client[c]
  /\ At(c, "register") =>
       /\ client[c] \in RegisterRequest
       /\ \E k \in Caller : Registration(k, client[c].sub, client[c].writer)
       /\ client[c].status # "none" => agents[client[c].sub] # NoAgent
  /\ client[c].pc \in Starting =>
       /\ client[c] \in StartRequest
       /\ agents[client[c].sub] # NoAgent
  /\ At(c, "insert") =>
       /\ \A t \in client[c].to : agents[t] # NoAgent
       /\ PairwiseAdmitted(client[c].type, client[c].to \cup {client[c].sub}, OwnersOf)

RequestsTyped == DOMAIN client = Client /\ \A c \in Client : RequestTyped(c)

\* Every row was written by callers of its sub.
WritersKnown ==
  \A s \in Sub : \A w \in agents[s].writers : \E k \in Caller : Registration(k, s, w)

Members(id) == {conversations[id].by} \cup conversations[id].present

MembersRegistered ==
  \A id \in Started : \A m \in Members(id) : m \in Sub /\ agents[m] # NoAgent

Inv == /\ TablesTyped /\ RequestsTyped /\ WritersKnown
       /\ MembersRegistered /\ AdmittedStayAdmitted

\* No step takes a registered agent away or gives it another owner.
OwnersKept ==
  \A s \in Sub : agents[s] # NoAgent =>
    agents'[s] # NoAgent /\ agents'[s].owner = agents[s].owner

-----------------------------------------------------------------------------
(* Admission under frozen owners *)

\* What was admitted stays admitted, for the members that are left.
LEMMA AdmissionKept ==
  ASSUME OwnersKept, NEW type, NEW M \in SUBSET Sub, NEW N \in SUBSET M,
         \A m \in M : agents[m] # NoAgent,
         PairwiseAdmitted(type, M, OwnersOf)
  PROVE  PairwiseAdmitted(type, N, OwnersOf')
<1>1. \A m \in M : OwnersOf'[m] = OwnersOf[m]
  BY DEF OwnersKept, OwnersOf
<1> QED BY <1>1 DEF PairwiseAdmitted, MayAssign

\* The initial tables satisfy the invariant.
LEMMA InvInit == Init => Inv
<1> SUFFICES ASSUME Init PROVE Inv
  OBVIOUS
<1>1. NoAgent \in AgentRow
  BY DEF NoAgent, AgentRow, Status, Value
<1>2. NoConversation \in ConversationRow
  BY DEF NoConversation, ConversationRow, ConversationType
<1>3. TablesTyped
  BY <1>1, <1>2 DEF Init, TablesTyped
<1>4. RequestsTyped
  BY DEF Init, RequestsTyped, RequestTyped, Idle, At, Starting
<1>5. WritersKnown
  BY DEF Init, WritersKnown, NoAgent
<1>6. Started = {}
  BY DEF Init, Started
<1> QED BY <1>3, <1>4, <1>5, <1>6 DEF Inv, MembersRegistered, AdmittedStayAdmitted

-----------------------------------------------------------------------------
(* What the steps do to the tables *)

\* A page or a count reads only.
LEMMA WalkShape ==
  ASSUME Inv, DirectoryNext
  PROVE  /\ UNCHANGED tables
         /\ \E c \in Client : \E w : /\ client' = [client EXCEPT ![c] = w]
                                     /\ "pc" \in DOMAIN w
                                     /\ w.pc \in {"page", "total", "end"}
<1> DEFINE Walks(c) == \E w : /\ client' = [client EXCEPT ![c] = w]
                              /\ "pc" \in DOMAIN w
                              /\ w.pc \in {"page", "total", "end"}
<1>1. ASSUME NEW c \in Client, NEW kind, NEW reader, NEW filter,
             StartWalk(c, kind, reader, filter)
      PROVE  Walks(c) /\ UNCHANGED tables
  <2>1. PICK limit \in Limits :
          client' = [client EXCEPT ![c] =
            [pc |-> "page", kind |-> kind, reader |-> reader, filter |-> filter,
             limit |-> limit, cursor |-> {}, seen |-> {}, returned |-> 0, total |-> 0,
             since |-> Listed([kind |-> kind, reader |-> reader, filter |-> filter])]]
    BY <1>1 DEF StartWalk
  <2> DEFINE w == [pc |-> "page", kind |-> kind, reader |-> reader, filter |-> filter,
                   limit |-> limit, cursor |-> {}, seen |-> {}, returned |-> 0,
                   total |-> 0, since |-> Listed([kind |-> kind, reader |-> reader,
                                                  filter |-> filter])]
  <2>2. "pc" \in DOMAIN w /\ w.pc = "page"
    OBVIOUS
  <2>3. client' = [client EXCEPT ![c] = w]
    BY <2>1
  <2> HIDE DEF w
  <2> QED BY <1>1, <2>2, <2>3 DEF StartWalk
<1>2. ASSUME NEW c \in Client, ListAgents(c)
      PROVE  Walks(c) /\ UNCHANGED tables
  BY <1>1, <1>2 DEF ListAgents
<1>3. ASSUME NEW c \in Client, ListConversations(c)
      PROVE  Walks(c) /\ UNCHANGED tables
  BY <1>1, <1>3 DEF ListConversations
<1>4. ASSUME NEW c \in Client
      PROVE  "pc" \in DOMAIN client[c]
  BY <1>4 DEF Inv, RequestsTyped, RequestTyped
<1>5. ASSUME NEW c \in Client, Page(c)
      PROVE  Walks(c) /\ UNCHANGED tables
  <2> DEFINE w    == client[c]
             size == PageSize(w.limit)
             rows == FirstRows(w.kind, Ahead(w), size + 1)
             page == FirstRows(w.kind, rows, size)
             next == [w EXCEPT !.seen = @ \cup page, !.returned = @ + Cardinality(page),
                               !.cursor = IF rows = page THEN {}
                                          ELSE page \ FirstRows(w.kind, page, size - 1),
                               !.pc = IF w.kind = "agents" THEN "total"
                                      ELSE IF rows = page THEN "end" ELSE "page"]
  <2>1. client' = [client EXCEPT ![c] = next] /\ UNCHANGED tables
    BY <1>5 DEF Page
  <2> HIDE DEF rows, page
  <2>2. "pc" \in DOMAIN next /\ next.pc \in {"page", "total", "end"}
    BY <1>4
  <2> HIDE DEF next
  <2> QED BY <2>1, <2>2
<1>6. ASSUME NEW c \in Client, CountAgents(c)
      PROVE  Walks(c) /\ UNCHANGED tables
  <2> DEFINE w    == client[c]
             next == [w EXCEPT !.total = Cardinality(Registered),
                               !.pc = IF w.cursor = {} THEN "end" ELSE "page"]
  <2>1. client' = [client EXCEPT ![c] = next] /\ UNCHANGED tables
    BY <1>6 DEF CountAgents
  <2>2. "pc" \in DOMAIN next /\ next.pc \in {"page", "total", "end"}
    BY <1>4
  <2> HIDE DEF next
  <2> QED BY <2>1, <2>2
<1> QED BY <1>2, <1>3, <1>5, <1>6 DEF DirectoryNext

\* The disjuncts of CommitRegister that write, with what they write.
LEMMA RegisterWrites ==
  ASSUME Inv, NEW c \in Client, CommitRegister(c)
  PROVE  /\ UNCHANGED <<conversations, clock>> /\ client' = [client EXCEPT ![c] = Idle]
         /\ \/ UNCHANGED agents
            \/ \E row \in AgentRow : \E k \in Caller :
                 LET s == client[c].sub
                 IN  /\ s \in Sub /\ agents' = [agents EXCEPT ![s] = row]
                     /\ row.status # "none" /\ row # NoAgent
                     /\ agents[s] # NoAgent => row.owner = agents[s].owner
                     /\ Registration(k, s, Writer(k))
                     /\ row.writers \subseteq agents[s].writers \cup {Writer(k)}
<1> DEFINE r   == client[c]
           s   == r.sub
           row == agents[s]
<1>1. /\ r \in RegisterRequest
      /\ r.status # "none" => row # NoAgent
      /\ \E k \in Caller : Registration(k, s, r.writer)
  BY DEF CommitRegister, Inv, RequestsTyped, RequestTyped
<1>2. PICK k \in Caller : Registration(k, s, r.writer)
  BY <1>1
<1>3. r.writer = Writer(k) /\ Registration(k, s, Writer(k))
  BY <1>2 DEF Registration
<1>4. /\ s \in Sub /\ r.owner \in Value /\ r.status \in Status
      /\ row \in AgentRow
  BY <1>1 DEF RegisterRequest, Inv, TablesTyped
<1>5. /\ row.status \in Status /\ row.owner \in Value
      /\ row.writers \in SUBSET {Writer(j) : j \in Caller}
  BY <1>4 DEF AgentRow
<1>6. UNCHANGED <<conversations, clock>> /\ client' = [client EXCEPT ![c] = Idle]
  BY DEF CommitRegister, Done
<1>7. NoAgent.status = "none"
  BY DEF NoAgent
<1>8. CASE row = NoAgent /\ agents' = [agents EXCEPT ![s] =
                    [status |-> "active", owner |-> r.owner, writers |-> {r.writer}]]
  <2> DEFINE new == [status |-> "active", owner |-> r.owner, writers |-> {r.writer}]
  <2>1. new \in AgentRow
    BY <1>3, <1>4 DEF AgentRow, Status
  <2>2. new.status = "active" /\ new.writers = {Writer(k)} /\ new # NoAgent
    BY <1>3, <1>7
  <2>3. agents' = [agents EXCEPT ![s] = new]
    BY <1>8
  <2> HIDE DEF new
  <2>4. new.status # "none" /\ new.writers \subseteq agents[s].writers \cup {Writer(k)}
    BY <2>2
  <2> QED BY <1>3, <1>4, <1>6, <1>8, <2>1, <2>2, <2>3, <2>4
<1>9. CASE r.status # "none" /\ agents' = [agents EXCEPT ![s] = Rewrite(r, row)]
  <2> DEFINE new == Rewrite(r, row)
  <2>0. row.status # "none"
    BY <1>1, <1>4, <1>9 DEF Inv, TablesTyped
  <2>1. /\ new.status = IF r.status = "active" THEN row.status ELSE "active"
        /\ new.owner = row.owner /\ new.writers = row.writers \cup {r.writer}
    BY DEF Rewrite
  <2>2. new \in AgentRow
    BY <1>3, <1>5, <2>0 DEF AgentRow, Status, Rewrite
  <2>3. agents' = [agents EXCEPT ![s] = new]
    BY <1>9
  <2> HIDE DEF new
  <2>4. new.status # "none" /\ new # NoAgent
    BY <1>7, <2>0, <2>1
  <2>5. new.writers \subseteq agents[s].writers \cup {Writer(k)} /\ new.owner = agents[s].owner
    BY <1>3, <2>1
  <2> QED BY <1>3, <1>4, <1>6, <2>2, <2>3, <2>4, <2>5
<1> QED BY <1>6, <1>8, <1>9 DEF CommitRegister

\* The rows of agents through every step.
LEMMA AgentsKept ==
  ASSUME Inv, [Next]_vars
  PROVE  /\ OwnersKept /\ WritersKnown'
         /\ agents' \in [Sub -> AgentRow]
         /\ \A s \in Sub : agents'[s].status = "none" => agents'[s] = NoAgent
<1>0. TablesTyped /\ WritersKnown
  BY DEF Inv
<1>1. CASE UNCHANGED agents
  BY <1>0, <1>1 DEF OwnersKept, WritersKnown, TablesTyped
<1>2. ASSUME NEW c \in Client, CommitRegister(c), ~UNCHANGED agents
      PROVE  /\ OwnersKept /\ WritersKnown'
             /\ agents' \in [Sub -> AgentRow]
             /\ \A s \in Sub : agents'[s].status = "none" => agents'[s] = NoAgent
  <2> DEFINE s == client[c].sub
  <2>1. PICK row \in AgentRow, k \in Caller :
          /\ s \in Sub /\ agents' = [agents EXCEPT ![s] = row]
          /\ row.status # "none" /\ row # NoAgent
          /\ agents[s] # NoAgent => row.owner = agents[s].owner
          /\ Registration(k, s, Writer(k))
          /\ row.writers \subseteq agents[s].writers \cup {Writer(k)}
    BY <1>2, RegisterWrites
  <2> HIDE DEF s
  <2>2. agents'[s] = row /\ \A t \in Sub : t # s => agents'[t] = agents[t]
    BY <1>0, <2>1 DEF TablesTyped
  <2>3. OwnersKept
    BY <2>1, <2>2 DEF OwnersKept
  <2>4. ASSUME NEW t \in Sub, NEW w \in agents'[t].writers
        PROVE  \E j \in Caller : Registration(j, t, w)
    <3>1. CASE t # s
      BY <1>0, <2>2, <2>4, <3>1 DEF WritersKnown
    <3>2. CASE t = s
      BY <1>0, <2>1, <2>2, <2>4, <3>2 DEF WritersKnown
    <3> QED BY <3>1, <3>2
  <2>5. WritersKnown'
    BY <2>4 DEF WritersKnown
  <2> QED BY <1>0, <2>1, <2>2, <2>3, <2>5 DEF TablesTyped
<1>3. ASSUME NEW s \in Sub, SuspendAgent(s)
      PROVE  /\ OwnersKept /\ WritersKnown'
             /\ agents' \in [Sub -> AgentRow]
             /\ \A t \in Sub : agents'[t].status = "none" => agents'[t] = NoAgent
  <2> DEFINE row == [agents[s] EXCEPT !.status = "suspended"]
  <2>1. agents[s] \in AgentRow /\ agents' = [agents EXCEPT ![s].status = "suspended"]
    BY <1>0, <1>3 DEF TablesTyped, SuspendAgent
  <2>2. /\ row \in AgentRow /\ row.status = "suspended"
        /\ row.owner = agents[s].owner /\ row.writers = agents[s].writers
    BY <2>1 DEF AgentRow, Status
  <2>3. agents'[s] = row /\ \A t \in Sub : t # s => agents'[t] = agents[t]
    BY <1>0, <2>1 DEF TablesTyped
  <2>4. agents' \in [Sub -> AgentRow]
    <3>1. agents' = [agents EXCEPT ![s] = row]
      BY <2>1
    <3> HIDE DEF row
    <3> QED BY <1>0, <2>2, <3>1 DEF TablesTyped
  <2> HIDE DEF row
  <2>5. row # NoAgent
    BY <2>2 DEF NoAgent
  <2> QED BY <1>0, <2>2, <2>3, <2>4, <2>5 DEF TablesTyped, OwnersKept, WritersKnown
<1>4. DirectoryNext => UNCHANGED agents
  BY WalkShape DEF tables
<1>5. \A c \in Client : Register(c) \/ StartConversation(c) \/ EnforceStartRateLimit(c)
        \/ ResolveTargets(c) \/ InsertConversation(c) \/ Abort(c) => UNCHANGED agents
  BY DEF Register, StartConversation, EnforceStartRateLimit, ResolveTargets,
     InsertConversation, Abort, tables
<1>6. /\ \A id \in Conv : Close(id) => UNCHANGED agents
      /\ \A id \in Conv, s \in Sub : Exit(id, s) => UNCHANGED agents
      /\ Tick => UNCHANGED agents
      /\ UNCHANGED vars => UNCHANGED agents
  BY DEF Close, Exit, Tick, vars, tables
<1> QED BY <1>1, <1>2, <1>3, <1>4, <1>5, <1>6 DEF Next, AdmissionNext

\* What a step may do to the conversations: nothing, one more with members that were
\* admitted, or one that goes on without a member or closes.
LEMMA ConversationsKept ==
  ASSUME Inv, [Next]_vars
  PROVE  /\ conversations' \in [Conv -> ConversationRow] /\ clock' \in Nat
         /\ \A id \in Conv : conversations'[id] # NoConversation =>
              \/ /\ id \in Started
                 /\ conversations'[id].type = conversations[id].type
                 /\ conversations'[id].by = conversations[id].by
                 /\ conversations'[id].present \subseteq conversations[id].present
              \/ \E c \in Client :
                   /\ At(c, "insert")
                   /\ conversations'[id].type = client[c].type
                   /\ conversations'[id].by = client[c].sub
                   /\ conversations'[id].present = client[c].to \cup {client[c].sub}
<1> DEFINE Goal ==
         /\ conversations' \in [Conv -> ConversationRow] /\ clock' \in Nat
         /\ \A id \in Conv : conversations'[id] # NoConversation =>
              \/ /\ id \in Started
                 /\ conversations'[id].type = conversations[id].type
                 /\ conversations'[id].by = conversations[id].by
                 /\ conversations'[id].present \subseteq conversations[id].present
              \/ \E c \in Client :
                   /\ At(c, "insert")
                   /\ conversations'[id].type = client[c].type
                   /\ conversations'[id].by = client[c].sub
                   /\ conversations'[id].present = client[c].to \cup {client[c].sub}
<1>0. conversations \in [Conv -> ConversationRow] /\ clock \in Nat
  BY DEF Inv, TablesTyped
<1>1. CASE UNCHANGED conversations /\ clock' \in Nat
  BY <1>0, <1>1 DEF Started
<1>2. ASSUME NEW c \in Client, InsertConversation(c) PROVE Goal
  <2>1. /\ client[c] \in StartRequest /\ At(c, "insert")
    BY <1>2 DEF InsertConversation, Inv, RequestsTyped, RequestTyped, At, Starting
  <2>2. PICK id \in Conv \ Started, state \in {"active", "completed"}, life \in Lifetimes :
          conversations' = [conversations EXCEPT ![id] =
              [state |-> state, type |-> client[c].type, by |-> client[c].sub,
               present |-> client[c].to \cup {client[c].sub},
               created |-> client[c].created, expires |-> clock + life]]
    BY <1>2 DEF InsertConversation
  <2> DEFINE row == [state |-> state, type |-> client[c].type, by |-> client[c].sub,
                     present |-> client[c].to \cup {client[c].sub},
                     created |-> client[c].created, expires |-> clock + life]
  <2>3. clock + life \in Nat
    BY <1>0, BoundsAssumption
  <2>4. /\ client[c].type \in ConversationType /\ client[c].sub \in Sub
        /\ client[c].to \subseteq Sub /\ client[c].created \in Nat
    BY <2>1 DEF StartRequest
  <2>5. row \in ConversationRow
    BY <2>3, <2>4 DEF ConversationRow, ConversationState
  <2>6. /\ row.type = client[c].type /\ row.by = client[c].sub
        /\ row.present = client[c].to \cup {client[c].sub}
    OBVIOUS
  <2>7. conversations' = [conversations EXCEPT ![id] = row] /\ clock' = clock
    BY <1>2, <2>2 DEF InsertConversation
  <2> HIDE DEF row
  <2>8. /\ conversations' \in [Conv -> ConversationRow] /\ conversations'[id] = row
        /\ \A i \in Conv : i # id => conversations'[i] = conversations[i]
    BY <1>0, <2>5, <2>7
  <2> QED BY <1>0, <2>1, <2>6, <2>7, <2>8 DEF Started
<1>3. ASSUME NEW id \in Conv, NEW row \in ConversationRow, clock' = clock,
             conversations' = [conversations EXCEPT ![id] = row],
             id \in Started,
             row.type = conversations[id].type, row.by = conversations[id].by,
             row.present \subseteq conversations[id].present
      PROVE  Goal
  <2>1. /\ conversations' \in [Conv -> ConversationRow] /\ conversations'[id] = row
        /\ \A i \in Conv : i # id => conversations'[i] = conversations[i]
    BY <1>0, <1>3
  <2> QED BY <1>0, <1>3, <2>1 DEF Started
<1>4. ASSUME NEW id \in Conv, Close(id) PROVE Goal
  <2> DEFINE new == IF Overdue(id) THEN "expired" ELSE "completed"
             row == [conversations[id] EXCEPT !.state = new]
  <2>1. conversations[id] \in ConversationRow /\ conversations[id].state = "active"
    BY <1>0, <1>4 DEF Close
  <2>2. new \in ConversationState
    BY DEF ConversationState
  <2> HIDE DEF new
  <2>3. /\ row \in ConversationRow /\ row.type = conversations[id].type
        /\ row.by = conversations[id].by /\ row.present = conversations[id].present
    BY <2>1, <2>2 DEF ConversationRow
  <2>4. conversations' = [conversations EXCEPT ![id] = row] /\ clock' = clock
    BY <1>4 DEF Close, new
  <2> HIDE DEF row
  <2>5. id \in Started
    BY <2>1 DEF Started, NoConversation
  <2> QED BY <1>3, <2>3, <2>4, <2>5
<1>5. ASSUME NEW id \in Conv, NEW s \in Sub, Exit(id, s) PROVE Goal
  <2> DEFINE left == conversations[id].present \ {s}
             row  == [conversations[id] EXCEPT !.present = left]
  <2>1. conversations[id] \in ConversationRow /\ s \in conversations[id].present
    BY <1>0, <1>5 DEF Exit
  <2>2. left \in SUBSET Sub /\ left \subseteq conversations[id].present
    BY <2>1 DEF ConversationRow
  <2>3. conversations' = [conversations EXCEPT ![id] = row] /\ clock' = clock
    BY <1>5 DEF Exit
  <2> HIDE DEF left
  <2>4. /\ row \in ConversationRow /\ row.type = conversations[id].type
        /\ row.by = conversations[id].by /\ row.present = left
    BY <2>1, <2>2 DEF ConversationRow
  <2> HIDE DEF row
  <2>5. id \in Started
    BY <2>1 DEF Started, NoConversation
  <2> QED BY <1>3, <2>2, <2>3, <2>4, <2>5
<1>6. DirectoryNext => UNCHANGED conversations /\ clock' \in Nat
  BY <1>0, WalkShape DEF tables
<1>7. \A c \in Client : Register(c) \/ CommitRegister(c) \/ StartConversation(c)
        \/ EnforceStartRateLimit(c) \/ ResolveTargets(c) \/ Abort(c)
          => UNCHANGED conversations /\ clock' \in Nat
  BY <1>0 DEF Register, CommitRegister, StartConversation, EnforceStartRateLimit,
     ResolveTargets, Abort, tables
<1>8. /\ \A s \in Sub : SuspendAgent(s) => UNCHANGED conversations /\ clock' \in Nat
      /\ Tick => UNCHANGED conversations /\ clock' \in Nat
      /\ UNCHANGED vars => UNCHANGED conversations /\ clock' \in Nat
  BY <1>0 DEF SuspendAgent, Tick, vars, tables
<1> HIDE DEF Goal
<1>9. Goal
  BY <1>1, <1>2, <1>4, <1>5, <1>6, <1>7, <1>8 DEF Next, AdmissionNext, Goal
<1> QED BY <1>9 DEF Goal

\* The members through every step.
LEMMA MembersKept ==
  ASSUME Inv, [Next]_vars
  PROVE  MembersRegistered' /\ AdmittedStayAdmitted'
<1> SUFFICES ASSUME NEW id \in Conv, conversations'[id] # NoConversation
             PROVE  LET members == {conversations'[id].by} \cup conversations'[id].present
                    IN  /\ \A m \in members : m \in Sub /\ agents'[m] # NoAgent
                        /\ PairwiseAdmitted(conversations'[id].type, members, OwnersOf')
  BY DEF MembersRegistered, AdmittedStayAdmitted, Members, Started
<1> DEFINE members == {conversations'[id].by} \cup conversations'[id].present
<1>0. OwnersKept
  BY AgentsKept
<1>1. CASE /\ id \in Started
           /\ conversations'[id].type = conversations[id].type
           /\ conversations'[id].by = conversations[id].by
           /\ conversations'[id].present \subseteq conversations[id].present
  <2>1. members \subseteq Members(id)
    BY <1>1 DEF Members
  <2>2. /\ \A m \in Members(id) : m \in Sub /\ agents[m] # NoAgent
        /\ PairwiseAdmitted(conversations[id].type, Members(id), OwnersOf)
    BY <1>1 DEF Inv, MembersRegistered, AdmittedStayAdmitted, Members
  <2> HIDE DEF members
  <2>3. \A m \in members : m \in Sub /\ agents'[m] # NoAgent
    BY <1>0, <2>1, <2>2 DEF OwnersKept
  <2>4. PairwiseAdmitted(conversations[id].type, members, OwnersOf')
    <3>1. Members(id) \in SUBSET Sub /\ members \in SUBSET Members(id)
      BY <2>1, <2>2
    <3> QED BY <1>0, <2>2, <3>1, AdmissionKept
  <2> QED BY <1>1, <2>3, <2>4 DEF members
<1>2. ASSUME NEW c \in Client, At(c, "insert"),
             conversations'[id].type = client[c].type,
             conversations'[id].by = client[c].sub,
             conversations'[id].present = client[c].to \cup {client[c].sub}
      PROVE  /\ \A m \in members : m \in Sub /\ agents'[m] # NoAgent
             /\ PairwiseAdmitted(conversations'[id].type, members, OwnersOf')
  <2> DEFINE M == client[c].to \cup {client[c].sub}
  <2>1. /\ client[c] \in StartRequest /\ agents[client[c].sub] # NoAgent
        /\ \A t \in client[c].to : agents[t] # NoAgent
        /\ PairwiseAdmitted(client[c].type, M, OwnersOf)
    BY <1>2 DEF Inv, RequestsTyped, RequestTyped, At, Starting
  <2>2. members = M
    BY <1>2
  <2>3. M \in SUBSET Sub
    BY <2>1 DEF StartRequest
  <2>4. \A m \in M : agents[m] # NoAgent
    BY <2>1
  <2> HIDE DEF M, members
  <2>5. PairwiseAdmitted(client[c].type, M, OwnersOf')
    BY <1>0, <2>1, <2>3, <2>4, AdmissionKept
  <2>6. \A m \in M : m \in Sub /\ agents'[m] # NoAgent
    BY <1>0, <2>3, <2>4 DEF OwnersKept
  <2> QED BY <1>2, <2>2, <2>5, <2>6
<1> QED BY <1>1, <1>2, ConversationsKept

\* A request that no step touches carries what it carried.
LEMMA UntouchedRequest ==
  ASSUME Inv, OwnersKept, NEW d \in Client, client'[d] = client[d]
  PROVE  RequestTyped(d)'
<1>1. RequestTyped(d)
  BY DEF Inv, RequestsTyped
<1>2. CASE At(d, "register")
  <2>1. /\ client[d] \in RegisterRequest
        /\ \E k \in Caller : Registration(k, client[d].sub, client[d].writer)
        /\ client[d].status # "none" => agents[client[d].sub] # NoAgent
        /\ client[d].sub \in Sub
    BY <1>1, <1>2 DEF RequestTyped, RegisterRequest
  <2>2. client[d].status # "none" => agents'[client[d].sub] # NoAgent
    BY <2>1 DEF OwnersKept
  <2> QED BY <1>1, <1>2, <2>1, <2>2 DEF RequestTyped, At, Starting, Registration
<1>3. CASE client[d].pc \in Starting
  <2>1. /\ client[d] \in StartRequest /\ agents[client[d].sub] # NoAgent
        /\ client[d].sub \in Sub /\ client[d].to \subseteq Sub
    BY <1>1, <1>3 DEF RequestTyped, StartRequest
  <2>2. agents'[client[d].sub] # NoAgent
    BY <2>1 DEF OwnersKept
  <2> DEFINE M == client[d].to \cup {client[d].sub}
  <2>3. CASE At(d, "insert")
    <3>1. /\ \A t \in client[d].to : agents[t] # NoAgent
          /\ PairwiseAdmitted(client[d].type, M, OwnersOf)
      BY <1>1, <2>3 DEF RequestTyped
    <3>2. M \in SUBSET Sub /\ \A m \in M : agents[m] # NoAgent
      BY <2>1, <3>1
    <3>3. \A t \in client[d].to : agents'[t] # NoAgent
      BY <2>1, <3>1 DEF OwnersKept
    <3> HIDE DEF M
    <3>4. PairwiseAdmitted(client[d].type, M, OwnersOf')
      BY <3>1, <3>2, AdmissionKept
    <3> QED BY <1>1, <2>1, <2>2, <2>3, <3>3, <3>4 DEF RequestTyped, At, Starting, M
  <2>4. CASE ~At(d, "insert")
    BY <1>1, <1>3, <2>1, <2>2, <2>4 DEF RequestTyped, At, Starting
  <2> QED BY <2>3, <2>4
<1>4. CASE ~At(d, "register") /\ client[d].pc \notin Starting
  BY <1>1, <1>4 DEF RequestTyped, At, Starting
<1> QED BY <1>2, <1>3, <1>4

\* A client without a call carries nothing, and neither does one that walks.
LEMMA FreeRequest ==
  ASSUME NEW d \in Client, "pc" \in DOMAIN (client'[d]),
         client'[d].pc \in {"idle", "page", "total", "end"}
  PROVE  RequestTyped(d)'
BY DEF RequestTyped, At, Starting

\* What the requests carry through every step.
LEMMA RequestsKept ==
  ASSUME Inv, [Next]_vars
  PROVE  RequestsTyped'
<1>0. OwnersKept
  BY AgentsKept
<1>1. DOMAIN client = Client /\ \A c \in Client : RequestTyped(c)
  BY DEF Inv, RequestsTyped
<1> DEFINE Goal == DOMAIN client' = Client /\ \A d \in Client : RequestTyped(d)'
<1>2. ASSUME NEW c \in Client, NEW w, client' = [client EXCEPT ![c] = w],
             RequestTyped(c)'
      PROVE  Goal
  <2>1. DOMAIN client' = Client /\ \A d \in Client : d # c => client'[d] = client[d]
    BY <1>1, <1>2
  <2> QED BY <1>0, <1>2, <2>1, UntouchedRequest
<1>3. ASSUME NEW c \in Client, Done(c) PROVE Goal
  <2>1. client'[c] = Idle /\ client' = [client EXCEPT ![c] = Idle]
    BY <1>1, <1>3 DEF Done
  <2>2. "pc" \in DOMAIN Idle /\ Idle.pc = "idle"
    BY DEF Idle
  <2>3. RequestTyped(c)'
    BY <2>1, <2>2, FreeRequest
  <2> QED BY <1>2, <2>1, <2>3
<1>4. ASSUME DirectoryNext PROVE Goal
  <2> DEFINE Walked(c, w) == /\ client' = [client EXCEPT ![c] = w]
                             /\ "pc" \in DOMAIN w
                             /\ w.pc \in {"page", "total", "end"}
  <2>0. PICK c \in Client : \E w : Walked(c, w)
    BY <1>4, WalkShape
  <2>1. PICK w : Walked(c, w)
    BY <2>0
  <2>2. client'[c] = w
    BY <1>1, <2>1
  <2>3. RequestTyped(c)'
    BY <2>1, <2>2, FreeRequest
  <2> QED BY <1>2, <2>1, <2>3
<1>5. ASSUME NEW c \in Client, Register(c) PROVE Goal
  <2>0. PICK k \in Caller : \E sub \in SubsOf(k), owner \in OwnerSubs(k) :
          client' = [client EXCEPT ![c] =
                       [pc |-> "register", sub |-> sub, owner |-> owner,
                        writer |-> Writer(k), status |-> agents[sub].status]]
    BY <1>5 DEF Register
  <2>1. PICK sub \in SubsOf(k), owner \in OwnerSubs(k) :
          client' = [client EXCEPT ![c] =
                       [pc |-> "register", sub |-> sub, owner |-> owner,
                        writer |-> Writer(k), status |-> agents[sub].status]]
    BY <2>0
  <2> DEFINE w == [pc |-> "register", sub |-> sub, owner |-> owner,
                   writer |-> Writer(k), status |-> agents[sub].status]
  <2>2. /\ sub \in Sub /\ owner \in Value /\ Registration(k, sub, Writer(k))
    BY DEF Sub, Value, Registration
  <2>3. agents[sub].status \in Status /\ agents' = agents
    BY <1>5, <2>2 DEF Inv, TablesTyped, AgentRow, Register, tables
  <2>4. agents[sub].status # "none" => agents[sub] # NoAgent
    BY DEF NoAgent
  <2>5. w \in RegisterRequest
    BY <2>2, <2>3 DEF RegisterRequest
  <2>6. /\ "pc" \in DOMAIN w /\ w.pc = "register" /\ w.sub = sub
        /\ w.writer = Writer(k) /\ w.status = agents[sub].status
    OBVIOUS
  <2>7. client' = [client EXCEPT ![c] = w]
    BY <2>1
  <2> HIDE DEF w
  <2>8. client'[c] = w
    BY <1>1, <2>7
  <2>9. RequestTyped(c)'
    BY <2>2, <2>3, <2>4, <2>5, <2>6, <2>8 DEF RequestTyped, At, Starting, Registration
  <2> QED BY <1>2, <2>7, <2>9
<1>6. ASSUME NEW c \in Client, StartConversation(c) PROVE Goal
  <2>0. PICK k \in Starters : \E sub \in SubsOf(k) :
          /\ agents[sub].status = "active"
          /\ \E to \in SUBSET (Sub \ {sub}), type \in StartedTypes :
               client' = [client EXCEPT ![c] =
                            [pc |-> "count", sub |-> sub, to |-> to, type |-> type,
                             created |-> clock]]
    BY <1>6 DEF StartConversation
  <2>1. PICK sub \in SubsOf(k) :
          /\ agents[sub].status = "active"
          /\ \E to \in SUBSET (Sub \ {sub}), type \in StartedTypes :
               client' = [client EXCEPT ![c] =
                            [pc |-> "count", sub |-> sub, to |-> to, type |-> type,
                             created |-> clock]]
    BY <2>0
  <2>2. PICK to \in SUBSET (Sub \ {sub}), type \in StartedTypes :
          client' = [client EXCEPT ![c] =
                       [pc |-> "count", sub |-> sub, to |-> to, type |-> type,
                        created |-> clock]]
    BY <2>1
  <2> DEFINE w == [pc |-> "count", sub |-> sub, to |-> to, type |-> type,
                   created |-> clock]
  <2>3. sub \in Sub /\ type \in ConversationType /\ clock \in Nat
    BY CallerAssumption, BoundsAssumption DEF Sub, Inv, TablesTyped
  <2>4. agents[sub] # NoAgent /\ agents' = agents
    BY <1>6, <2>1 DEF NoAgent, StartConversation, tables
  <2>5. w \in StartRequest
    BY <2>3 DEF StartRequest, Starting
  <2>6. "pc" \in DOMAIN w /\ w.pc = "count" /\ w.sub = sub
    OBVIOUS
  <2>7. client' = [client EXCEPT ![c] = w]
    BY <2>2
  <2> HIDE DEF w
  <2>8. client'[c] = w
    BY <1>1, <2>7
  <2>9. RequestTyped(c)'
    BY <2>4, <2>5, <2>6, <2>8 DEF RequestTyped, At, Starting
  <2> QED BY <1>2, <2>7, <2>9
<1>7. ASSUME NEW c \in Client, NEW pc \in {"targets", "insert"}, Goto(c, pc),
             client[c].pc \in Starting, UNCHANGED agents,
             pc = "insert" =>
               /\ \A t \in client[c].to : agents[t] # NoAgent
               /\ PairwiseAdmitted(client[c].type, client[c].to \cup {client[c].sub},
                                   OwnersOf)
      PROVE  Goal
  <2> DEFINE w == [client[c] EXCEPT !.pc = pc]
  <2>1. client[c] \in StartRequest /\ agents[client[c].sub] # NoAgent
    BY <1>1, <1>7 DEF RequestTyped
  <2>2. /\ w \in StartRequest /\ "pc" \in DOMAIN w /\ w.pc = pc
        /\ w.sub = client[c].sub /\ w.to = client[c].to /\ w.type = client[c].type
    BY <1>7, <2>1 DEF StartRequest, Starting
  <2>3. client' = [client EXCEPT ![c] = w]
    BY <1>7 DEF Goto
  <2> HIDE DEF w
  <2>4. client'[c] = w
    BY <1>1, <2>3
  <2>5. OwnersOf' = OwnersOf
    BY <1>7 DEF OwnersOf
  <2>6. RequestTyped(c)'
    BY <1>7, <2>1, <2>2, <2>4, <2>5 DEF RequestTyped, At, Starting
  <2> QED BY <1>2, <2>3, <2>6
<1>8. ASSUME NEW c \in Client, EnforceStartRateLimit(c) PROVE Goal
  <2>1. client[c].pc \in Starting /\ UNCHANGED agents
    BY <1>8 DEF EnforceStartRateLimit, At, Starting, tables
  <2> QED BY <1>3, <1>7, <1>8, <2>1 DEF EnforceStartRateLimit
<1>9. ASSUME NEW c \in Client, ResolveTargets(c) PROVE Goal
  <2>1. client[c].pc \in Starting /\ UNCHANGED agents
    BY <1>9 DEF ResolveTargets, At, Starting, tables
  <2>2. \A t \in Sub : agents[t].status = "active" => agents[t] # NoAgent
    BY DEF NoAgent
  <2>3. client[c].to \subseteq Sub
    BY <1>1, <2>1 DEF RequestTyped, StartRequest
  <2>4. \/ Done(c)
        \/ /\ Goto(c, "insert")
           /\ \A t \in client[c].to : agents[t] # NoAgent
           /\ PairwiseAdmitted(client[c].type, client[c].to \cup {client[c].sub}, OwnersOf)
    BY <1>9, <2>2, <2>3 DEF ResolveTargets
  <2> QED BY <1>3, <1>7, <2>1, <2>4
<1>10. \A c \in Client : CommitRegister(c) \/ InsertConversation(c) \/ Abort(c) => Done(c)
  BY DEF CommitRegister, InsertConversation, Abort
<1>11. ASSUME UNCHANGED client PROVE Goal
  BY <1>0, <1>1, <1>11, UntouchedRequest
<1>12. /\ \A s \in Sub : SuspendAgent(s) => UNCHANGED client
       /\ \A id \in Conv : Close(id) => UNCHANGED client
       /\ \A id \in Conv, s \in Sub : Exit(id, s) => UNCHANGED client
       /\ Tick => UNCHANGED client
       /\ UNCHANGED vars => UNCHANGED client
  BY DEF SuspendAgent, Close, Exit, Tick, vars
<1> HIDE DEF Goal
<1>13. Goal
  BY <1>3, <1>4, <1>5, <1>6, <1>8, <1>9, <1>10, <1>11, <1>12 DEF Next, AdmissionNext
<1> QED BY <1>13 DEF Goal, RequestsTyped

\* The invariant is inductive.
LEMMA InvNext == ASSUME Inv, [Next]_vars PROVE Inv'
<1>1. TablesTyped'
  BY AgentsKept, ConversationsKept DEF TablesTyped
<1> QED BY <1>1, AgentsKept, RequestsKept, MembersKept DEF Inv

\* It holds in every reachable state.
LEMMA InvCorrect == Spec => []Inv
BY InvInit, InvNext, PTL DEF Spec

-----------------------------------------------------------------------------
(* The theorems *)

\* The owners compared by start_conversation compare ever after: no registration, with
\* whatever claim and at whatever moment, moves a member to another owner.
THEOREM AdmissionCorrect == Spec => []AdmittedStayAdmitted
<1>1. Inv => AdmittedStayAdmitted
  BY DEF Inv
<1> QED BY <1>1, InvCorrect, PTL

\* No two callers of comms_register share a row, whatever their claims and keys.
THEOREM CallersCorrect == Spec => []OneCallerPerAgent
<1>1. ASSUME Inv PROVE OneCallerPerAgent
  <2> SUFFICES ASSUME NEW s \in Sub, NEW w \in agents[s].writers, NEW v \in agents[s].writers
               PROVE  w.base = v.base /\ w.key = v.key
    BY DEF OneCallerPerAgent
  <2>1. PICK k \in Caller : s \in SubsOf(k) /\ w = Writer(k)
    BY <1>1 DEF Inv, WritersKnown, Registration
  <2>2. PICK j \in Caller : s \in SubsOf(j) /\ v = Writer(j)
    BY <1>1 DEF Inv, WritersKnown, Registration
  <2>3. CallerShape(k) /\ CallerShape(j)
    BY CallerAssumption
  <2>4. ResolvedIdentity(k.token) = ResolvedIdentity(j.token) /\ k.key = j.key
    BY <2>1, <2>2, <2>3, SubNamesCaller
  <2> QED BY <2>1, <2>2, <2>4 DEF Writer
<1> QED BY <1>1, InvCorrect, PTL

\* No agent token, with whatever claims and keys, registers an agent with an address.
THEOREM AddressesCorrect == Spec => []EmailAgentsAreInteractive
<1>1. ASSUME Inv PROVE EmailAgentsAreInteractive
  <2> SUFFICES ASSUME NEW s \in Sub, Contains(s, "@"), NEW w \in agents[s].writers
               PROVE  w.interactive
    BY DEF EmailAgentsAreInteractive
  <2>1. PICK k \in Caller : s \in SubsOf(k) /\ w = Writer(k)
    BY <1>1 DEF Inv, WritersKnown, Registration
  <2>2. IsInteractive(k.token)
    BY <2>1, CallerAssumption, AddressIsInteractive
  <2> QED BY <2>1, <2>2 DEF Writer
<1> QED BY <1>1, InvCorrect, PTL

\* A registration that read an active agent never lifts a suspension.
THEOREM LiftsCorrect == Spec => LiftsAreDeliberate
<1> DEFINE Lift(s) == agents[s].status = "suspended" /\ agents'[s].status = "active"
           Seen(s) == \E c \in Client : /\ At(c, "register") /\ client[c].sub = s
                                        /\ client[c].status = "suspended"
<1>1. ASSUME Inv, [Next]_vars, NEW s \in Sub, Lift(s) PROVE Seen(s)
  <2>0. agents \in [Sub -> AgentRow]
    BY <1>1 DEF Inv, TablesTyped
  <2>1. ~UNCHANGED agents
    BY <1>1
  <2>2. ASSUME NEW t \in Sub, SuspendAgent(t) PROVE FALSE
    <3>1. CASE t = s
      BY <1>1, <2>0, <2>2, <3>1 DEF SuspendAgent
    <3>2. CASE t # s
      BY <1>1, <2>0, <2>2, <3>2 DEF SuspendAgent
    <3> QED BY <3>1, <3>2
  <2>3. DirectoryNext => UNCHANGED agents
    BY <1>1, WalkShape DEF tables
  <2>4. \A c \in Client : Register(c) \/ StartConversation(c) \/ EnforceStartRateLimit(c)
          \/ ResolveTargets(c) \/ InsertConversation(c) \/ Abort(c) => UNCHANGED agents
    BY DEF Register, StartConversation, EnforceStartRateLimit, ResolveTargets,
       InsertConversation, Abort, tables
  <2>5. /\ \A id \in Conv : Close(id) => UNCHANGED agents
        /\ \A id \in Conv, t \in Sub : Exit(id, t) => UNCHANGED agents
        /\ Tick => UNCHANGED agents
        /\ UNCHANGED vars => UNCHANGED agents
    BY DEF Close, Exit, Tick, vars, tables
  <2>6. PICK c \in Client : CommitRegister(c)
    BY <1>1, <2>1, <2>2, <2>3, <2>4, <2>5 DEF Next, AdmissionNext
  <2> DEFINE r == client[c]
  <2>7. At(c, "register") /\ r \in RegisterRequest
    BY <1>1, <2>6 DEF CommitRegister, Inv, RequestsTyped, RequestTyped
  <2>8. r.sub \in Sub /\ r.status \in Status
    BY <2>7 DEF RegisterRequest
  <2>9. r.sub = s
    BY <1>1, <2>0, <2>6, <2>8 DEF CommitRegister
  <2>10. r.status # "none"
    BY <1>1, <2>6, <2>9 DEF CommitRegister, NoAgent
  <2>11. agents'[s].status = IF r.status = "active" THEN agents[s].status ELSE "active"
    <3>1. agents' = [agents EXCEPT ![s] = Rewrite(r, agents[s])]
      BY <2>6, <2>9, <2>10 DEF CommitRegister
    <3>2. agents'[s] = Rewrite(r, agents[s])
      BY <2>0, <3>1
    <3> QED BY <3>2 DEF Rewrite
  <2>12. r.status = "suspended"
    BY <1>1, <2>8, <2>10, <2>11 DEF Status
  <2> QED BY <2>7, <2>9, <2>12
<1>2. Inv /\ [Next]_vars => [\A s \in Sub : Lift(s) => Seen(s)]_<<tables, client>>
  BY <1>1
<1> QED BY <1>2, InvCorrect, PTL DEF Spec, LiftsAreDeliberate

-----------------------------------------------------------------------------
(* The start limit *)

\* The starts of s in flight that have passed the count.
Passed(s) == {c \in Client : client[c].pc \in {"targets", "insert"} /\ client[c].sub = s}

\* Both sets are finite.
LEMMA StartSets ==
  ASSUME NEW s
  PROVE  /\ IsFiniteSet(Passed(s)) /\ IsFiniteSet(RecentStarts(s))
         /\ Cardinality(Passed(s)) \in Nat /\ Cardinality(RecentStarts(s)) \in Nat
         /\ Cardinality(Passed(s)) <= Cardinality(Client) /\ Cardinality(Client) \in Nat
<1>1. Passed(s) \in SUBSET Client /\ RecentStarts(s) \in SUBSET Conv
  BY DEF Passed, RecentStarts, Started
<1> QED BY <1>1, FiniteAssumption, FS_Subset, FS_CardinalityType

\* To the starts of an agent a step does one of three things: it adds none, it lets one
\* pass the count below the limit, or it inserts one that had passed.
LEMMA StartShape ==
  ASSUME Inv, [Next]_vars, NEW s \in Sub
  PROVE  \/ Passed(s)' \subseteq Passed(s) /\ RecentStarts(s)' \subseteq RecentStarts(s)
         \/ /\ UnderStartLimit(s)
            /\ RecentStarts(s)' \subseteq RecentStarts(s)
         \/ \E c \in Passed(s), id \in Conv :
              /\ Passed(s)' \subseteq Passed(s) \ {c}
              /\ RecentStarts(s)' \subseteq RecentStarts(s) \cup {id}
<1> DEFINE Same   == Passed(s)' \subseteq Passed(s)
           Fewer  == RecentStarts(s)' \subseteq RecentStarts(s)
<1>0. /\ conversations \in [Conv -> ConversationRow] /\ clock \in Nat
      /\ DOMAIN client = Client /\ \A c \in Client : RequestTyped(c)
  BY DEF Inv, TablesTyped, RequestsTyped
\* The recent starts.
<1>1. ASSUME \A id \in Conv : \/ conversations'[id] = conversations[id]
                              \/ /\ id \in Started
                                 /\ conversations'[id].by = conversations[id].by
                                 /\ conversations'[id].created = conversations[id].created,
             clock' = clock \/ clock' = clock + 1
      PROVE  Fewer
  <2>1. ASSUME NEW id \in RecentStarts(s)' PROVE id \in RecentStarts(s)
    <3>1. /\ id \in Conv /\ conversations'[id] # NoConversation
          /\ conversations'[id].by = s /\ conversations'[id].created + Hour > clock'
      BY <2>1 DEF RecentStarts, Started
    <3>2. /\ id \in Started /\ conversations[id].by = s
          /\ conversations[id].created = conversations'[id].created
      BY <1>1, <3>1 DEF Started
    <3>3. conversations[id].created \in Nat
      BY <1>0, <3>1 DEF ConversationRow
    <3>4. conversations[id].created + Hour > clock
      BY <1>0, <1>1, <3>1, <3>2, <3>3, BoundsAssumption
    <3> QED BY <3>2, <3>4 DEF RecentStarts, Started
  <2> QED BY <2>1
\* The starts that have passed the count.
<1>2. ASSUME NEW c \in Client, NEW w, client' = [client EXCEPT ![c] = w],
             w.pc \notin {"targets", "insert"}
      PROVE  Passed(s)' \subseteq Passed(s) \ {c}
  BY <1>0, <1>2 DEF Passed
<1>3. ASSUME NEW c \in Client, Done(c) PROVE Passed(s)' \subseteq Passed(s) \ {c}
  <2>1. Idle.pc \notin {"targets", "insert"}
    BY DEF Idle
  <2> QED BY <1>2, <1>3, <2>1 DEF Done
<1>4. ASSUME NEW c \in Client, NEW pc, Goto(c, pc), client[c] \in StartRequest
      PROVE  /\ client'[c].sub = client[c].sub
             /\ \A d \in Client : d # c => client'[d] = client[d]
  BY <1>0, <1>4 DEF Goto, StartRequest
<1>5. ASSUME UNCHANGED client PROVE Same
  BY <1>5 DEF Passed
<1>6. ASSUME UNCHANGED conversations, UNCHANGED clock PROVE Fewer
  BY <1>1, <1>6
\* The steps.
<1>7. ASSUME DirectoryNext PROVE Same /\ Fewer
  BY <1>2, <1>6, <1>7, WalkShape DEF tables
<1>8. ASSUME NEW c \in Client, Register(c) PROVE Same /\ Fewer
  <2>1. PICK w : client' = [client EXCEPT ![c] = w] /\ w.pc = "register"
    <3>1. PICK k \in Caller : \E sub \in SubsOf(k), owner \in OwnerSubs(k) :
            client' = [client EXCEPT ![c] =
                         [pc |-> "register", sub |-> sub, owner |-> owner,
                          writer |-> Writer(k), status |-> agents[sub].status]]
      BY <1>8 DEF Register
    <3>2. PICK sub \in SubsOf(k), owner \in OwnerSubs(k) :
            client' = [client EXCEPT ![c] =
                         [pc |-> "register", sub |-> sub, owner |-> owner,
                          writer |-> Writer(k), status |-> agents[sub].status]]
      BY <3>1
    <3> DEFINE w == [pc |-> "register", sub |-> sub, owner |-> owner,
                     writer |-> Writer(k), status |-> agents[sub].status]
    <3>3. client' = [client EXCEPT ![c] = w] /\ w.pc = "register"
      BY <3>2
    <3> HIDE DEF w
    <3> QED BY <3>3
  <2> QED BY <1>2, <1>6, <1>8, <2>1 DEF Register, tables
<1>9. ASSUME NEW c \in Client, StartConversation(c) PROVE Same /\ Fewer
  <2>1. PICK w : client' = [client EXCEPT ![c] = w] /\ w.pc = "count"
    <3>1. PICK k \in Starters : \E sub \in SubsOf(k) :
            \E to \in SUBSET (Sub \ {sub}), type \in StartedTypes :
              client' = [client EXCEPT ![c] =
                           [pc |-> "count", sub |-> sub, to |-> to, type |-> type,
                            created |-> clock]]
      BY <1>9 DEF StartConversation
    <3>2. PICK sub \in SubsOf(k) :
            \E to \in SUBSET (Sub \ {sub}), type \in StartedTypes :
              client' = [client EXCEPT ![c] =
                           [pc |-> "count", sub |-> sub, to |-> to, type |-> type,
                            created |-> clock]]
      BY <3>1
    <3>3. PICK to \in SUBSET (Sub \ {sub}), type \in StartedTypes :
            client' = [client EXCEPT ![c] =
                         [pc |-> "count", sub |-> sub, to |-> to, type |-> type,
                          created |-> clock]]
      BY <3>2
    <3> DEFINE w == [pc |-> "count", sub |-> sub, to |-> to, type |-> type,
                     created |-> clock]
    <3>4. client' = [client EXCEPT ![c] = w] /\ w.pc = "count"
      BY <3>3
    <3> HIDE DEF w
    <3> QED BY <3>4
  <2> QED BY <1>2, <1>6, <1>9, <2>1 DEF StartConversation, tables
<1>10. ASSUME NEW c \in Client, EnforceStartRateLimit(c)
       PROVE  Fewer /\ (Same \/ UnderStartLimit(s))
  <2>1. Fewer
    BY <1>6, <1>10 DEF EnforceStartRateLimit, tables
  <2>2. CASE Done(c)
    BY <1>3, <2>1, <2>2
  <2>3. CASE UnderStartLimit(client[c].sub) /\ Goto(c, "targets")
    <3>1. client[c] \in StartRequest
      BY <1>0, <1>10 DEF EnforceStartRateLimit, RequestTyped, At, Starting
    <3>2. CASE client[c].sub = s
      BY <2>1, <2>3, <3>2
    <3>3. CASE client[c].sub # s
      BY <1>4, <2>1, <2>3, <3>1, <3>3 DEF Passed
    <3> QED BY <3>2, <3>3
  <2> QED BY <1>10, <2>2, <2>3 DEF EnforceStartRateLimit
<1>11. ASSUME NEW c \in Client, ResolveTargets(c) PROVE Same /\ Fewer
  <2>1. client[c].pc = "targets" /\ client[c] \in StartRequest
    BY <1>0, <1>11 DEF ResolveTargets, RequestTyped, At, Starting
  <2>2. Goto(c, "insert") \/ Done(c)
    BY <1>11 DEF ResolveTargets
  <2>3. Goto(c, "insert") => Same
    BY <1>4, <2>1 DEF Passed
  <2> QED BY <1>3, <1>6, <1>11, <2>2, <2>3 DEF ResolveTargets, tables
<1>12. ASSUME NEW c \in Client, InsertConversation(c)
       PROVE  \/ Same /\ Fewer
              \/ \E d \in Passed(s), id \in Conv :
                   /\ Passed(s)' \subseteq Passed(s) \ {d}
                   /\ RecentStarts(s)' \subseteq RecentStarts(s) \cup {id}
  <2>1. Passed(s)' \subseteq Passed(s) \ {c} /\ clock' = clock
    BY <1>3, <1>12 DEF InsertConversation
  <2>2. PICK id \in Conv \ Started, row \in ConversationRow :
          /\ conversations' = [conversations EXCEPT ![id] = row]
          /\ row.by = client[c].sub
    <3>1. PICK id \in Conv \ Started, state \in {"active", "completed"},
               life \in Lifetimes :
            conversations' = [conversations EXCEPT ![id] =
                [state |-> state, type |-> client[c].type, by |-> client[c].sub,
                 present |-> client[c].to \cup {client[c].sub},
                 created |-> client[c].created, expires |-> clock + life]]
      BY <1>12 DEF InsertConversation
    <3> DEFINE row == [state |-> state, type |-> client[c].type, by |-> client[c].sub,
                       present |-> client[c].to \cup {client[c].sub},
                       created |-> client[c].created, expires |-> clock + life]
    <3>2. client[c] \in StartRequest /\ clock + life \in Nat
      <4>1. client[c].pc = "insert"
        BY <1>12 DEF InsertConversation, At
      <4>2. client[c] \in StartRequest
        BY <1>0, <4>1 DEF RequestTyped, Starting
      <4>3. clock + life \in Nat
        BY <1>0, BoundsAssumption
      <4> QED BY <4>2, <4>3
    <3>3. row \in ConversationRow /\ row.by = client[c].sub
      <4>1. /\ client[c].type \in ConversationType /\ client[c].sub \in Sub
            /\ client[c].to \subseteq Sub /\ client[c].created \in Nat
        BY <3>2 DEF StartRequest
      <4>2. state \in ConversationState \cup {"none"}
        BY DEF ConversationState
      <4>3. client[c].to \cup {client[c].sub} \subseteq Sub
        BY <4>1
      <4>4. row \in ConversationRow
        BY <3>2, <4>1, <4>2, <4>3 DEF ConversationRow
      <4>5. row.by = client[c].sub
        OBVIOUS
      <4> QED BY <4>4, <4>5
    <3>4. conversations' = [conversations EXCEPT ![id] = row]
      BY <3>1
    <3> HIDE DEF row
    <3> QED BY <3>3, <3>4
  <2>3. conversations'[id] = row /\ \A i \in Conv : i # id => conversations'[i] = conversations[i]
    BY <1>0, <2>2
  <2>4. RecentStarts(s)' \subseteq RecentStarts(s) \cup {id}
    BY <2>1, <2>3 DEF RecentStarts, Started
  <2>5. CASE client[c].sub = s
    <3>1. c \in Passed(s)
      BY <1>12, <2>5 DEF InsertConversation, At, Passed
    <3> QED BY <2>1, <2>4, <3>1
  <2>6. CASE client[c].sub # s
    <3>1. id \notin RecentStarts(s)'
      BY <2>2, <2>3, <2>6 DEF RecentStarts
    <3> QED BY <2>1, <2>4, <3>1
  <2> QED BY <2>5, <2>6
<1>13. ASSUME NEW c \in Client, CommitRegister(c) \/ Abort(c) PROVE Same /\ Fewer
  <2>1. Done(c) /\ UNCHANGED <<conversations, clock>>
    BY <1>13 DEF CommitRegister, Abort, tables
  <2> QED BY <1>3, <1>6, <2>1
<1>14. ASSUME NEW id \in Conv, NEW t \in Sub, Close(id) \/ Exit(id, t)
       PROVE  Same /\ Fewer
  <2>1. client' = client /\ clock' = clock
    BY <1>14 DEF Close, Exit
  <2>2. id \in Started
    BY <1>14 DEF Close, Exit, Started, NoConversation
  <2>3. /\ conversations'[id].by = conversations[id].by
        /\ conversations'[id].created = conversations[id].created
        /\ \A i \in Conv : i # id => conversations'[i] = conversations[i]
    BY <1>0, <1>14 DEF Close, Exit, ConversationRow
  <2> QED BY <1>1, <1>5, <2>1, <2>2, <2>3
<1>15. ASSUME NEW t \in Sub, SuspendAgent(t) PROVE Same /\ Fewer
  BY <1>5, <1>6, <1>15 DEF SuspendAgent
<1>16. ASSUME Tick PROVE Same /\ Fewer
  BY <1>1, <1>5, <1>16 DEF Tick
<1>17. ASSUME UNCHANGED vars PROVE Same /\ Fewer
  BY <1>5, <1>6, <1>17 DEF vars, tables
<1>18. ASSUME NEW id \in Conv, Close(id) PROVE Same /\ Fewer
  BY <1>14, <1>18
<1> QED BY <1>7, <1>8, <1>9, <1>10, <1>11, <1>12, <1>13, <1>14, <1>15, <1>16, <1>17, <1>18
    DEF Next, AdmissionNext

\* Calls in flight overrun the limit by less than their number, at all times.
THEOREM StartsCorrect == Spec => []StartOvershootBounded
<1> DEFINE R(s) == Cardinality(RecentStarts(s))
           P(s) == Cardinality(Passed(s))
           Bound(s) == \/ Passed(s) = {} /\ RecentStarts(s) = {}
                       \/ R(s) + P(s) < MaxStarts + Cardinality(Client)
<1>1. StartOvershootBounded <=> \A s \in Sub : Bound(s)
  BY DEF StartOvershootBounded, Passed
<1>2. ASSUME Init PROVE \A s \in Sub : Bound(s)
  <2>1. \A s : Passed(s) = {} /\ RecentStarts(s) = {}
    BY <1>2 DEF Init, Passed, Idle, RecentStarts, Started
  <2> QED BY <2>1
<1>3. ASSUME Inv, [Next]_vars, NEW s \in Sub, Bound(s) PROVE Bound(s)'
  <2> DEFINE R1 == Cardinality(RecentStarts(s)')
             P1 == Cardinality(Passed(s)')
             N  == Cardinality(Client)
  <2>1. /\ IsFiniteSet(Passed(s)) /\ IsFiniteSet(RecentStarts(s))
        /\ P(s) \in Nat /\ R(s) \in Nat /\ N \in Nat
    BY StartSets
  <2>2. /\ P1 \in Nat /\ R1 \in Nat /\ P1 <= N
    <3>1. Passed(s)' \in SUBSET Client /\ RecentStarts(s)' \in SUBSET Conv
      BY DEF Passed, RecentStarts, Started
    <3> QED BY <3>1, FiniteAssumption, FS_Subset, FS_CardinalityType
  <2>3. MaxStarts \in Nat
    BY BoundsAssumption
  <2>4. CASE Passed(s)' \subseteq Passed(s) /\ RecentStarts(s)' \subseteq RecentStarts(s)
    <3>1. P1 <= P(s) /\ R1 <= R(s)
      BY <2>1, <2>4, FS_Subset
    <3>2. CASE Passed(s) = {} /\ RecentStarts(s) = {}
      BY <2>4, <3>2
    <3>3. CASE R(s) + P(s) < MaxStarts + N
      <4>1. R1 + P1 < MaxStarts + N
        BY <2>1, <2>2, <2>3, <3>1, <3>3
      <4> QED BY <4>1
    <3> QED BY <1>3, <3>2, <3>3
  <2>5. CASE UnderStartLimit(s) /\ RecentStarts(s)' \subseteq RecentStarts(s)
    <3>1. R1 <= R(s) /\ R(s) < MaxStarts
      BY <2>1, <2>5, FS_Subset DEF UnderStartLimit
    <3>2. R1 + P1 < MaxStarts + N
      BY <2>1, <2>2, <2>3, <3>1
    <3> QED BY <3>2
  <2>6. ASSUME NEW c \in Passed(s), NEW id \in Conv,
               Passed(s)' \subseteq Passed(s) \ {c},
               RecentStarts(s)' \subseteq RecentStarts(s) \cup {id}
        PROVE  Bound(s)'
    <3>1. P1 <= P(s) - 1
      <4>1. IsFiniteSet(Passed(s) \ {c}) /\ Cardinality(Passed(s) \ {c}) = P(s) - 1
        BY <2>1, <2>6, FS_RemoveElement
      <4> QED BY <2>6, <4>1, FS_Subset
    <3>2. R1 <= R(s) + 1
      <4>1. /\ IsFiniteSet(RecentStarts(s) \cup {id})
            /\ Cardinality(RecentStarts(s) \cup {id}) =
                 IF id \in RecentStarts(s) THEN R(s) ELSE R(s) + 1
        BY <2>1, FS_AddElement
      <4>2. R1 <= Cardinality(RecentStarts(s) \cup {id})
        BY <2>6, <4>1, FS_Subset
      <4>3. Cardinality(RecentStarts(s) \cup {id}) <= R(s) + 1
        BY <2>1, <4>1
      <4> QED BY <2>1, <2>2, <4>1, <4>2, <4>3
    <3>3. R(s) + P(s) < MaxStarts + N
      BY <1>3, <2>6
    <3>4. R1 + P1 < MaxStarts + N
      BY <2>1, <2>2, <2>3, <3>1, <3>2, <3>3
    <3> QED BY <3>4
  <2> QED BY <1>3, <2>4, <2>5, <2>6, StartShape
<1>4. Init => StartOvershootBounded
  BY <1>1, <1>2
<1>5. Inv /\ [Next]_vars /\ StartOvershootBounded => StartOvershootBounded'
  <2> SUFFICES ASSUME Inv, [Next]_vars, StartOvershootBounded PROVE StartOvershootBounded'
    OBVIOUS
  <2>1. \A s \in Sub : Bound(s)'
    BY <1>1, <1>3
  <2> QED BY <2>1 DEF StartOvershootBounded, Passed
<1> QED BY <1>4, <1>5, InvCorrect, PTL DEF Spec
=============================================================================
