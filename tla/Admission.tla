----------------------------- MODULE Admission ------------------------------
(***************************************************************************)
(* The tables agents and conversations under concurrent register and       *)
(* start_conversation calls.  Each call has a database session of its own; *)
(* a SELECT is a step that sees what is committed, the writes appear with  *)
(* the commit.  A row keeps the attributes a session first read of it, and *)
(* an UPDATE writes the attributes that were changed, not the whole row.   *)
(*                                                                         *)
(* created_at is now() of PostgreSQL, the time the transaction began.  The *)
(* rules on messages are in Board; here Abort stands for any refusal by    *)
(* them, and a conversation closes or loses a participant when some call   *)
(* outside this module makes it so.                                        *)
(***************************************************************************)
EXTENDS FiniteSets, Access, Policy

CONSTANTS
  Client,                \* what calls, one request at a time
  Caller,                \* pairs of a token and an agent_key
  Starters,              \* bound: the callers that start conversations
  Conv,                  \* bound: conversations ever started
  StartedTypes,          \* the conversation types they have
  MaxStarts,             \* MAX_CONVERSATION_STARTS_PER_HOUR
  Hour, MaxClock,        \* the window of that limit, and a bound of the time
  Lifetimes,             \* from the insert to expires_at, by default or as asked for
  Suspendable,           \* bound: the agents an operator suspends
  Leavers, Touched       \* bounds: the agents that leave, and the conversations that
                         \* close or are left

ASSUME CallerAssumption == /\ Starters \subseteq Caller
                           /\ \A k \in Caller : CallerShape(k)

ASSUME FiniteAssumption == IsFiniteSet(Client) /\ IsFiniteSet(Conv)

ASSUME BoundsAssumption == /\ Conv \subseteq Nat /\ MaxStarts \in Nat
                           /\ Hour \in Nat /\ MaxClock \in Nat
                           /\ Lifetimes \subseteq Nat
                           /\ StartedTypes \subseteq ConversationType

VARIABLES
  agents,                \* agents[sub]: its row and, not in the code, who wrote it
  conversations,         \* conversations[id]: its row
  clock,                 \* the time
  client                 \* client[c]: the request of a client

tables == <<agents, conversations, clock>>

Sub == UNION {SubsOf(k) : k \in Caller}

NoAgent == [status |-> "none", owner |-> <<>>, writers |-> {}]

\* present: the agents with an invited or active participant row.
NoConversation == [state |-> "none", type |-> "open", by |-> <<>>, present |-> {},
                   created |-> 0, expires |-> 0]

Idle == [pc |-> "idle"]

Init == /\ agents        = [s \in Sub |-> NoAgent]
        /\ conversations = [id \in Conv |-> NoConversation]
        /\ clock         = 0
        /\ client        = [c \in Client |-> Idle]

At(c, pc) == client[c].pc = pc

Goto(c, pc) == client' = [client EXCEPT ![c].pc = pc]

Done(c) == client' = [client EXCEPT ![c] = Idle]

Started == {id \in Conv : conversations[id] # NoConversation}

-----------------------------------------------------------------------------
(* register *)

Writer(k) == [base |-> ResolvedIdentity(k.token), key |-> k.key,
              interactive |-> IsInteractive(k.token)]

\* The tool up to the SELECT of the row.
Register(c) ==
  /\ At(c, "idle")
  /\ \E k \in Caller : \E sub \in SubsOf(k), owner \in OwnerSubs(k) :
       /\ Allowed(k.token, "comms_register")
       /\ client' = [client EXCEPT ![c] =
                       [pc |-> "register", sub |-> sub, owner |-> owner,
                        writer |-> Writer(k), status |-> agents[sub].status]]
  /\ UNCHANGED tables

\* Faulty variants of the next definition: the owner follows the claim, and the
\* status is written although it did not change.
RewriteOwner(r, row) ==
  [status |-> IF r.status = "active" THEN row.status ELSE "active",
   owner |-> r.owner, writers |-> row.writers \cup {r.writer}]

RewriteWhole(r, row) ==
  [status |-> "active", owner |-> row.owner, writers |-> row.writers \cup {r.writer}]

\* The attributes of a re-registration that differ from what was read; owner_sub
\* is frozen.
Rewrite(r, row) ==
  [status |-> IF r.status = "active" THEN row.status ELSE "active",
   owner |-> row.owner, writers |-> row.writers \cup {r.writer}]

\* INSERT or UPDATE, and the commit.  The second of two inserts of a sub fails on
\* its unique constraint.
CommitRegister(c) ==
  LET r   == client[c]
      row == agents[r.sub]
  IN  /\ At(c, "register")
      /\ \/ /\ r.status = "none" /\ row = NoAgent
            /\ agents' = [agents EXCEPT ![r.sub] =
                            [status |-> "active", owner |-> r.owner,
                             writers |-> {r.writer}]]
         \/ /\ r.status = "none" /\ row # NoAgent
            /\ UNCHANGED agents
         \/ /\ r.status # "none"
            /\ agents' = [agents EXCEPT ![r.sub] = Rewrite(r, row)]
      /\ Done(c)
      /\ UNCHANGED <<conversations, clock>>

-----------------------------------------------------------------------------
(* start_conversation *)

\* The SELECT of the caller begins the transaction; no later read of the session
\* changes the status it has seen.
StartConversation(c) ==
  /\ At(c, "idle")
  /\ \E k \in Starters : \E sub \in SubsOf(k) :
       /\ Allowed(k.token, "comms_start_conversation")
       /\ agents[sub].status = "active"
       /\ \E to \in SUBSET (Sub \ {sub}), type \in StartedTypes :
            /\ to # {}
            /\ client' = [client EXCEPT ![c] =
                            [pc |-> "count", sub |-> sub, to |-> to, type |-> type,
                             created |-> clock]]
  /\ UNCHANGED tables

RecentStarts(sub) ==
  {id \in Started : conversations[id].by = sub /\ conversations[id].created + Hour > clock}

\* Faulty variant of the next definition: off by one.
AtStartLimit(sub) == Cardinality(RecentStarts(sub)) <= MaxStarts

UnderStartLimit(sub) == Cardinality(RecentStarts(sub)) < MaxStarts

EnforceStartRateLimit(c) ==
  /\ At(c, "count")
  /\ IF UnderStartLimit(client[c].sub) THEN Goto(c, "targets") ELSE Done(c)
  /\ UNCHANGED tables

OwnersOf == [s \in Sub |-> {agents[s].owner}]

\* _resolve_targets and _authorize_conversation_open.
ResolveTargets(c) ==
  LET r == client[c]
  IN  /\ At(c, "targets")
      /\ IF /\ \A t \in r.to : agents[t].status = "active"
            /\ PairwiseAdmitted(r.type, r.to \cup {r.sub}, OwnersOf)
         THEN Goto(c, "insert") ELSE Done(c)
      /\ UNCHANGED tables

\* The conversation, closed at once when its opening message is a closing one.
InsertConversation(c) ==
  LET r == client[c]
  IN  /\ At(c, "insert")
      /\ \E id \in Conv \ Started, state \in {"active", "completed"}, life \in Lifetimes :
           conversations' = [conversations EXCEPT ![id] =
              [state |-> state, type |-> r.type, by |-> r.sub,
               present |-> r.to \cup {r.sub},
               created |-> r.created, expires |-> clock + life]]
      /\ Done(c)
      /\ UNCHANGED <<agents, clock>>

-----------------------------------------------------------------------------
(* What happens around these calls *)

\* A refusal, a cancelled request, a lost connection, or the client is done with
\* what it has got: nothing is written.
Abort(c) == ~At(c, "idle") /\ Done(c) /\ UNCHANGED tables

\* By an operator; no code does it.
SuspendAgent(sub) ==
  /\ agents[sub].status = "active" /\ sub \in Suspendable
  /\ agents' = [agents EXCEPT ![sub].status = "suspended"]
  /\ UNCHANGED <<conversations, clock, client>>

Overdue(id) == conversations[id].expires <= clock

\* A closing message, or the lazy expiry.
Close(id) ==
  /\ conversations[id].state = "active" /\ id \in Touched
  /\ conversations' = [conversations EXCEPT ![id].state =
                         IF Overdue(id) THEN "expired" ELSE "completed"]
  /\ UNCHANGED <<agents, clock, client>>

\* leave, decline_invite or a decline message.
Exit(id, sub) ==
  /\ sub \in conversations[id].present
  /\ sub \in Leavers /\ id \in Touched
  /\ conversations' = [conversations EXCEPT ![id].present = @ \ {sub}]
  /\ UNCHANGED <<agents, clock, client>>

Tick == /\ clock < MaxClock
        /\ clock' = clock + 1
        /\ UNCHANGED <<agents, conversations, client>>

AdmissionNext ==
  \/ \E c \in Client : \/ Register(c) \/ CommitRegister(c)
                       \/ StartConversation(c) \/ EnforceStartRateLimit(c)
                       \/ ResolveTargets(c) \/ InsertConversation(c) \/ Abort(c)
  \/ \E s \in Sub : SuspendAgent(s)
  \/ \E id \in Conv : Close(id) \/ \E s \in Sub : Exit(id, s)
  \/ Tick

-----------------------------------------------------------------------------
(* Correctness *)

\* The count and the insert are not one step: calls in flight at once overrun the
\* hourly limit.  By no more than the calls there are: the starts of the last hour
\* and those that passed the count stay below the limit plus one per further call.
StartOvershootBounded ==
  \A s \in Sub :
    LET passed == {c \in Client : client[c].pc \in {"targets", "insert"} /\ client[c].sub = s}
    IN  \/ passed = {} /\ RecentStarts(s) = {}
        \/ Cardinality(RecentStarts(s)) + Cardinality(passed)
             < MaxStarts + Cardinality(Client)

\* Owners compared when a conversation was opened still compare: no later
\* registration, with whatever owner claim, puts a member of an internal
\* conversation under another owner.
AdmittedStayAdmitted ==
  \A id \in Started :
    PairwiseAdmitted(conversations[id].type,
                     {conversations[id].by} \cup conversations[id].present, OwnersOf)

\* A row belongs to one caller: two callers that differ in the verified identity or
\* in the agent_key never register as the same agent.
OneCallerPerAgent ==
  \A s \in Sub : \A w, v \in agents[s].writers : w.base = v.base /\ w.key = v.key

\* An agent that goes by an email address was registered by a person who signed in.
EmailAgentsAreInteractive ==
  \A s \in Sub : Contains(s, "@") => \A w \in agents[s].writers : w.interactive

\* A suspension is undone by a registration that has seen it, never by one that read
\* an active agent before the operator suspended it.
LiftsAreDeliberate ==
  [][\A s \in Sub : agents[s].status = "suspended" /\ agents'[s].status = "active" =>
       \E c \in Client : /\ At(c, "register") /\ client[c].sub = s
                         /\ client[c].status = "suspended"]_<<tables, client>>
=============================================================================
