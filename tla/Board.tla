------------------------------- MODULE Board --------------------------------
(***************************************************************************)
(* The message board of service.py, one atomic step per service operation. *)
(* A step is a whole tool call: it reads the tables, decides, and commits  *)
(* either its effect or its denial.  Module BoardTx drops the atomicity.   *)
(*                                                                         *)
(* A denial commits too: _deny writes an audit row and commits whatever is *)
(* staged on the session, which at that point can only be the lazy expiry  *)
(* of the conversation.  audit holds the actions of the audit rows written *)
(* by the last step, every denial under the one label "denied".            *)
(***************************************************************************)
EXTENDS Naturals, Sequences, FiniteSets, Policy

CONSTANTS
  Agent,                 \* board identities (agents.sub)
  Conv,                  \* identities conversations can get
  Owner,                 \* verified owner identities
  OwnersOf,              \* what the OwnershipClient answers for an agent
  DeclaredTypes,         \* the accepted_types lists callers register with
  PostedTypes,           \* the message types callers post
  OpenedTypes,           \* the conversation types callers open
  Suspendable,           \* bound: the agents an operator suspends
  Readers,               \* bound: the agents whose read cursor is followed
  MaxStarts,             \* MAX_CONVERSATION_STARTS_PER_HOUR
  MaxMessages,           \* MAX_MESSAGES_PER_CONVERSATION_PER_HOUR
  MaxSeq,                \* bound: messages per conversation
  MaxAged                \* bound: messages per conversation older than an hour

ASSUME OwnersAssumption == OwnersOf \in [Agent -> SUBSET Owner]

ASSUME TypesAssumption == /\ DeclaredTypes \subseteq SUBSET MessageType
                          /\ PostedTypes \subseteq MessageType
                          /\ OpenedTypes \subseteq ConversationType

ASSUME BoundsAssumption == /\ MaxStarts \in Nat /\ MaxMessages \in Nat \ {0}
                           /\ MaxSeq \in Nat \ {0} /\ MaxAged \in Nat

VARIABLES
  agents,                \* agents[a]: the row of table agents
  conversations,         \* conversations[c]: the row of table conversations
  participants,          \* participants[c][a]: the row of table participants
  messages,              \* messages[c]: the rows of table messages, by seq
  aged,                  \* aged[c]: how many of them are over an hour old
  audit                  \* audit actions written by the last step

vars == <<agents, conversations, participants, messages, aged, audit>>

NoAgent == [status |-> "none", accepted_types |-> {}]

\* overdue stands for expires_at <= now.
NoConversation ==
  [type |-> "open", state |-> "none", owner_snapshot |-> {}, overdue |-> FALSE]

\* joined stands for joined_at being set.
NoRow == [role |-> "member", status |-> "none", joined |-> FALSE, last_read_seq |-> 0]

Init == /\ agents        = [a \in Agent |-> NoAgent]
        /\ conversations = [c \in Conv |-> NoConversation]
        /\ participants  = [c \in Conv |-> [a \in Agent |-> NoRow]]
        /\ messages      = [c \in Conv |-> << >>]
        /\ aged          = [c \in Conv |-> 0]
        /\ audit         = {}

-----------------------------------------------------------------------------
(* What the handlers read *)

\* Faulty variant of the next definition: a former member counts as a stranger.
HasLiveRow(c, a) == participants[c][a].status \in {"invited", "active"}

HasRow(c, a) == participants[c][a].status # "none"

Others(c, a, statuses) ==
  {b \in Agent \ {a} : participants[c][b].status \in statuses}

OwnersAmong(S) == UNION {OwnersOf[a] : a \in S}

Overdue(c) == conversations[c].state = "active" /\ conversations[c].overdue

\* Faulty variant of the next definition: the deadline beats any state.
DeadlineBeatsAll(c) ==
  IF conversations[c].overdue THEN "expired" ELSE conversations[c].state

\* The state after _maybe_expire.
ExpiredState(c) == IF Overdue(c) THEN "expired" ELSE conversations[c].state

\* Faulty variant of the next definition: the flip is not audited.
SilentExpiry(c) == {}

ExpiryAudit(c) == IF Overdue(c) THEN {"conversation.expire"} ELSE {}

Recent(c, a) == {i \in aged[c] + 1 .. Len(messages[c]) : messages[c][i].sender = a}

\* Faulty variant of the next definition: one too many.
AtLimit(count, limit) == count <= limit

UnderLimit(count, limit) == count < limit

\* A conversation is as old as its opening message: both rows carry the start
\* time of the transaction that opened it.
RecentStarts(a) ==
  {c \in Conv : /\ participants[c][a].role = "owner"
                /\ aged[c] = 0}

\* Every role='member' row of the table part is declined, and there is one.
AllNonOwnersDeclined(part) ==
  LET members == {a \in Agent : part[a].status # "none" /\ part[a].role = "member"}
  IN  /\ members # {}
      /\ \A a \in members : part[a].status = "declined"

\* The ownership lookup is made for asymmetric traffic that is not boundary-safe
\* and fails closed; lookup says whether the client answers.
BoundaryAllows(convType, type, sender, others, lookup) ==
  /\ convType = "asymmetric" /\ ~IsBoundarySafe(type) =>
       lookup /\ \A b \in others \cup {sender} : OwnersOf[b] # {}
  /\ IsBoundaryCrossingSafe(convType, IsBoundarySafe(type),
                            OwnersOf[sender], OwnersAmong(others))

\* Faulty variant of the next definition: one capable recipient is enough.
SomeAccept(S, type) == S = {} \/ \E b \in S : type \in agents[b].accepted_types

AllAccept(S, type) == \A b \in S : type \in agents[b].accepted_types

-----------------------------------------------------------------------------
(* How a call ends *)

\* The conversation row after _maybe_expire and, if next is another state, the
\* write of next.
Touch(c, next) == conversations' = [conversations EXCEPT ![c].state = next]

\* A denial before the conversation is loaded changes nothing.
DenyBeforeLoad ==
  /\ audit' = {"denied"}
  /\ UNCHANGED <<agents, conversations, participants, messages, aged>>

\* Faulty variant of the next definition: the expiry is committed unaudited.
DenyWithSilentExpiry(c) ==
  /\ Touch(c, ExpiredState(c))
  /\ audit' = {"denied"}
  /\ UNCHANGED <<agents, participants, messages, aged>>

\* A denial after the conversation is loaded commits its lazy expiry.
DenyAfterLoad(c) ==
  /\ Touch(c, ExpiredState(c))
  /\ audit' = ExpiryAudit(c) \cup {"denied"}
  /\ UNCHANGED <<agents, participants, messages, aged>>

SetRow(c, a, row) == participants' = [participants EXCEPT ![c][a] = row]
-----------------------------------------------------------------------------
(* Board admission *)

\* register: creates the row or re-binds it, which also lifts a suspension.
RegisterAgent(a) ==
  /\ \E types \in DeclaredTypes :
       agents' = [agents EXCEPT ![a] = [status |-> "active", accepted_types |-> types]]
  /\ audit' = {"agent.register"}
  /\ UNCHANGED <<conversations, participants, messages, aged>>

\* The ops kill-switch: no code path suspends, an operator does.
SuspendAgent(a) ==
  /\ a \in Suspendable
  /\ agents[a].status = "active"
  /\ agents' = [agents EXCEPT ![a].status = "suspended"]
  /\ audit' = {}
  /\ UNCHANGED <<conversations, participants, messages, aged>>

-----------------------------------------------------------------------------
(* Opening a conversation *)

\* _authorize_conversation_open over the whole participant set.
Admitted(convType, S, lookup) ==
  \/ convType = "open"
  \/ /\ lookup
     /\ \A a \in S : OwnersOf[a] # {}
     /\ PairwiseAdmitted(convType, S, OwnersOf)

StartAllowed(a, convType, targets, type, valid, lookup) ==
  /\ agents[a].status = "active"
  /\ UnderLimit(Cardinality(RecentStarts(a)), MaxStarts)
  /\ \A b \in targets : agents[b].status = "active"
  /\ Admitted(convType, targets \cup {a}, lookup)
  /\ valid
  /\ SenderRoleAllows(type, "owner")
  /\ AllAccept(targets, type)
  /\ BoundaryAllows(convType, type, a, targets, lookup)

\* Faulty variant of the next definition: targets are members without consent.
TargetsActiveAtOnce(a, targets, b) ==
  IF b \in targets \cup {a}
  THEN [role |-> IF b = a THEN "owner" ELSE "member", status |-> "active",
        joined |-> b = a, last_read_seq |-> 0]
  ELSE NoRow

\* The row of b in a conversation a opens with targets.
OpeningRow(a, targets, b) ==
  CASE b = a         -> [role |-> "owner", status |-> "active", joined |-> TRUE,
                         last_read_seq |-> 0]
    [] b \in targets -> [NoRow EXCEPT !.status = "invited"]
    [] OTHER         -> NoRow

\* All the rows of a new conversation.  late is an expires_at in the past, which
\* the tool accepts.
OpenConversation(a, c, convType, targets, type, about, late) ==
  LET state == ResultingConversationState("active", type, FALSE)
  IN  /\ conversations' = [conversations EXCEPT ![c] =
           [type           |-> convType,
            state          |-> state,
            owner_snapshot |-> IF convType = "open" THEN {}
                               ELSE OwnersAmong(targets \cup {a}),
            overdue        |-> late]]
      /\ participants' = [participants EXCEPT ![c] =
           [b \in Agent |-> OpeningRow(a, targets, b)]]
      /\ messages' = [messages EXCEPT ![c] =
           <<[sender |-> a, type |-> type, about |-> about]>>]
      /\ audit' = {"conversation.start", "message.post"}
                    \cup (IF state = "active" THEN {} ELSE {"conversation.close"})
      /\ UNCHANGED <<agents, aged>>

\* The payload of a message, as far as it matters: about_seq of a
\* needs_clarification (the schema wants at least 1), 0 for any other type.
AboutSeq(type) == IF type = "needs_clarification" THEN 1 .. MaxSeq ELSE {0}

StartConversation(a, c) ==
  /\ agents[a].status # "none"
  /\ conversations[c].state = "none"
  /\ \E convType \in OpenedTypes, targets \in SUBSET (Agent \ {a}),
        type \in PostedTypes, valid, lookup \in BOOLEAN :
       /\ targets # {}
       /\ \/ /\ StartAllowed(a, convType, targets, type, valid, lookup)
             /\ \E about \in AboutSeq(type), late \in BOOLEAN :
                  OpenConversation(a, c, convType, targets, type, about, late)
          \/ /\ ~StartAllowed(a, convType, targets, type, valid, lookup)
             /\ DenyBeforeLoad

-----------------------------------------------------------------------------
(* Membership *)

AcceptInvite(c, a) ==
  \/ /\ HasRow(c, a)
     /\ participants[c][a].status = "invited"
     /\ ExpiredState(c) \notin {"completed", "canceled"}
     /\ Touch(c, ExpiredState(c))
     /\ SetRow(c, a, [participants[c][a] EXCEPT !.status = "active", !.joined = TRUE])
     /\ audit' = ExpiryAudit(c) \cup {"participant.accept"}
     /\ UNCHANGED <<agents, messages, aged>>
  \/ /\ HasRow(c, a)
     /\ \/ participants[c][a].status # "invited"
        \/ ExpiredState(c) \in {"completed", "canceled"}
     /\ DenyAfterLoad(c)

DeclineInvite(c, a) ==
  \/ /\ HasRow(c, a)
     /\ participants[c][a].status = "invited"
     /\ Touch(c, ExpiredState(c))
     /\ SetRow(c, a, [participants[c][a] EXCEPT !.status = "declined"])
     /\ audit' = ExpiryAudit(c) \cup {"participant.decline_invite"}
     /\ UNCHANGED <<agents, messages, aged>>
  \/ /\ HasRow(c, a)
     /\ participants[c][a].status # "invited"
     /\ DenyAfterLoad(c)

Leave(c, a) ==
  \/ /\ HasRow(c, a)
     /\ participants[c][a].status = "active"
     /\ Touch(c, ExpiredState(c))
     /\ SetRow(c, a, [participants[c][a] EXCEPT !.status = "left"])
     /\ audit' = ExpiryAudit(c) \cup {"participant.leave"}
     /\ UNCHANGED <<agents, messages, aged>>
  \/ /\ HasRow(c, a)
     /\ participants[c][a].status # "active"
     /\ DenyAfterLoad(c)

\* Faulty variants of the next definition: no comparison with the snapshot, and
\* one shared owner is enough.
NoFreeze(c, b, lookup) == lookup /\ OwnersOf[b] # {}

FreezeByOverlap(c, b, lookup) ==
  conversations[c].type # "open" =>
    lookup /\ OwnersOf[b] \cap conversations[c].owner_snapshot # {}

\* _authorize_invite_owner_freeze: the target brings no owner from outside the
\* snapshot taken when the conversation was opened.
OwnerFreezeAllows(c, b, lookup) ==
  \/ conversations[c].type = "open"
  \/ /\ lookup
     /\ OwnersOf[b] # {}
     /\ OwnersOf[b] \subseteq conversations[c].owner_snapshot

InviteAllowed(c, a, b, lookup) ==
  /\ MayInvite(participants[c][a].status)
  /\ ExpiredState(c) = "active"
  /\ agents[b].status = "active"
  /\ OwnerFreezeAllows(c, b, lookup)
  /\ ~HasRow(c, b)

Invite(c, a) ==
  /\ HasRow(c, a)
  /\ \E b \in Agent, lookup \in BOOLEAN :
       \/ /\ InviteAllowed(c, a, b, lookup)
          /\ SetRow(c, b, [NoRow EXCEPT !.status = "invited"])
          /\ audit' = {"participant.invite"}
          /\ UNCHANGED <<agents, conversations, messages, aged>>
       \/ /\ ~InviteAllowed(c, a, b, lookup)
          /\ DenyAfterLoad(c)

-----------------------------------------------------------------------------
(* Messages *)

PostAllowed(c, a, type, about, valid, lookup) ==
  /\ participants[c][a].status = "active"
  /\ UnderLimit(Cardinality(Recent(c, a)), MaxMessages)
  /\ IsMessageLegal(ExpiredState(c), type)
  /\ SenderRoleAllows(type, participants[c][a].role)
  /\ valid
  /\ AllAccept(Others(c, a, {"active"}), type)
  /\ BoundaryAllows(conversations[c].type, type, a, Others(c, a, {"active", "invited"}), lookup)
  /\ about <= Len(messages[c])

\* Faulty variant of the next definition: a decline leaves its sender active.
DeclineKeepsStatus(status, type) == status

\* The sender's status after its post.
StatusAfterPost(status, type) == IF type = "decline" THEN "declined" ELSE status

\* The append and its side effects on the sender's row and on the conversation.
AppendMessage(c, a, type, about) ==
  LET part  == [participants[c] EXCEPT ![a].status =
                  StatusAfterPost(@, type)]
      state == ResultingConversationState("active", type, AllNonOwnersDeclined(part))
  IN  /\ messages' = [messages EXCEPT ![c] =
           Append(@, [sender |-> a, type |-> type, about |-> about])]
      /\ participants' = [participants EXCEPT ![c] = part]
      /\ Touch(c, state)
      /\ audit' = {"message.post"}
                    \cup (IF type = "decline" THEN {"participant.decline"} ELSE {})
                    \cup (IF state = "active" THEN {} ELSE {"conversation.close"})
      /\ UNCHANGED <<agents, aged>>

\* MaxSeq bounds the appends, not the denials.
PostMessage(c, a) ==
  /\ agents[a].status # "none"
  /\ \E type \in PostedTypes, valid, lookup \in BOOLEAN : \E about \in AboutSeq(type) :
       \/ /\ agents[a].status = "active" /\ HasRow(c, a)
          /\ PostAllowed(c, a, type, about, valid, lookup)
          /\ Len(messages[c]) < MaxSeq
          /\ AppendMessage(c, a, type, about)
       \/ /\ agents[a].status = "active" /\ HasRow(c, a)
          /\ ~PostAllowed(c, a, type, about, valid, lookup)
          /\ DenyAfterLoad(c)
       \/ /\ agents[a].status # "active" \/ ~HasRow(c, a)
          /\ DenyBeforeLoad

\* get_conversation: an invited caller gets metadata and no messages; an active one
\* gets the messages after since_seq and moves its cursor to the last of them.
GetConversation(c, a) ==
  \/ /\ participants[c][a].status = "invited"
     /\ Touch(c, ExpiredState(c))
     /\ audit' = ExpiryAudit(c)
     /\ UNCHANGED <<agents, participants, messages, aged>>
  \/ /\ participants[c][a].status = "active" /\ a \in Readers
     /\ Touch(c, ExpiredState(c))
     /\ \E since \in 0 .. MaxSeq :
          LET maxSeq == Len(messages[c])
              moves  == since < maxSeq /\ maxSeq > participants[c][a].last_read_seq
          IN  SetRow(c, a, [participants[c][a] EXCEPT !.last_read_seq =
                              IF moves THEN maxSeq ELSE @])
     /\ audit' = ExpiryAudit(c)
     /\ UNCHANGED <<agents, messages, aged>>
  \/ /\ participants[c][a].status \in {"left", "declined"}
     /\ DenyBeforeLoad

\* Any of the conversation tools, called on a conversation the caller has no row
\* in or that does not exist.
CallAsNonMember(c, a) ==
  /\ agents[a].status # "none"
  /\ ~HasRow(c, a)
  /\ DenyBeforeLoad

-----------------------------------------------------------------------------
(* Time *)

\* expires_at passes, whatever the stored state is.
DeadlinePasses(c) ==
  /\ conversations[c].state # "none"
  /\ ~conversations[c].overdue
  /\ conversations' = [conversations EXCEPT ![c].overdue = TRUE]
  /\ audit' = {}
  /\ UNCHANGED <<agents, participants, messages, aged>>

\* The oldest message counted by the rate limits gets older than an hour.  Two
\* conversations age independently, which allows more than one clock does.
MessageAges(c) ==
  /\ aged[c] < Len(messages[c])
  /\ aged[c] < MaxAged
  /\ aged' = [aged EXCEPT ![c] = @ + 1]
  /\ audit' = {}
  /\ UNCHANGED <<agents, conversations, participants, messages>>

-----------------------------------------------------------------------------
Register == \E a \in Agent : RegisterAgent(a) \/ SuspendAgent(a)

Call(c, a) == \/ StartConversation(a, c)
              \/ AcceptInvite(c, a)
              \/ DeclineInvite(c, a)
              \/ Leave(c, a)
              \/ Invite(c, a)
              \/ PostMessage(c, a)
              \/ GetConversation(c, a)
              \/ CallAsNonMember(c, a)

Clock == \E c \in Conv : DeadlinePasses(c) \/ MessageAges(c)

Next == \/ Register
        \/ \E c \in Conv, a \in Agent : Call(c, a)
        \/ Clock

Spec == Init /\ [][Next]_vars

-----------------------------------------------------------------------------
(* Correctness *)

AgentRow == [status : {"none", "active", "suspended"},
             accepted_types : SUBSET MessageType]

ConversationRow == [type           : ConversationType,
                    state          : ConversationState \cup {"none"},
                    owner_snapshot : SUBSET Owner,
                    overdue        : BOOLEAN]

ParticipantRow == [role          : ParticipantRole,
                   status        : ParticipantStatus \cup {"none"},
                   joined        : BOOLEAN,
                   last_read_seq : Nat]

Message == [sender : Agent, type : MessageType, about : 0 .. MaxSeq]

\* The tables hold rows of their types, and rows of a conversation exist only once
\* it is opened (the foreign keys of participants and messages).
TypeOK ==
  /\ agents \in [Agent -> AgentRow]
  /\ conversations \in [Conv -> ConversationRow]
  /\ participants \in [Conv -> [Agent -> ParticipantRow]]
  /\ messages \in [Conv -> Seq(Message)]
  /\ aged \in [Conv -> Nat]
  /\ \A c \in Conv :
       /\ conversations[c].state = "none" <=> messages[c] = << >>
       /\ conversations[c].state = "none" => \A a \in Agent : participants[c][a] = NoRow

\* The stored state and the message log of a conversation tell the same story,
\* through every opener, post, lazy expiry and denial: nothing follows a closing
\* message, completed means the last message completes, a canceling message
\* cancels, and a conversation canceled otherwise ends in a decline with every
\* member declined.
ClosedByLastMessage ==
  \A c \in Conv :
    LET log  == messages[c]
        last == log[Len(log)].type
    IN  log # << >> =>
          /\ \A i \in 1 .. Len(log) - 1 : log[i].type \notin ClosingTypes
          /\ conversations[c].state = "completed" <=> last \in CompletingTypes
          /\ last \in CancelingTypes => conversations[c].state = "canceled"
          /\ conversations[c].state = "canceled" /\ last \notin CancelingTypes =>
               last = "decline" /\ AllNonOwnersDeclined(participants[c])

\* Consent comes before content: a participant that is a member with full access,
\* left, wrote a message or has a read position has accepted (or opened) the
\* conversation at some time, and one still invited has not.
ConsentBeforeContent ==
  \A c \in Conv, a \in Agent :
    LET row == participants[c][a]
    IN  /\ row.status \in {"active", "left"} => row.joined
        /\ row.status \in {"invited", "none"} => ~row.joined
        /\ row.last_read_seq > 0 => row.joined
        /\ row.last_read_seq <= Len(messages[c])
        /\ \A i \in 1 .. Len(messages[c]) : messages[c][i].sender = a => row.joined

\* A participant that declined by message takes no further part: its row says
\* declined for good and no later message is its own.  The opening message is
\* exempt, StartConversation applies no decline to its sender.
DeclineSilencesSender ==
  \A c \in Conv : \A i \in 2 .. Len(messages[c]) :
    messages[c][i].type = "decline" =>
      /\ participants[c][messages[c][i].sender].status = "declined"
      /\ \A j \in i + 1 .. Len(messages[c]) : messages[c][j].sender # messages[c][i].sender

\* Role-restricted closes come from the side they are restricted to: an owner
\* cancels a task, a member declines it, and a conversation has one owner, who
\* wrote its opening message.
RolesOfClosers ==
  \A c \in Conv : \A i \in 1 .. Len(messages[c]) :
    LET m == messages[c][i]
    IN  /\ m.type = "task_cancel" => participants[c][m.sender].role = "owner"
        /\ m.type = "task_decline" => participants[c][m.sender].role = "member"
        /\ i = 1 => \A a \in Agent : participants[c][a].role = "owner" <=> a = m.sender

\* The owner set frozen at creation is exactly what the participants bring,
\* whoever was invited since: no invite widens it and nobody unverified is in.
OwnerSetFrozen ==
  \A c \in Conv : conversations[c].type # "open" =>
    LET members == {a \in Agent : HasRow(c, a)}
    IN  /\ conversations[c].owner_snapshot = OwnersAmong(members)
        /\ \A a \in members : OwnersOf[a] # {}

\* Axis 1 holds of the participants at every time, not only at creation: internal
\* means identical owner sets, asymmetric means pairwise intersecting ones.  It
\* takes agents of one owner each: an invite is only held against the snapshot,
\* which may admit an agent of one owner next to agents of several.
AdmissionHolds ==
  \A c \in Conv : PairwiseAdmitted(conversations[c].type,
                                   {a \in Agent : HasRow(c, a)}, OwnersOf)

\* A note stays inside its sender's ownership for as long as somebody can read it:
\* there is none in an open conversation, and elsewhere no active participant
\* acts for an owner its sender does not act for.  It takes agents of one owner
\* each, like AdmissionHolds.
NotesStayInside ==
  \A c \in Conv : \A i \in 1 .. Len(messages[c]) :
    ~IsBoundarySafe(messages[c][i].type) =>
      /\ conversations[c].type # "open"
      /\ \A b \in Agent : participants[c][b].status = "active" =>
           OwnersOf[b] \subseteq OwnersOf[messages[c][i].sender]

\* The documented cascade: once all non-owner participants have declined, the
\* conversation is no longer active (DeclineV1, DESIGN.md section 6).
AllDeclinedCancels ==
  \A c \in Conv :
    AllNonOwnersDeclined(participants[c]) => conversations[c].state # "active"

\* No agent gets past its hourly limit in a conversation, counting the opening
\* message it posted through another tool.
MessageLimitHolds ==
  \A c \in Conv, a \in Agent : Cardinality(Recent(c, a)) <= MaxMessages

-----------------------------------------------------------------------------
(* What a step may never do *)

StatusMoves ==
  {<<"none", "active">>, <<"none", "invited">>, <<"invited", "active">>,
   <<"invited", "declined">>, <<"active", "left">>, <<"active", "declined">>}

\* Membership only moves forward: a left or declined row is never overridden, by
\* its agent or by an inviter, an active one never becomes invited again, and the
\* role and the read position of a row never go back.
MembershipMovesForward ==
  [][\A c \in Conv, a \in Agent :
       LET old == participants[c][a]
           new == participants'[c][a]
       IN  /\ new.status # old.status => <<old.status, new.status>> \in StatusMoves
           /\ old.status # "none" => new.role = old.role
           /\ new.last_read_seq >= old.last_read_seq]_vars

\* A refused call leaves no trace but its audit row and the lazy expiry of the
\* conversation it loaded, itself audited: the commit inside _deny never saves
\* half of an operation.
DenialsAreInert ==
  []["denied" \in audit' =>
       /\ UNCHANGED <<agents, participants, messages, aged>>
       /\ \A c \in Conv :
            \/ UNCHANGED conversations[c]
            \/ /\ Overdue(c) /\ "conversation.expire" \in audit'
               /\ conversations'[c] = [conversations[c] EXCEPT !.state = "expired"]]_vars

\* Whichever tool appends it, a new message is of a type that every other active
\* participant, and at the opening every target, declared; and a message that is
\* not boundary-safe meets no owner outside its sender's among those present,
\* invited ones included, unless the conversation is internal.
NewMessagesAreAdmissible ==
  [][\A c \in Conv : messages'[c] # messages[c] =>
       LET m       == messages'[c][Len(messages'[c])]
           present == {b \in Agent \ {m.sender} :
                         participants'[c][b].status \in {"active", "invited"}}
           bound   == {b \in present : Len(messages[c]) = 0
                                        \/ participants'[c][b].status = "active"}
       IN  /\ \A b \in bound : m.type \in agents[b].accepted_types
           /\ ~IsBoundarySafe(m.type) =>
                \/ conversations'[c].type = "internal"
                \/ /\ conversations'[c].type = "asymmetric"
                   /\ OwnersAmong(present) \subseteq OwnersOf[m.sender]]_vars

\* Every change of a conversation's state is audited under its own action, and
\* those actions are audited for nothing else.
TransitionsAudited ==
  [][/\ "conversation.expire" \in audit' <=>
          \E c \in Conv : /\ conversations[c].state # "expired"
                          /\ conversations'[c].state = "expired"
     /\ "conversation.close" \in audit' <=>
          \E c \in Conv : /\ conversations[c].state \in {"none", "active"}
                          /\ conversations'[c].state \in {"completed", "canceled"}]_vars

\* The documented status gate of invite: a row somebody is invited into after the
\* opening comes from an active participant whose agent is board-active ("starting
\* a conversation, inviting, and posting all require the actor's own agent to be
\* board-active", the module docstring of service.py).
InvitersAreActive ==
  [][\A c \in Conv, b \in Agent :
       /\ conversations[c].state # "none"
       /\ participants[c][b].status = "none"
       /\ participants'[c][b].status = "invited"
       => \E a \in Agent : /\ participants[c][a].status = "active"
                          /\ agents[a].status = "active"]_vars

\* The log and the state of every conversation implement the abstract thread.
Thread == INSTANCE Threads WITH state <- [c \in Conv |-> conversations[c].state],
                                log   <- messages
ThreadSpec == Thread!Spec
=============================================================================
