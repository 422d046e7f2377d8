---------------------------- MODULE BoardProofs -----------------------------
(***************************************************************************)
(* Theorems about Board, for every set of agents and conversations, every  *)
(* ownership and every bound: its types, and that it implements Threads.   *)
(***************************************************************************)
EXTENDS Board, TLAPS

-----------------------------------------------------------------------------
(* The rules *)

\* A post out of an active conversation leaves one of the states of the table.
LEMMA ResultingStateType ==
  ASSUME NEW type, NEW d
  PROVE  ResultingConversationState("active", type, d) \in ConversationState
BY DEF ResultingConversationState, ConversationState

\* Lazy expiry leaves a state of the table, and leaves one of an opened conversation
\* exactly when there was one.
LEMMA ExpiredStateType ==
  ASSUME TypeOK, NEW c \in Conv
  PROVE  /\ ExpiredState(c) \in ConversationState \cup {"none"}
         /\ ExpiredState(c) = "none" <=> conversations[c].state = "none"
BY DEF TypeOK, ExpiredState, Overdue, ConversationRow, ConversationState

-----------------------------------------------------------------------------
(* Types *)

\* The empty board is well typed.
LEMMA TypeInit == Init => TypeOK
<1> SUFFICES ASSUME Init PROVE TypeOK
  OBVIOUS
<1>1. agents \in [Agent -> AgentRow]
  BY DEF Init, NoAgent, AgentRow
<1>2. conversations \in [Conv -> ConversationRow]
  BY DEF Init, NoConversation, ConversationRow, ConversationType
<1>3. NoRow \in ParticipantRow
  BY DEF NoRow, ParticipantRow, ParticipantRole
<1>4. participants \in [Conv -> [Agent -> ParticipantRow]]
  BY <1>3 DEF Init
<1>5. messages \in [Conv -> Seq(Message)] /\ aged \in [Conv -> Nat]
  BY DEF Init
<1>6. ASSUME NEW c \in Conv
      PROVE  /\ conversations[c].state = "none" /\ messages[c] = << >>
             /\ \A a \in Agent : participants[c][a] = NoRow
  BY DEF Init, NoConversation
<1> QED BY <1>1, <1>2, <1>4, <1>5, <1>6 DEF TypeOK

\* Writing a state that is none exactly when the old one was keeps the
\* conversations well typed.
LEMMA TouchType ==
  ASSUME TypeOK, NEW c \in Conv, NEW next \in ConversationState \cup {"none"},
         next = "none" <=> conversations[c].state = "none",
         Touch(c, next)
  PROVE  /\ conversations' \in [Conv -> ConversationRow]
         /\ \A k \in Conv : conversations'[k].state = "none" <=> conversations[k].state = "none"
BY DEF TypeOK, Touch, ConversationRow

\* Writing a well typed row in an opened conversation keeps the tables well typed.
LEMMA SetRowType ==
  ASSUME TypeOK, NEW c \in Conv, NEW a \in Agent, NEW row \in ParticipantRow,
         conversations[c].state # "none",
         SetRow(c, a, row)
  PROVE  /\ participants' \in [Conv -> [Agent -> ParticipantRow]]
         /\ \A k \in Conv : conversations[k].state = "none" =>
              \A b \in Agent : participants'[k][b] = NoRow
BY DEF TypeOK, SetRow

\* A row of the table belongs to an opened conversation.
LEMMA RowOfOpened ==
  ASSUME TypeOK, NEW c \in Conv, NEW a \in Agent, HasRow(c, a)
  PROVE  conversations[c].state # "none"
BY DEF TypeOK, HasRow, NoRow

\* A denial keeps the types, before or after the load.
LEMMA DenyType ==
  ASSUME TypeOK, NEW c \in Conv, DenyBeforeLoad \/ DenyAfterLoad(c)
  PROVE  TypeOK'
<1>1. CASE DenyBeforeLoad
  BY <1>1 DEF TypeOK, DenyBeforeLoad
<1>2. CASE DenyAfterLoad(c)
  <2>1. /\ conversations' \in [Conv -> ConversationRow]
        /\ \A k \in Conv : conversations'[k].state = "none" <=> conversations[k].state = "none"
    BY <1>2, ExpiredStateType, TouchType DEF DenyAfterLoad
  <2> QED BY <1>2, <2>1 DEF TypeOK, DenyAfterLoad
<1> QED BY <1>1, <1>2

\* Registration and suspension touch the directory only.
LEMMA RegisterType == ASSUME TypeOK, Register PROVE TypeOK'
<1>1. PICK a \in Agent : RegisterAgent(a) \/ SuspendAgent(a)
  BY DEF Register
<1>2. agents' \in [Agent -> AgentRow]
  <2>1. CASE RegisterAgent(a)
    BY <2>1, TypesAssumption DEF RegisterAgent, TypeOK, AgentRow
  <2>2. CASE SuspendAgent(a)
    BY <2>2 DEF SuspendAgent, TypeOK, AgentRow
  <2> QED BY <1>1, <2>1, <2>2
<1>3. UNCHANGED <<conversations, participants, messages, aged>>
  BY <1>1 DEF RegisterAgent, SuspendAgent
<1> QED BY <1>2, <1>3 DEF TypeOK

\* The payload reference a caller sends is a sequence number or 0.
LEMMA AboutType ==
  ASSUME NEW type \in MessageType PROVE AboutSeq(type) \subseteq 0 .. MaxSeq
BY BoundsAssumption DEF AboutSeq

\* A new conversation is well typed in all its tables.
LEMMA OpenType ==
  ASSUME TypeOK, NEW a \in Agent, NEW c \in Conv,
         NEW convType \in ConversationType, NEW targets \in SUBSET Agent,
         NEW type \in MessageType, NEW about \in 0 .. MaxSeq, NEW late \in BOOLEAN,
         OpenConversation(a, c, convType, targets, type, about, late)
  PROVE  TypeOK'
<1> DEFINE state    == ResultingConversationState("active", type, FALSE)
           snapshot == IF convType = "open" THEN {} ELSE OwnersAmong(targets \cup {a})
           row      == [type |-> convType, state |-> state,
                        owner_snapshot |-> snapshot, overdue |-> late]
<1>1. state \in ConversationState /\ state # "none"
  BY ResultingStateType DEF ConversationState
<1>2. snapshot \in SUBSET Owner
  BY OwnersAssumption DEF OwnersAmong
<1>3. row \in ConversationRow
  <2> HIDE DEF state, snapshot
  <2> QED BY <1>1, <1>2 DEF ConversationRow
<1>4. conversations' = [conversations EXCEPT ![c] = row]
  BY DEF OpenConversation
<1>5. \A b \in Agent : OpeningRow(a, targets, b) \in ParticipantRow
  BY DEF OpeningRow, NoRow, ParticipantRow, ParticipantRole, ParticipantStatus
<1>6. participants' = [participants EXCEPT ![c] =
                         [b \in Agent |-> OpeningRow(a, targets, b)]]
  BY DEF OpenConversation
<1>7. [sender |-> a, type |-> type, about |-> about] \in Message
  BY DEF Message
<1>8. messages' = [messages EXCEPT ![c] =
                     <<[sender |-> a, type |-> type, about |-> about]>>]
  BY DEF OpenConversation
<1>9. UNCHANGED <<agents, aged>>
  BY DEF OpenConversation
<1> HIDE DEF row
<1>10. conversations' \in [Conv -> ConversationRow]
  BY <1>3, <1>4 DEF TypeOK
<1>11. participants' \in [Conv -> [Agent -> ParticipantRow]]
  BY <1>5, <1>6 DEF TypeOK
<1>12. messages' \in [Conv -> Seq(Message)]
  BY <1>7, <1>8 DEF TypeOK
<1>13. ASSUME NEW k \in Conv
       PROVE  /\ conversations'[k].state = "none" <=> messages'[k] = << >>
              /\ conversations'[k].state = "none" => \A b \in Agent : participants'[k][b] = NoRow
  <2>1. CASE k = c
    <3>1. conversations'[c].state # "none"
      <4> HIDE DEF state, snapshot
      <4> QED BY <1>1, <1>4 DEF TypeOK, row
    <3>2. messages'[c] # << >>
      BY <1>8 DEF TypeOK
    <3> QED BY <2>1, <3>1, <3>2
  <2>2. CASE k # c
    BY <2>2, <1>4, <1>6, <1>8 DEF TypeOK
  <2> QED BY <2>1, <2>2
<1> QED BY <1>9, <1>10, <1>11, <1>12, <1>13 DEF TypeOK

\* Opening a conversation, or being refused to.
LEMMA StartType ==
  ASSUME TypeOK, NEW a \in Agent, NEW c \in Conv, StartConversation(a, c)
  PROVE  TypeOK'
<1>1. PICK convType \in OpenedTypes, targets \in SUBSET (Agent \ {a}),
           type \in PostedTypes :
        \/ \E about \in AboutSeq(type), late \in BOOLEAN :
             OpenConversation(a, c, convType, targets, type, about, late)
        \/ DenyBeforeLoad
  BY DEF StartConversation
<1>2. convType \in ConversationType /\ type \in MessageType
  BY TypesAssumption
<1>3. CASE DenyBeforeLoad
  BY <1>3, DenyType
<1>4. CASE \E about \in AboutSeq(type), late \in BOOLEAN :
             OpenConversation(a, c, convType, targets, type, about, late)
  <2>1. PICK about \in AboutSeq(type), late \in BOOLEAN :
          OpenConversation(a, c, convType, targets, type, about, late)
    BY <1>4
  <2>2. about \in 0 .. MaxSeq
    BY <1>2, AboutType
  <2>3. targets \in SUBSET Agent
    OBVIOUS
  <2> QED BY <1>2, <2>1, <2>2, <2>3, OpenType
<1> QED BY <1>1, <1>3, <1>4

\* A call that rewrites one row of an opened conversation, with its lazy expiry.
LEMMA RowWriteType ==
  ASSUME TypeOK, NEW c \in Conv, NEW a \in Agent, NEW row \in ParticipantRow,
         HasRow(c, a), Touch(c, ExpiredState(c)), SetRow(c, a, row),
         UNCHANGED <<agents, messages, aged>>
  PROVE  TypeOK'
<1>1. conversations[c].state # "none"
  BY RowOfOpened
<1>2. /\ conversations' \in [Conv -> ConversationRow]
      /\ \A k \in Conv : conversations'[k].state = "none" <=> conversations[k].state = "none"
  BY ExpiredStateType, TouchType
<1>3. /\ participants' \in [Conv -> [Agent -> ParticipantRow]]
      /\ \A k \in Conv : conversations[k].state = "none" =>
           \A b \in Agent : participants'[k][b] = NoRow
  BY <1>1, SetRowType
<1> QED BY <1>2, <1>3 DEF TypeOK

\* Accepting, declining and leaving rewrite the caller's row.
LEMMA MembershipType ==
  ASSUME TypeOK, NEW c \in Conv, NEW a \in Agent,
         AcceptInvite(c, a) \/ DeclineInvite(c, a) \/ Leave(c, a)
  PROVE  TypeOK'
<1> DEFINE row == participants[c][a]
<1>1. HasRow(c, a)
  BY DEF AcceptInvite, DeclineInvite, Leave
<1>2. row \in ParticipantRow
  BY DEF TypeOK
<1>3. CASE DenyAfterLoad(c)
  BY <1>3, DenyType
<1>4. CASE ~DenyAfterLoad(c)
  <2>1. \E new \in ParticipantRow : SetRow(c, a, new)
    <3>1. /\ [row EXCEPT !.status = "active", !.joined = TRUE] \in ParticipantRow
          /\ [row EXCEPT !.status = "declined"] \in ParticipantRow
          /\ [row EXCEPT !.status = "left"] \in ParticipantRow
      <4> HIDE DEF row
      <4> QED BY <1>2 DEF ParticipantRow, ParticipantStatus
    <3> QED BY <1>4, <3>1 DEF AcceptInvite, DeclineInvite, Leave
  <2>2. Touch(c, ExpiredState(c)) /\ UNCHANGED <<agents, messages, aged>>
    BY <1>4 DEF AcceptInvite, DeclineInvite, Leave
  <2> QED BY <1>1, <2>1, <2>2, RowWriteType
<1> QED BY <1>3, <1>4

\* An invite inserts a row in an opened conversation.
LEMMA InviteType ==
  ASSUME TypeOK, NEW c \in Conv, NEW a \in Agent, Invite(c, a)
  PROVE  TypeOK'
<1>1. PICK b \in Agent : \/ /\ SetRow(c, b, [NoRow EXCEPT !.status = "invited"])
                            /\ UNCHANGED <<agents, conversations, messages, aged>>
                         \/ DenyAfterLoad(c)
  BY DEF Invite
<1>2. CASE DenyAfterLoad(c)
  BY <1>2, DenyType
<1>3. CASE ~DenyAfterLoad(c)
  <2>1. [NoRow EXCEPT !.status = "invited"] \in ParticipantRow
    BY DEF NoRow, ParticipantRow, ParticipantRole, ParticipantStatus
  <2>2. conversations[c].state # "none"
    BY RowOfOpened DEF Invite
  <2>3. /\ participants' \in [Conv -> [Agent -> ParticipantRow]]
        /\ \A k \in Conv : conversations[k].state = "none" =>
             \A d \in Agent : participants'[k][d] = NoRow
    BY <1>1, <1>3, <2>1, <2>2, SetRowType
  <2> QED BY <1>1, <1>3, <2>3 DEF TypeOK
<1> QED BY <1>2, <1>3

\* A posted message is appended with its side effects on the sender's row and on
\* the state.
LEMMA AppendType ==
  ASSUME TypeOK, NEW c \in Conv, NEW a \in Agent, NEW type \in MessageType,
         NEW about \in 0 .. MaxSeq, HasRow(c, a), AppendMessage(c, a, type, about)
  PROVE  TypeOK'
<1> DEFINE part  == [participants[c] EXCEPT ![a].status = StatusAfterPost(@, type)]
           state == ResultingConversationState("active", type, AllNonOwnersDeclined(part))
<1>1. conversations[c].state # "none"
  BY RowOfOpened
<1>2. state \in ConversationState /\ state # "none"
  BY ResultingStateType DEF ConversationState
<1>3. part \in [Agent -> ParticipantRow]
  <2> DEFINE row == participants[c][a]
             new == [row EXCEPT !.status = StatusAfterPost(@, type)]
  <2>1. participants[c] \in [Agent -> ParticipantRow] /\ row \in ParticipantRow
    BY DEF TypeOK
  <2>2. part = [participants[c] EXCEPT ![a] = new]
    OBVIOUS
  <2>3. new \in ParticipantRow
    <3> HIDE DEF row
    <3> QED BY <2>1 DEF ParticipantRow, ParticipantStatus, StatusAfterPost
  <2> HIDE DEF new, part
  <2> QED BY <2>1, <2>2, <2>3
<1>4. [sender |-> a, type |-> type, about |-> about] \in Message
  BY DEF Message
<1>5. /\ messages' = [messages EXCEPT ![c] =
           Append(@, [sender |-> a, type |-> type, about |-> about])]
      /\ participants' = [participants EXCEPT ![c] = part]
      /\ Touch(c, state)
      /\ UNCHANGED <<agents, aged>>
  BY DEF AppendMessage
<1> HIDE DEF part, state
<1>6. /\ conversations' \in [Conv -> ConversationRow]
      /\ \A k \in Conv : conversations'[k].state = "none" <=> conversations[k].state = "none"
  BY <1>1, <1>2, <1>5, TouchType
<1>7. participants' \in [Conv -> [Agent -> ParticipantRow]]
  BY <1>3, <1>5 DEF TypeOK
<1>8. messages' \in [Conv -> Seq(Message)]
  BY <1>4, <1>5 DEF TypeOK
<1>9. ASSUME NEW k \in Conv
      PROVE  /\ conversations'[k].state = "none" <=> messages'[k] = << >>
             /\ conversations'[k].state = "none" => \A b \in Agent : participants'[k][b] = NoRow
  <2>1. CASE k = c
    <3>1. messages'[c] # << >>
      BY <1>4, <1>5 DEF TypeOK
    <3> QED BY <2>1, <3>1, <1>1, <1>6
  <2>2. CASE k # c
    BY <2>2, <1>5, <1>6 DEF TypeOK
  <2> QED BY <2>1, <2>2
<1> QED BY <1>5, <1>6, <1>7, <1>8, <1>9 DEF TypeOK

\* A post, whether it is refused or appended.
LEMMA PostType ==
  ASSUME TypeOK, NEW c \in Conv, NEW a \in Agent, PostMessage(c, a)
  PROVE  TypeOK'
<1>1. PICK type \in PostedTypes : \E about \in AboutSeq(type) :
        \/ HasRow(c, a) /\ AppendMessage(c, a, type, about)
        \/ DenyAfterLoad(c)
        \/ DenyBeforeLoad
  BY DEF PostMessage
<1>2. PICK about \in AboutSeq(type) :
        \/ HasRow(c, a) /\ AppendMessage(c, a, type, about)
        \/ DenyAfterLoad(c)
        \/ DenyBeforeLoad
  BY <1>1
<1>3. type \in MessageType
  BY TypesAssumption
<1>4. about \in 0 .. MaxSeq
  BY <1>3, AboutType
<1> QED BY <1>2, <1>3, <1>4, AppendType, DenyType

\* A read moves at most the caller's cursor.
LEMMA GetType ==
  ASSUME TypeOK, NEW c \in Conv, NEW a \in Agent, GetConversation(c, a)
  PROVE  TypeOK'
<1> DEFINE row == participants[c][a]
<1>1. row \in ParticipantRow /\ Len(messages[c]) \in Nat
  BY DEF TypeOK
<1>2. CASE DenyBeforeLoad
  BY <1>2, DenyType
<1>3. CASE row.status = "invited" /\ ~DenyBeforeLoad
  <2>1. /\ Touch(c, ExpiredState(c))
        /\ UNCHANGED <<agents, participants, messages, aged>>
    BY <1>3 DEF GetConversation
  <2>2. /\ conversations' \in [Conv -> ConversationRow]
        /\ \A k \in Conv : conversations'[k].state = "none" <=> conversations[k].state = "none"
    BY <2>1, ExpiredStateType, TouchType
  <2> QED BY <2>1, <2>2 DEF TypeOK
<1>4. CASE row.status = "active" /\ ~DenyBeforeLoad
  <2>1. HasRow(c, a)
    BY <1>4 DEF HasRow
  <2>2. /\ Touch(c, ExpiredState(c))
        /\ UNCHANGED <<agents, messages, aged>>
        /\ \E n \in Nat : SetRow(c, a, [row EXCEPT !.last_read_seq = n])
    <3>1. PICK since \in 0 .. MaxSeq :
            SetRow(c, a, [row EXCEPT !.last_read_seq =
                IF since < Len(messages[c]) /\ Len(messages[c]) > row.last_read_seq
                THEN Len(messages[c]) ELSE row.last_read_seq])
      BY <1>4 DEF GetConversation
    <3>2. row.last_read_seq \in Nat
      BY <1>1 DEF ParticipantRow
    <3> QED BY <1>1, <1>4, <3>1, <3>2 DEF GetConversation
  <2>3. \A n \in Nat : [row EXCEPT !.last_read_seq = n] \in ParticipantRow
    <3> HIDE DEF row
    <3> QED BY <1>1 DEF ParticipantRow
  <2> QED BY <2>1, <2>2, <2>3, RowWriteType
<1> QED BY <1>2, <1>3, <1>4 DEF GetConversation

\* Time touches the deadline flags and the ages.
LEMMA ClockType == ASSUME TypeOK, Clock PROVE TypeOK'
<1>1. PICK c \in Conv : DeadlinePasses(c) \/ MessageAges(c)
  BY DEF Clock
<1>2. CASE DeadlinePasses(c)
  BY <1>2 DEF DeadlinePasses, TypeOK, ConversationRow
<1>3. CASE MessageAges(c)
  BY <1>3 DEF MessageAges, TypeOK
<1> QED BY <1>1, <1>2, <1>3

\* Every step of the board keeps the types.
LEMMA TypeNext == TypeOK /\ [Next]_vars => TypeOK'
<1> SUFFICES ASSUME TypeOK, [Next]_vars PROVE TypeOK'
  OBVIOUS
<1>1. CASE Register
  BY <1>1, RegisterType
<1>2. CASE \E c \in Conv, a \in Agent : Call(c, a)
  <2>1. PICK c \in Conv, a \in Agent : Call(c, a)
    BY <1>2
  <2>2. CASE StartConversation(a, c)
    BY <2>2, StartType
  <2>3. CASE AcceptInvite(c, a) \/ DeclineInvite(c, a) \/ Leave(c, a)
    BY <2>3, MembershipType
  <2>4. CASE Invite(c, a)
    BY <2>4, InviteType
  <2>5. CASE PostMessage(c, a)
    BY <2>5, PostType
  <2>6. CASE GetConversation(c, a)
    BY <2>6, GetType
  <2>7. CASE CallAsNonMember(c, a)
    BY <2>7, DenyType DEF CallAsNonMember
  <2> QED BY <2>1, <2>2, <2>3, <2>4, <2>5, <2>6, <2>7 DEF Call
<1>3. CASE Clock
  BY <1>3, ClockType
<1>4. CASE UNCHANGED vars
  BY <1>4 DEF vars, TypeOK
<1> QED BY <1>1, <1>2, <1>3, <1>4 DEF Next

\* The tables of the board are well typed at all times, and rows and messages exist
\* only in opened conversations (the foreign keys of models.py).
THEOREM TypeCorrect == Spec => []TypeOK
BY TypeInit, TypeNext, PTL DEF Spec

-----------------------------------------------------------------------------
(* Steps of the abstract specification *)

\* The abstract rule for the state after a post is the rule of the board.
LEMMA SameRule ==
  ASSUME NEW type, NEW d
  PROVE  Thread!ResultingConversationState("active", type, d)
           = ResultingConversationState("active", type, d)
BY DEF Thread!ResultingConversationState, ResultingConversationState,
       Thread!CompletingTypes, CompletingTypes, Thread!CancelingTypes, CancelingTypes

\* A step that changes neither a state nor a message is a stutter of the threads.
LEMMA QuietStep ==
  ASSUME UNCHANGED <<conversations, messages>>
  PROVE  UNCHANGED Thread!vars
BY DEF Thread!vars

\* A step whose only effect on conversations and messages is the lazy expiry is an
\* expiry of the thread, or a stutter.
LEMMA ExpiryStep ==
  ASSUME TypeOK, NEW c \in Conv, Touch(c, ExpiredState(c)), UNCHANGED messages
  PROVE  [Thread!Next]_(Thread!vars)
<1> DEFINE st == [k \in Conv |-> conversations[k].state]
<1>1. conversations \in [Conv -> ConversationRow]
  BY DEF TypeOK
<1>2. st' = [st EXCEPT ![c] = ExpiredState(c)]
  BY <1>1 DEF Touch, ConversationRow
<1>3. CASE Overdue(c)
  <2>1. st[c] = "active" /\ ExpiredState(c) = "expired"
    BY <1>3 DEF Overdue, ExpiredState
  <2>2. Thread!Expire(c)
    BY <1>2, <2>1 DEF Thread!Expire
  <2> QED BY <2>2 DEF Thread!Next
<1>4. CASE ~Overdue(c)
  <2>1. ExpiredState(c) = st[c]
    BY <1>4 DEF ExpiredState
  <2>2. st' = st
    BY <1>2, <2>1
  <2> QED BY <2>2 DEF Thread!vars
<1> QED BY <1>3, <1>4

\* A denial expires the thread at most.
LEMMA DenyStep ==
  ASSUME TypeOK, NEW c \in Conv, DenyBeforeLoad \/ DenyAfterLoad(c)
  PROVE  [Thread!Next]_(Thread!vars)
<1>1. CASE DenyBeforeLoad
  BY <1>1, QuietStep DEF DenyBeforeLoad
<1>2. CASE DenyAfterLoad(c)
  BY <1>2, ExpiryStep DEF DenyAfterLoad
<1> QED BY <1>1, <1>2

\* The rows of a new conversation open a thread with one message.
LEMMA OpenStep ==
  ASSUME TypeOK, NEW a \in Agent, NEW c \in Conv,
         NEW convType, NEW targets \in SUBSET Agent,
         NEW type \in MessageType, NEW about \in 0 .. MaxSeq, NEW late,
         conversations[c].state = "none",
         OpenConversation(a, c, convType, targets, type, about, late)
  PROVE  Thread!Next
<1> DEFINE st   == [k \in Conv |-> conversations[k].state]
           m    == [sender |-> a, type |-> type, about |-> about]
           next == ResultingConversationState("active", type, FALSE)
<1>1. m \in Message /\ m.type = type
  BY DEF Message
<1>2. messages[c] = << >> /\ messages \in [Conv -> Seq(Message)]
  BY DEF TypeOK
<1>3. messages' = [messages EXCEPT ![c] = <<m>>]
  BY DEF OpenConversation
<1>4. <<m>> = Append(messages[c], m)
  BY <1>2
<1>5. messages' = [messages EXCEPT ![c] = Append(messages[c], m)]
  BY <1>3, <1>4
<1>6. st' = [st EXCEPT ![c] = next]
  <2>1. conversations \in [Conv -> ConversationRow]
    BY DEF TypeOK
  <2> DEFINE row == [type           |-> convType,
                     state          |-> next,
                     owner_snapshot |-> IF convType = "open" THEN {}
                                        ELSE OwnersAmong(targets \cup {a}),
                     overdue        |-> late]
  <2>2. conversations' = [conversations EXCEPT ![c] = row]
    BY DEF OpenConversation
  <2>3. row.state = next
    OBVIOUS
  <2> HIDE DEF row, next
  <2> QED BY <2>1, <2>2, <2>3
<1>7. Thread!Grow(c, m, FALSE)
  <2> HIDE DEF m
  <2>1. next = Thread!ResultingConversationState("active", m.type, FALSE)
    BY <1>1, SameRule
  <2> QED BY <1>5, <1>6, <2>1 DEF Thread!Grow
<1>8. Thread!Open(c)
  BY <1>1, <1>7 DEF Thread!Open
<1> QED BY <1>8 DEF Thread!Next

\* An admitted message extends the thread, which is active.
LEMMA AppendStep ==
  ASSUME TypeOK, NEW c \in Conv, NEW a \in Agent, NEW type \in MessageType,
         NEW about \in 0 .. MaxSeq, conversations[c].state = "active",
         AppendMessage(c, a, type, about)
  PROVE  Thread!Next
<1> DEFINE st   == [k \in Conv |-> conversations[k].state]
           m    == [sender |-> a, type |-> type, about |-> about]
           part == [participants[c] EXCEPT ![a].status = StatusAfterPost(@, type)]
           all  == AllNonOwnersDeclined(part)
           next == ResultingConversationState("active", type, all)
<1>1. m \in Message /\ m.type = type
  BY DEF Message
<1>2. messages' = [messages EXCEPT ![c] = Append(@, m)] /\ Touch(c, next)
  BY DEF AppendMessage
<1> HIDE DEF m, part
<1>3. st' = [st EXCEPT ![c] = next]
  <2>1. conversations \in [Conv -> ConversationRow]
    BY DEF TypeOK
  <2> HIDE DEF next
  <2> QED BY <1>2, <2>1 DEF Touch, ConversationRow
<1>4. PICK mayCancel \in BOOLEAN :
        next = Thread!ResultingConversationState("active", m.type, mayCancel)
  <2>1. CASE all
    <3>1. next = ResultingConversationState("active", m.type, TRUE)
      BY <1>1, <2>1 DEF ResultingConversationState
    <3> QED BY <3>1, SameRule
  <2>2. CASE ~all
    <3>1. next = ResultingConversationState("active", m.type, FALSE)
      BY <1>1, <2>2 DEF ResultingConversationState
    <3> QED BY <3>1, SameRule
  <2> QED BY <2>1, <2>2
<1>5. Thread!Grow(c, m, mayCancel)
  <2> HIDE DEF next
  <2> QED BY <1>2, <1>3, <1>4 DEF Thread!Grow
<1>6. Thread!Extend(c)
  BY <1>1, <1>5 DEF Thread!Extend
<1> QED BY <1>6 DEF Thread!Next

\* Only an active conversation that is not overdue looks active to a post.
LEMMA LegalMeansActive ==
  ASSUME NEW c \in Conv, NEW type, IsMessageLegal(ExpiredState(c), type)
  PROVE  conversations[c].state = "active"
BY DEF IsMessageLegal, ExpiredState, Overdue

-----------------------------------------------------------------------------
(* Steps of the board *)

\* Start: a denial, or the opening of a thread.
LEMMA StartStep ==
  ASSUME TypeOK, NEW a \in Agent, NEW c \in Conv, StartConversation(a, c)
  PROVE  [Thread!Next]_(Thread!vars)
<1>1. PICK convType \in OpenedTypes, targets \in SUBSET (Agent \ {a}),
           type \in PostedTypes :
        \/ \E about \in AboutSeq(type), late \in BOOLEAN :
             OpenConversation(a, c, convType, targets, type, about, late)
        \/ DenyBeforeLoad
  BY DEF StartConversation
<1>2. conversations[c].state = "none"
  BY DEF StartConversation
<1>3. CASE DenyBeforeLoad
  BY <1>3, DenyStep
<1>4. CASE ~DenyBeforeLoad
  <2>1. PICK about \in AboutSeq(type), late \in BOOLEAN :
          OpenConversation(a, c, convType, targets, type, about, late)
    BY <1>1, <1>4
  <2>2. type \in MessageType /\ about \in 0 .. MaxSeq
    BY TypesAssumption, AboutType
  <2> QED BY <1>2, <2>1, <2>2, OpenStep
<1> QED BY <1>3, <1>4

\* Membership calls and reads expire the thread at most.
LEMMA MemberStep ==
  ASSUME TypeOK, NEW c \in Conv, NEW a \in Agent,
         \/ AcceptInvite(c, a) \/ DeclineInvite(c, a) \/ Leave(c, a)
         \/ Invite(c, a) \/ GetConversation(c, a) \/ CallAsNonMember(c, a)
  PROVE  [Thread!Next]_(Thread!vars)
<1>1. \/ Touch(c, ExpiredState(c)) /\ UNCHANGED messages
      \/ UNCHANGED <<conversations, messages>>
  BY DEF AcceptInvite, DeclineInvite, Leave, Invite, GetConversation, CallAsNonMember,
         DenyBeforeLoad, DenyAfterLoad
<1> QED BY <1>1, ExpiryStep, QuietStep

\* Post: a denial, or a message in an active thread.
LEMMA PostStep ==
  ASSUME TypeOK, NEW c \in Conv, NEW a \in Agent, PostMessage(c, a)
  PROVE  [Thread!Next]_(Thread!vars)
<1>1. PICK type \in PostedTypes : \E about \in AboutSeq(type) :
        \/ IsMessageLegal(ExpiredState(c), type) /\ AppendMessage(c, a, type, about)
        \/ DenyAfterLoad(c)
        \/ DenyBeforeLoad
  BY DEF PostMessage, PostAllowed
<1>2. CASE DenyAfterLoad(c) \/ DenyBeforeLoad
  BY <1>2, DenyStep
<1>3. CASE ~(DenyAfterLoad(c) \/ DenyBeforeLoad)
  <2>1. PICK about \in AboutSeq(type) : AppendMessage(c, a, type, about)
    BY <1>1, <1>3
  <2>2. type \in MessageType /\ about \in 0 .. MaxSeq
    BY TypesAssumption, AboutType
  <2>3. conversations[c].state = "active"
    BY <1>1, <1>3, LegalMeansActive
  <2> QED BY <2>1, <2>2, <2>3, AppendStep
<1> QED BY <1>2, <1>3

\* A deadline that passes is not an expiry yet: no state changes.
LEMMA ClockStep ==
  ASSUME TypeOK, Clock PROVE UNCHANGED Thread!vars
<1>1. PICK c \in Conv : DeadlinePasses(c) \/ MessageAges(c)
  BY DEF Clock
<1>2. CASE DeadlinePasses(c)
  <2>1. \A k \in Conv : conversations'[k].state = conversations[k].state
    BY <1>2 DEF DeadlinePasses, TypeOK, ConversationRow
  <2> QED BY <1>2, <2>1 DEF DeadlinePasses, Thread!vars
<1>3. CASE MessageAges(c)
  BY <1>3, QuietStep DEF MessageAges
<1> QED BY <1>1, <1>2, <1>3

\* Every step of the board is a step of a thread, or a stutter.
LEMMA StepImplements == TypeOK /\ [Next]_vars => [Thread!Next]_(Thread!vars)
<1> SUFFICES ASSUME TypeOK, [Next]_vars PROVE [Thread!Next]_(Thread!vars)
  OBVIOUS
<1>1. CASE Register
  BY <1>1, QuietStep DEF Register, RegisterAgent, SuspendAgent
<1>2. CASE \E c \in Conv, a \in Agent : Call(c, a)
  BY <1>2, StartStep, MemberStep, PostStep DEF Call
<1>3. CASE Clock
  BY <1>3, ClockStep
<1>4. CASE UNCHANGED vars
  BY <1>4, QuietStep DEF vars
<1> QED BY <1>1, <1>2, <1>3, <1>4 DEF Next

\* The empty board is the empty set of threads.
LEMMA InitImplements == Init => Thread!Init
BY DEF Init, NoConversation, Thread!Init

\* The board implements the abstract thread: its log only grows, only while the
\* conversation is active, and every final state stays (post_message,
\* start_conversation and _maybe_expire together).
THEOREM ThreadCorrect == Spec => ThreadSpec
<1>1. Spec => Init /\ []TypeOK /\ [][Next]_vars
  BY TypeCorrect, PTL DEF Spec
<1> QED BY <1>1, InitImplements, StepImplements, PTL DEF ThreadSpec, Thread!Spec
=============================================================================
