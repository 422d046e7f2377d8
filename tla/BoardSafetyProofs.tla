-------------------------- MODULE BoardSafetyProofs --------------------------
(***************************************************************************)
(* The safety invariants of Board that relate the rows of a conversation   *)
(* to its messages, for every set of agents and conversations, every       *)
(* ownership and bound.                                                    *)
(*                                                                         *)
(* Every step does one of three things to a conversation, whichever call   *)
(* it is: it opens it, appends a message to it, or rewrites at most one    *)
(* row of it and expires it at most.  Each invariant is proved from these. *)
(***************************************************************************)
EXTENDS BoardProofs

-----------------------------------------------------------------------------
(* The shapes of a step *)

Opens(c) ==
  /\ conversations[c].state = "none"
  /\ \E a \in Agent, type \in MessageType, about \in 0 .. MaxSeq :
       \E targets \in SUBSET (Agent \ {a}) :
         /\ SenderRoleAllows(type, "owner")
         /\ messages'[c] = <<[sender |-> a, type |-> type, about |-> about]>>
         /\ conversations'[c].state = ResultingConversationState("active", type, FALSE)
         /\ participants'[c] = [b \in Agent |-> OpeningRow(a, targets, b)]

Extends(c) ==
  /\ conversations[c].state = "active"
  /\ \E a \in Agent, type \in MessageType, about \in 0 .. MaxSeq :
       /\ participants[c][a].status = "active"
       /\ SenderRoleAllows(type, participants[c][a].role)
       /\ messages'[c] = Append(messages[c], [sender |-> a, type |-> type, about |-> about])
       /\ participants'[c] = [participants[c] EXCEPT ![a].status = StatusAfterPost(@, type)]
       /\ conversations'[c].state =
            ResultingConversationState("active", type, AllNonOwnersDeclined(participants'[c]))

\* What a call may do to the row old of a conversation.
RowMove(c, old, row) ==
  \/ /\ old.status = "none" /\ row = [NoRow EXCEPT !.status = "invited"]
     /\ conversations[c].state = "active" /\ conversations'[c].state = "active"
  \/ /\ old.status = "invited"
     /\ \/ row = [old EXCEPT !.status = "active", !.joined = TRUE]
        \/ row = [old EXCEPT !.status = "declined"]
  \/ /\ old.status = "active"
     /\ \/ row = [old EXCEPT !.status = "left"]
        \/ /\ Len(messages[c]) > old.last_read_seq
           /\ row = [old EXCEPT !.last_read_seq = Len(messages[c])]

Rewrites(c) ==
  /\ messages'[c] = messages[c]
  /\ \/ conversations'[c].state = conversations[c].state
     \/ conversations[c].state = "active" /\ conversations'[c].state = "expired"
  /\ \/ participants'[c] = participants[c]
     \/ \E a \in Agent, row \in ParticipantRow :
          /\ RowMove(c, participants[c][a], row)
          /\ participants'[c] = [participants[c] EXCEPT ![a] = row]

\* A lazy expiry changes the state of no conversation, or from active to expired.
LEMMA ExpiryShape ==
  ASSUME TypeOK, NEW k \in Conv, Touch(k, ExpiredState(k)), NEW c \in Conv
  PROVE  \/ conversations'[c].state = conversations[c].state
         \/ conversations[c].state = "active" /\ conversations'[c].state = "expired"
BY DEF TypeOK, Touch, ExpiredState, Overdue, ConversationRow

\* A denial rewrites no row.
LEMMA DenyShape ==
  ASSUME TypeOK, NEW k \in Conv, DenyBeforeLoad \/ DenyAfterLoad(k), NEW c \in Conv
  PROVE  Rewrites(c)
<1>1. CASE DenyBeforeLoad
  BY <1>1 DEF DenyBeforeLoad, Rewrites
<1>2. CASE DenyAfterLoad(k)
  BY <1>2, ExpiryShape DEF DenyAfterLoad, Rewrites
<1> QED BY <1>1, <1>2

\* Registration, suspension and time leave states, rows and messages alone.
LEMMA OutsideShape ==
  ASSUME TypeOK, Register \/ Clock \/ UNCHANGED vars, NEW c \in Conv
  PROVE  Rewrites(c)
<1>1. UNCHANGED <<participants, messages>>
  BY DEF Register, RegisterAgent, SuspendAgent, Clock, DeadlinePasses, MessageAges, vars
<1>2. conversations'[c].state = conversations[c].state
  <2>1. CASE UNCHANGED conversations
    BY <2>1
  <2>2. CASE \E k \in Conv : DeadlinePasses(k)
    BY <2>2 DEF DeadlinePasses, TypeOK, ConversationRow
  <2> QED BY <2>1, <2>2 DEF Register, RegisterAgent, SuspendAgent, Clock, MessageAges, vars
<1> QED BY <1>1, <1>2 DEF Rewrites

\* A call that writes one row of k, with the lazy expiry of k.
LEMMA RowShape ==
  ASSUME TypeOK, NEW k \in Conv, NEW a \in Agent, NEW row \in ParticipantRow,
         Touch(k, ExpiredState(k)), SetRow(k, a, row), UNCHANGED messages,
         RowMove(k, participants[k][a], row), NEW c \in Conv
  PROVE  Rewrites(c)
<1>1. \/ conversations'[c].state = conversations[c].state
      \/ conversations[c].state = "active" /\ conversations'[c].state = "expired"
  BY ExpiryShape
<1>2. participants' = [participants EXCEPT ![k] = [participants[k] EXCEPT ![a] = row]]
  BY DEF SetRow
<1>3. CASE c = k
  <2>1. participants'[c] = [participants[c] EXCEPT ![a] = row]
    BY <1>2, <1>3 DEF TypeOK
  <2> QED BY <1>1, <1>3, <2>1 DEF Rewrites
<1>4. CASE c # k
  <2>1. participants'[c] = participants[c]
    BY <1>2, <1>4 DEF TypeOK
  <2> QED BY <1>1, <2>1 DEF Rewrites
<1> QED BY <1>3, <1>4

\* Accepting, declining and leaving move the caller's row.
LEMMA MembershipShape ==
  ASSUME TypeOK, NEW k \in Conv, NEW a \in Agent,
         AcceptInvite(k, a) \/ DeclineInvite(k, a) \/ Leave(k, a), NEW c \in Conv
  PROVE  Rewrites(c)
<1> DEFINE old == participants[k][a]
<1>1. CASE DenyAfterLoad(k)
  BY <1>1, DenyShape
<1>2. CASE ~DenyAfterLoad(k)
  <2> DEFINE accepted == [old EXCEPT !.status = "active", !.joined = TRUE]
             declined == [old EXCEPT !.status = "declined"]
             left     == [old EXCEPT !.status = "left"]
  <2>1. \/ old.status = "invited" /\ SetRow(k, a, accepted)
        \/ old.status = "invited" /\ SetRow(k, a, declined)
        \/ old.status = "active" /\ SetRow(k, a, left)
    BY <1>2 DEF AcceptInvite, DeclineInvite, Leave
  <2>2. Touch(k, ExpiredState(k)) /\ UNCHANGED messages
    BY <1>2 DEF AcceptInvite, DeclineInvite, Leave
  <2>3. {accepted, declined, left} \subseteq ParticipantRow
    <3>1. old \in ParticipantRow
      BY DEF TypeOK
    <3> HIDE DEF old
    <3> QED BY <3>1 DEF ParticipantRow, ParticipantStatus
  <2>4. /\ old.status = "invited" => RowMove(k, old, accepted) /\ RowMove(k, old, declined)
        /\ old.status = "active" => RowMove(k, old, left)
    BY DEF RowMove
  <2> HIDE DEF accepted, declined, left
  <2> QED BY <2>1, <2>2, <2>3, <2>4, RowShape
<1> QED BY <1>1, <1>2

\* An invite inserts a row in an active conversation.
LEMMA InviteShape ==
  ASSUME TypeOK, NEW k \in Conv, NEW a \in Agent, Invite(k, a), NEW c \in Conv
  PROVE  Rewrites(c)
<1> DEFINE row == [NoRow EXCEPT !.status = "invited"]
<1>1. CASE DenyAfterLoad(k)
  BY <1>1, DenyShape
<1>2. CASE ~DenyAfterLoad(k)
  <2>1. PICK b \in Agent, lookup \in BOOLEAN :
          /\ InviteAllowed(k, a, b, lookup)
          /\ SetRow(k, b, row)
          /\ UNCHANGED <<agents, conversations, messages, aged>>
    BY <1>2 DEF Invite
  <2>2. ExpiredState(k) = "active" /\ participants[k][b].status = "none"
    BY <2>1 DEF InviteAllowed, HasRow
  <2>3. conversations[k].state = "active" /\ conversations'[k].state = "active"
    BY <2>1, <2>2 DEF ExpiredState
  <2>4. row \in ParticipantRow
    BY DEF NoRow, ParticipantRow, ParticipantRole, ParticipantStatus
  <2>5. RowMove(k, participants[k][b], row)
    BY <2>2, <2>3 DEF RowMove
  <2>6. Touch(k, ExpiredState(k))
    BY <2>1, <2>2, <2>3 DEF Touch, TypeOK, ConversationRow
  <2> QED BY <2>1, <2>4, <2>5, <2>6, RowShape
<1> QED BY <1>1, <1>2

\* A read moves the cursor to the end of the log at most.
LEMMA GetShape ==
  ASSUME TypeOK, NEW k \in Conv, NEW a \in Agent, GetConversation(k, a), NEW c \in Conv
  PROVE  Rewrites(c)
<1> DEFINE old == participants[k][a]
           n   == Len(messages[k])
<1>1. old \in ParticipantRow /\ old.last_read_seq \in Nat /\ n \in Nat
  BY DEF TypeOK, ParticipantRow
<1>2. CASE DenyBeforeLoad
  BY <1>2, DenyShape
<1>3. CASE ~DenyBeforeLoad /\ old.status = "invited"
  <2>1. Touch(k, ExpiredState(k)) /\ UNCHANGED <<participants, messages>>
    BY <1>3 DEF GetConversation
  <2> QED BY <2>1, ExpiryShape DEF Rewrites
<1>4. CASE ~DenyBeforeLoad /\ old.status = "active"
  <2>1. PICK since \in 0 .. MaxSeq :
          SetRow(k, a, [old EXCEPT !.last_read_seq =
                          IF since < n /\ n > old.last_read_seq THEN n ELSE old.last_read_seq])
    BY <1>4 DEF GetConversation
  <2>2. Touch(k, ExpiredState(k)) /\ UNCHANGED messages
    BY <1>4 DEF GetConversation
  <2>3. CASE since < n /\ n > old.last_read_seq
    <3> DEFINE row == [old EXCEPT !.last_read_seq = n]
    <3>1. SetRow(k, a, row)
      BY <2>1, <2>3
    <3>2. row \in ParticipantRow
      <4> HIDE DEF old, n
      <4> QED BY <1>1 DEF ParticipantRow
    <3>3. RowMove(k, old, row)
      BY <1>4, <2>3 DEF RowMove
    <3> QED BY <2>2, <3>1, <3>2, <3>3, RowShape
  <2>4. CASE ~(since < n /\ n > old.last_read_seq)
    <3>1. SetRow(k, a, [old EXCEPT !.last_read_seq = old.last_read_seq])
      BY <2>1, <2>4
    <3>2. [old EXCEPT !.last_read_seq = old.last_read_seq] = old
      <4> HIDE DEF old
      <4> QED BY <1>1 DEF ParticipantRow
    <3>3. participants' = participants
      BY <3>1, <3>2 DEF SetRow, TypeOK
    <3> QED BY <2>2, <3>3, ExpiryShape DEF Rewrites
  <2> QED BY <2>3, <2>4
<1> QED BY <1>2, <1>3, <1>4 DEF GetConversation

\* A start opens a conversation or is refused.
LEMMA StartShape ==
  ASSUME TypeOK, NEW a \in Agent, NEW k \in Conv, StartConversation(a, k), NEW c \in Conv
  PROVE  Opens(c) \/ Rewrites(c)
<1>1. CASE DenyBeforeLoad
  BY <1>1, DenyShape
<1>2. CASE ~DenyBeforeLoad
  <2>1. PICK convType \in OpenedTypes, targets \in SUBSET (Agent \ {a}),
             type \in PostedTypes, valid \in BOOLEAN, lookup \in BOOLEAN :
          /\ StartAllowed(a, convType, targets, type, valid, lookup)
          /\ \E about \in AboutSeq(type), late \in BOOLEAN :
               OpenConversation(a, k, convType, targets, type, about, late)
    BY <1>2 DEF StartConversation
  <2>2. PICK about \in AboutSeq(type), late \in BOOLEAN :
          OpenConversation(a, k, convType, targets, type, about, late)
    BY <2>1
  <2>3. type \in MessageType /\ about \in 0 .. MaxSeq
    BY TypesAssumption, AboutType
  <2>4. SenderRoleAllows(type, "owner")
    BY <2>1 DEF StartAllowed
  <2> DEFINE row == [type           |-> convType,
                     state          |-> ResultingConversationState("active", type, FALSE),
                     owner_snapshot |-> IF convType = "open" THEN {}
                                        ELSE OwnersAmong(targets \cup {a}),
                     overdue        |-> late]
             m    == [sender |-> a, type |-> type, about |-> about]
             rows == [b \in Agent |-> OpeningRow(a, targets, b)]
  <2>5. /\ conversations' = [conversations EXCEPT ![k] = row]
        /\ participants' = [participants EXCEPT ![k] = rows]
        /\ messages' = [messages EXCEPT ![k] = <<m>>]
    BY <2>2 DEF OpenConversation
  <2>6. row.state = ResultingConversationState("active", type, FALSE)
    OBVIOUS
  <2> HIDE DEF row, rows, m
  <2>7. CASE c = k
    <3>1. /\ messages'[c] = <<m>>
          /\ participants'[c] = rows
          /\ conversations'[c].state = ResultingConversationState("active", type, FALSE)
      BY <2>5, <2>6, <2>7 DEF TypeOK
    <3>2. conversations[c].state = "none"
      BY <2>7 DEF StartConversation
    <3> QED BY <2>3, <2>4, <3>1, <3>2 DEF Opens, rows, m
  <2>8. CASE c # k
    BY <2>5, <2>8 DEF TypeOK, Rewrites
  <2> QED BY <2>7, <2>8
<1> QED BY <1>1, <1>2

\* A post appends a message or is refused.
LEMMA PostShape ==
  ASSUME TypeOK, NEW k \in Conv, NEW a \in Agent, PostMessage(k, a), NEW c \in Conv
  PROVE  Extends(c) \/ Rewrites(c)
<1>1. CASE DenyAfterLoad(k) \/ DenyBeforeLoad
  BY <1>1, DenyShape
<1>2. CASE ~(DenyAfterLoad(k) \/ DenyBeforeLoad)
  <2>1. PICK type \in PostedTypes, valid \in BOOLEAN, lookup \in BOOLEAN :
          \E about \in AboutSeq(type) :
            /\ PostAllowed(k, a, type, about, valid, lookup)
            /\ AppendMessage(k, a, type, about)
    BY <1>2 DEF PostMessage
  <2>2. PICK about \in AboutSeq(type) :
            /\ PostAllowed(k, a, type, about, valid, lookup)
            /\ AppendMessage(k, a, type, about)
    BY <2>1
  <2>3. type \in MessageType /\ about \in 0 .. MaxSeq
    BY TypesAssumption, AboutType
  <2>4. /\ participants[k][a].status = "active"
        /\ SenderRoleAllows(type, participants[k][a].role)
        /\ conversations[k].state = "active"
    BY <2>2 DEF PostAllowed, IsMessageLegal, ExpiredState
  <2> DEFINE part == [participants[k] EXCEPT ![a].status = StatusAfterPost(@, type)]
             next == ResultingConversationState("active", type, AllNonOwnersDeclined(part))
             m    == [sender |-> a, type |-> type, about |-> about]
  <2>5. /\ messages' = [messages EXCEPT ![k] = Append(@, m)]
        /\ participants' = [participants EXCEPT ![k] = part]
        /\ conversations' = [conversations EXCEPT ![k].state = next]
    BY <2>2 DEF AppendMessage, Touch
  <2> HIDE DEF part, next, m
  <2>6. CASE c = k
    <3>1. /\ messages'[c] = Append(messages[c], m)
          /\ participants'[c] = part
          /\ conversations'[c].state = next
      BY <2>5, <2>6 DEF TypeOK, ConversationRow
    <3> QED BY <2>3, <2>4, <2>6, <3>1 DEF Extends, part, next, m
  <2>7. CASE c # k
    BY <2>5, <2>7 DEF TypeOK, Rewrites
  <2> QED BY <2>6, <2>7
<1> QED BY <1>1, <1>2

\* Every step opens, extends or rewrites a conversation.
LEMMA StepShape ==
  ASSUME TypeOK, [Next]_vars, NEW c \in Conv
  PROVE  Opens(c) \/ Extends(c) \/ Rewrites(c)
<1>1. CASE Register \/ Clock \/ UNCHANGED vars
  BY <1>1, OutsideShape
<1>2. CASE \E k \in Conv, a \in Agent : Call(k, a)
  BY <1>2, StartShape, PostShape, MembershipShape, InviteShape, GetShape, DenyShape
     DEF Call, CallAsNonMember
<1> QED BY <1>1, <1>2 DEF Next

-----------------------------------------------------------------------------
(* What the shapes do to rows and log *)

\* Messages are written by agents and have a type of the board.
LEMMA LogType ==
  ASSUME TypeOK, NEW c \in Conv, NEW i \in 1 .. Len(messages[c])
  PROVE  messages[c][i].sender \in Agent /\ messages[c][i].type \in MessageType
<1>1. messages[c] \in Seq(Message)
  BY DEF TypeOK
<1>2. messages[c][i] \in Message
  BY <1>1
<1> QED BY <1>2 DEF Message

\* An append keeps the old messages and ends in the new one.
LEMMA ExtendLog ==
  ASSUME TypeOK, NEW c \in Conv, NEW m \in Message, messages'[c] = Append(messages[c], m)
  PROVE  /\ Len(messages[c]) \in Nat
         /\ Len(messages'[c]) = Len(messages[c]) + 1
         /\ messages'[c][Len(messages[c]) + 1] = m
         /\ \A i \in 1 .. Len(messages[c]) : messages'[c][i] = messages[c][i]
BY DEF TypeOK

\* The row new of b, old before a post of this type by a.
RowAfterPost(a, type, b, old, new) ==
  /\ new.role = old.role /\ new.joined = old.joined
  /\ new.last_read_seq = old.last_read_seq
  /\ new.status = IF b = a THEN StatusAfterPost(old.status, type) ELSE old.status

\* A post changes the status of its sender and nothing else of the rows.
LEMMA ExtendRows ==
  ASSUME TypeOK, NEW c \in Conv, NEW a \in Agent, NEW type,
         participants'[c] = [participants[c] EXCEPT ![a].status = StatusAfterPost(@, type)],
         NEW b \in Agent
  PROVE  RowAfterPost(a, type, b, participants[c][b], participants'[c][b])
<1> DEFINE old == participants[c][b]
           new == [old EXCEPT !.status = StatusAfterPost(@, type)]
<1>1. old \in ParticipantRow
  BY DEF TypeOK
<1>2. /\ b = a => participants'[c][b] = new
      /\ b # a => participants'[c][b] = old
  BY DEF TypeOK
<1>3. /\ new.role = old.role /\ new.joined = old.joined
      /\ new.last_read_seq = old.last_read_seq
      /\ new.status = StatusAfterPost(old.status, type)
  <2> HIDE DEF old
  <2> QED BY <1>1 DEF ParticipantRow
<1> HIDE DEF new, old
<1>4. CASE b = a
  BY <1>2, <1>3, <1>4 DEF RowAfterPost, old
<1>5. CASE b # a
  BY <1>2, <1>5 DEF RowAfterPost, old
<1> QED BY <1>4, <1>5

\* Each row is unchanged by a rewrite or makes one of the moves.
LEMMA RewriteRows ==
  ASSUME TypeOK, NEW c \in Conv, Rewrites(c), NEW b \in Agent
  PROVE  \/ participants'[c][b] = participants[c][b]
         \/ RowMove(c, participants[c][b], participants'[c][b])
<1>1. CASE participants'[c] = participants[c]
  BY <1>1
<1>2. CASE \E a \in Agent, row \in ParticipantRow :
             /\ RowMove(c, participants[c][a], row)
             /\ participants'[c] = [participants[c] EXCEPT ![a] = row]
  <2>1. PICK a \in Agent, row \in ParticipantRow :
             /\ RowMove(c, participants[c][a], row)
             /\ participants'[c] = [participants[c] EXCEPT ![a] = row]
    BY <1>2
  <2>2. /\ b = a => participants'[c][b] = row
        /\ b # a => participants'[c][b] = participants[c][b]
    BY <2>1 DEF TypeOK
  <2> QED BY <2>1, <2>2
<1> QED BY <1>1, <1>2 DEF Rewrites

\* What a move does to the parts of a row.
MoveEffect(c, old, row) ==
  /\ old.status \in {"none", "invited", "active"}
  /\ old.status # "none" => row.role = old.role
  /\ old.status = "none" => /\ row.role = "member" /\ row.status = "invited"
                            /\ row.joined = FALSE /\ row.last_read_seq = 0
                            /\ conversations[c].state = "active"
                            /\ conversations'[c].state = "active"
  /\ old.status = "invited" => /\ row.last_read_seq = old.last_read_seq
                               /\ \/ row.status = "active" /\ row.joined = TRUE
                                  \/ row.status = "declined" /\ row.joined = old.joined
  /\ old.status = "active" => /\ row.joined = old.joined
                              /\ row.status \in {"active", "left"}
                              /\ \/ row.last_read_seq = old.last_read_seq
                                 \/ /\ row.last_read_seq = Len(messages[c])
                                    /\ row.last_read_seq > old.last_read_seq

\* Each move has this effect.
LEMMA MoveFacts ==
  ASSUME TypeOK, NEW c \in Conv, NEW old \in ParticipantRow, NEW row, RowMove(c, old, row)
  PROVE  MoveEffect(c, old, row)
<1>1. Len(messages[c]) \in Nat
  BY DEF TypeOK
<1>2. CASE old.status = "none"
  BY <1>2 DEF RowMove, NoRow, MoveEffect
<1>3. CASE old.status = "invited"
  BY <1>3 DEF RowMove, ParticipantRow, MoveEffect
<1>4. CASE old.status = "active"
  BY <1>1, <1>4 DEF RowMove, ParticipantRow, MoveEffect
<1> QED BY <1>2, <1>3, <1>4 DEF RowMove

-----------------------------------------------------------------------------
(* Consent *)

\* The row of b in a conversation with these messages.
Consented(row, log, b) ==
  /\ row.status \in {"active", "left"} => row.joined
  /\ row.status \in {"invited", "none"} => ~row.joined
  /\ row.last_read_seq > 0 => row.joined
  /\ row.last_read_seq <= Len(log)
  /\ \A i \in 1 .. Len(log) : log[i].sender = b => row.joined

\* An opening keeps consent before content.
LEMMA ConsentOpens ==
  ASSUME TypeOK, NEW c \in Conv, Opens(c), NEW b \in Agent
  PROVE  Consented(participants'[c][b], messages'[c], b)
<1>1. PICK a \in Agent, type \in MessageType, about \in 0 .. MaxSeq :
        \E targets \in SUBSET (Agent \ {a}) :
          /\ SenderRoleAllows(type, "owner")
          /\ messages'[c] = <<[sender |-> a, type |-> type, about |-> about]>>
          /\ participants'[c] = [d \in Agent |-> OpeningRow(a, targets, d)]
  BY DEF Opens
<1> DEFINE row == participants'[c][b]
<1>2. PICK targets \in SUBSET (Agent \ {a}) : row = OpeningRow(a, targets, b)
  BY <1>1
<1>3. Len(messages'[c]) = 1 /\ messages'[c][1].sender = a
  BY <1>1
<1>4. CASE b = a
  <2>1. row.status = "active" /\ row.joined = TRUE /\ row.last_read_seq = 0
    BY <1>2, <1>4 DEF OpeningRow
  <2> HIDE DEF row, Consented
  <2> QED BY <2>1, <1>3, <1>4 DEF row, Consented
<1>5. CASE b # a
  <2>1. row.status \in {"invited", "none"} /\ row.joined = FALSE /\ row.last_read_seq = 0
    BY <1>2, <1>5 DEF OpeningRow, NoRow
  <2> HIDE DEF row, Consented
  <2> QED BY <2>1, <1>3, <1>5 DEF row, Consented
<1> QED BY <1>4, <1>5

\* A message keeps consent before content: its sender is active.
LEMMA ConsentExtends ==
  ASSUME TypeOK, ConsentBeforeContent, NEW c \in Conv, Extends(c), NEW b \in Agent
  PROVE  Consented(participants'[c][b], messages'[c], b)
<1>1. PICK a \in Agent, type \in MessageType, about \in 0 .. MaxSeq :
        /\ participants[c][a].status = "active"
        /\ messages'[c] = Append(messages[c], [sender |-> a, type |-> type, about |-> about])
        /\ participants'[c] = [participants[c] EXCEPT ![a].status = StatusAfterPost(@, type)]
  BY DEF Extends
<1> DEFINE row == participants'[c][b]
           old == participants[c][b]
           m   == [sender |-> a, type |-> type, about |-> about]
           n   == Len(messages[c])
<1>2. m \in Message /\ m.sender = a
  BY DEF Message
<1>3. /\ n \in Nat /\ Len(messages'[c]) = n + 1 /\ messages'[c][n + 1].sender = a
      /\ \A i \in 1 .. n : messages'[c][i] = messages[c][i]
  BY <1>1, <1>2, ExtendLog
<1>4. RowAfterPost(a, type, b, old, row)
  BY <1>1, ExtendRows
<1>5. /\ old.status \in {"active", "left"} => old.joined
      /\ old.status \in {"invited", "none"} => ~old.joined
      /\ old.last_read_seq > 0 => old.joined
      /\ old.last_read_seq <= n /\ old.last_read_seq \in Nat
      /\ \A i \in 1 .. n : messages[c][i].sender = b => old.joined
  BY DEF ConsentBeforeContent, TypeOK, ParticipantRow
<1>6. b = a => row.status \in {"active", "declined"} /\ old.joined
  BY <1>1, <1>4, <1>5 DEF RowAfterPost, StatusAfterPost
<1>7. \A i \in 1 .. Len(messages'[c]) : messages'[c][i].sender = b => old.joined
  <2>1. \A i \in 1 .. Len(messages'[c]) : i \in 1 .. n \/ i = n + 1
    BY <1>3
  <2> QED BY <1>3, <1>5, <1>6, <2>1
<1>8. row.last_read_seq <= Len(messages'[c])
  BY <1>3, <1>4, <1>5 DEF RowAfterPost
<1>9. /\ row.status \in {"active", "left"} => old.joined
      /\ row.status \in {"invited", "none"} => ~old.joined
  BY <1>4, <1>5, <1>6 DEF RowAfterPost
<1> HIDE DEF row, old
<1> QED BY <1>4, <1>5, <1>7, <1>8, <1>9 DEF row, Consented, RowAfterPost

\* A move keeps consent before content: it joins whom it makes active.
LEMMA ConsentRewrites ==
  ASSUME TypeOK, ConsentBeforeContent, NEW c \in Conv, Rewrites(c), NEW b \in Agent
  PROVE  Consented(participants'[c][b], messages'[c], b)
<1> DEFINE row == participants'[c][b]
           old == participants[c][b]
<1>1. messages'[c] = messages[c] /\ Len(messages[c]) \in Nat
  BY DEF Rewrites, TypeOK
<1>2. /\ old.status \in {"active", "left"} => old.joined
      /\ old.status \in {"invited", "none"} => ~old.joined
      /\ old.last_read_seq > 0 => old.joined
      /\ old.last_read_seq <= Len(messages[c])
      /\ \A i \in 1 .. Len(messages[c]) : messages[c][i].sender = b => old.joined
      /\ old \in ParticipantRow /\ old.last_read_seq \in Nat
  BY DEF ConsentBeforeContent, TypeOK, ParticipantRow
<1>3. row = old \/ RowMove(c, old, row)
  BY RewriteRows
<1>4. CASE row = old
  <2> HIDE DEF row, old
  <2> QED BY <1>1, <1>2, <1>4 DEF row, Consented
<1>5. CASE RowMove(c, old, row)
  <2> HIDE DEF row, old
  <2>0. MoveEffect(c, old, row)
    BY <1>2, <1>5, MoveFacts
  <2>1. CASE old.status = "none"
    <3>1. /\ row.status = "invited" /\ row.joined = FALSE /\ row.last_read_seq = 0
      BY <2>0, <2>1 DEF MoveEffect
    <3> QED BY <1>1, <1>2, <2>1, <3>1 DEF row, Consented
  <2>2. CASE old.status = "invited"
    <3>1. /\ row.last_read_seq = old.last_read_seq
          /\ \/ row.status = "active" /\ row.joined = TRUE
             \/ row.status = "declined" /\ row.joined = old.joined
      BY <2>0, <2>2 DEF MoveEffect
    <3> QED BY <1>1, <1>2, <2>2, <3>1 DEF row, Consented
  <2>3. CASE old.status = "active"
    <3>1. /\ row.joined = old.joined /\ row.status \in {"active", "left"}
          /\ \/ row.last_read_seq = old.last_read_seq
             \/ row.last_read_seq = Len(messages[c])
      BY <2>0, <2>3 DEF MoveEffect
    <3>2. row.last_read_seq <= Len(messages[c])
      BY <1>1, <1>2, <3>1
    <3> QED BY <1>1, <1>2, <2>3, <3>1, <3>2 DEF row, Consented
  <2> QED BY <2>0, <2>1, <2>2, <2>3 DEF MoveEffect
<1> QED BY <1>3, <1>4, <1>5

\* Every step keeps consent before content.
LEMMA ConsentNext ==
  ASSUME TypeOK, ConsentBeforeContent, [Next]_vars PROVE ConsentBeforeContent'
<1> SUFFICES ASSUME NEW c \in Conv, NEW b \in Agent
             PROVE  Consented(participants'[c][b], messages'[c], b)
  BY DEF ConsentBeforeContent, Consented
<1> QED BY StepShape, ConsentOpens, ConsentExtends, ConsentRewrites

\* Consent comes before content: only who accepted an invite (accept_invite) or opened
\* the conversation is a member, has left, has written or has a read position.
THEOREM ConsentCorrect == Spec => []ConsentBeforeContent
<1>1. Init => ConsentBeforeContent
  <2> SUFFICES ASSUME Init, NEW c \in Conv, NEW a \in Agent
               PROVE  /\ participants[c][a] = NoRow /\ messages[c] = << >>
    BY DEF ConsentBeforeContent, NoRow
  <2> QED BY DEF Init
<1>2. TypeOK /\ ConsentBeforeContent /\ [Next]_vars => ConsentBeforeContent'
  BY ConsentNext
<1> QED BY <1>1, <1>2, TypeCorrect, PTL DEF Spec

-----------------------------------------------------------------------------
(* Roles *)

\* The messages of a conversation with these rows.
RolesIn(rows, log) ==
  \A i \in 1 .. Len(log) :
    /\ log[i].type = "task_cancel" => rows[log[i].sender].role = "owner"
    /\ log[i].type = "task_decline" => rows[log[i].sender].role = "member"
    /\ i = 1 => \A a \in Agent : rows[a].role = "owner" <=> a = log[i].sender

\* The opener is the one owner.
LEMMA RolesOpens ==
  ASSUME TypeOK, NEW c \in Conv, Opens(c)
  PROVE  RolesIn(participants'[c], messages'[c])
<1>1. PICK a \in Agent, type \in MessageType, about \in 0 .. MaxSeq :
        \E targets \in SUBSET (Agent \ {a}) :
          /\ SenderRoleAllows(type, "owner")
          /\ messages'[c] = <<[sender |-> a, type |-> type, about |-> about]>>
          /\ participants'[c] = [d \in Agent |-> OpeningRow(a, targets, d)]
  BY DEF Opens
<1>2. \A b \in Agent : participants'[c][b].role = IF b = a THEN "owner" ELSE "member"
  BY <1>1 DEF OpeningRow, NoRow
<1>3. /\ Len(messages'[c]) = 1
      /\ messages'[c][1].sender = a /\ messages'[c][1].type = type
  BY <1>1
<1>4. type # "task_decline"
  BY <1>1 DEF SenderRoleAllows
<1> QED BY <1>2, <1>3, <1>4 DEF RolesIn

\* A post changes no role and its sender has the one its type wants.
LEMMA RolesExtends ==
  ASSUME TypeOK, NEW c \in Conv, RolesIn(participants[c], messages[c]), Extends(c)
  PROVE  RolesIn(participants'[c], messages'[c])
<1>1. PICK a \in Agent, type \in MessageType, about \in 0 .. MaxSeq :
        /\ SenderRoleAllows(type, participants[c][a].role)
        /\ messages'[c] = Append(messages[c], [sender |-> a, type |-> type, about |-> about])
        /\ participants'[c] = [participants[c] EXCEPT ![a].status = StatusAfterPost(@, type)]
  BY DEF Extends
<1> DEFINE m == [sender |-> a, type |-> type, about |-> about]
           n == Len(messages[c])
<1>2. m \in Message /\ m.sender = a /\ m.type = type
  BY DEF Message
<1>3. /\ n \in Nat /\ Len(messages'[c]) = n + 1 /\ messages'[c][n + 1] = m
      /\ \A i \in 1 .. n : messages'[c][i] = messages[c][i]
  BY <1>1, <1>2, ExtendLog
<1>4. \A b \in Agent : participants'[c][b].role = participants[c][b].role
  <2> SUFFICES ASSUME NEW b \in Agent
               PROVE  participants'[c][b].role = participants[c][b].role
    OBVIOUS
  <2>1. RowAfterPost(a, type, b, participants[c][b], participants'[c][b])
    BY <1>1, ExtendRows
  <2> QED BY <2>1 DEF RowAfterPost
<1>5. n # 0
  BY <1>3 DEF Extends, TypeOK
<1>6. \A i \in 1 .. n : messages[c][i].sender \in Agent
  BY LogType
<1> HIDE DEF m, n
<1>7. ASSUME NEW i \in 1 .. n + 1
      PROVE  /\ messages'[c][i].type = "task_cancel" =>
                  participants'[c][messages'[c][i].sender].role = "owner"
             /\ messages'[c][i].type = "task_decline" =>
                  participants'[c][messages'[c][i].sender].role = "member"
             /\ i = 1 => \A b \in Agent :
                  participants'[c][b].role = "owner" <=> b = messages'[c][i].sender
  <2>1. CASE i = n + 1
    <3>1. i # 1
      BY <1>3, <1>5, <2>1
    <3> QED BY <1>1, <1>2, <1>3, <1>4, <2>1, <3>1 DEF SenderRoleAllows
  <2>2. CASE i # n + 1
    <3>1. i \in 1 .. n
      BY <1>3, <2>2
    <3>2. messages'[c][i] = messages[c][i] /\ messages[c][i].sender \in Agent
      BY <1>3, <1>6, <3>1
    <3> QED BY <1>4, <3>1, <3>2 DEF RolesIn, n
  <2> QED BY <2>1, <2>2
<1> QED BY <1>3, <1>7 DEF RolesIn

\* A move changes no role of a participant that wrote.
LEMMA RolesRewrites ==
  ASSUME TypeOK, ConsentBeforeContent, NEW c \in Conv,
         RolesIn(participants[c], messages[c]), Rewrites(c)
  PROVE  RolesIn(participants'[c], messages'[c])
<1>1. messages'[c] = messages[c]
  BY DEF Rewrites
<1>2. \A i \in 1 .. Len(messages[c]) : messages[c][i].sender \in Agent
  BY LogType
<1>3. ASSUME NEW b \in Agent
      PROVE  \/ participants'[c][b].role = participants[c][b].role
             \/ /\ participants[c][b].status = "none"
                /\ participants'[c][b].role = "member"
  <2>1. CASE participants'[c][b] = participants[c][b]
    BY <2>1
  <2>2. CASE RowMove(c, participants[c][b], participants'[c][b])
    <3>1. participants[c][b] \in ParticipantRow
      BY DEF TypeOK
    <3>2. MoveEffect(c, participants[c][b], participants'[c][b])
      BY <2>2, <3>1, MoveFacts
    <3> QED BY <3>2 DEF MoveEffect
  <2> QED BY <2>1, <2>2, RewriteRows
<1>4. \A i \in 1 .. Len(messages[c]) : participants[c][messages[c][i].sender].status # "none"
  BY <1>2 DEF ConsentBeforeContent
<1>5. CASE Len(messages[c]) = 0
  BY <1>1, <1>5 DEF RolesIn
<1>6. CASE Len(messages[c]) # 0
  <2>1. 1 \in 1 .. Len(messages[c])
    BY <1>6 DEF TypeOK
  <2>2. \A b \in Agent : participants[c][b].role = "owner" => participants[c][b].status # "none"
    BY <1>4, <2>1 DEF RolesIn
  <2>3. \A b \in Agent : participants[c][b].role \in {"owner", "member"}
    BY DEF TypeOK, ParticipantRow, ParticipantRole
  <2>4. \A b \in Agent : participants'[c][b].role = participants[c][b].role
    BY <1>3, <2>2, <2>3
  <2> QED BY <1>1, <1>2, <2>4 DEF RolesIn
<1> QED BY <1>5, <1>6

\* Every step keeps the roles of the closers.
LEMMA RolesNext ==
  ASSUME TypeOK, ConsentBeforeContent, RolesOfClosers, [Next]_vars PROVE RolesOfClosers'
<1>1. \A c \in Conv : RolesIn(participants[c], messages[c])
  BY DEF RolesOfClosers, RolesIn
<1>2. \A c \in Conv : RolesIn(participants'[c], messages'[c])
  BY <1>1, StepShape, RolesOpens, RolesExtends, RolesRewrites
<1> QED BY <1>2 DEF RolesOfClosers, RolesIn

\* An owner cancels a task and a member declines it (_require_message_sender_role), and
\* the opener is the one owner of its conversation.
THEOREM RolesCorrect == Spec => []RolesOfClosers
<1>1. Init => RolesOfClosers
  BY DEF Init, RolesOfClosers
<1>2. TypeOK /\ ConsentBeforeContent /\ RolesOfClosers /\ [Next]_vars => RolesOfClosers'
  BY RolesNext
<1> QED BY <1>1, <1>2, TypeCorrect, ConsentCorrect, PTL DEF Spec

-----------------------------------------------------------------------------
(* Declines by message *)

\* Every step keeps the silence of who declined.
LEMMA DeclineNext ==
  ASSUME TypeOK, DeclineSilencesSender, [Next]_vars PROVE DeclineSilencesSender'
<1> SUFFICES ASSUME NEW c \in Conv, NEW i \in 2 .. Len(messages'[c]),
                    messages'[c][i].type = "decline"
             PROVE  /\ participants'[c][messages'[c][i].sender].status = "declined"
                    /\ \A j \in i + 1 .. Len(messages'[c]) :
                         messages'[c][j].sender # messages'[c][i].sender
  BY DEF DeclineSilencesSender
<1>1. ASSUME i \in 1 .. Len(messages[c]), messages'[c][i] = messages[c][i]
      PROVE  /\ messages[c][i].sender \in Agent
             /\ participants[c][messages[c][i].sender].status = "declined"
             /\ \A j \in i + 1 .. Len(messages[c]) :
                  messages[c][j].sender # messages[c][i].sender
  <2>1. i \in 2 .. Len(messages[c])
    BY <1>1
  <2> QED BY <1>1, <2>1, LogType DEF DeclineSilencesSender
<1>2. CASE Opens(c)
  <2>1. Len(messages'[c]) = 1
    BY <1>2 DEF Opens
  <2> QED BY <2>1
<1>3. CASE Extends(c)
  <2>1. PICK a \in Agent, type \in MessageType, about \in 0 .. MaxSeq :
          /\ participants[c][a].status = "active"
          /\ messages'[c] = Append(messages[c], [sender |-> a, type |-> type, about |-> about])
          /\ participants'[c] = [participants[c] EXCEPT ![a].status = StatusAfterPost(@, type)]
    BY <1>3 DEF Extends
  <2> DEFINE m == [sender |-> a, type |-> type, about |-> about]
             n == Len(messages[c])
  <2>2. m \in Message /\ m.sender = a /\ m.type = type
    BY DEF Message
  <2>3. /\ n \in Nat /\ Len(messages'[c]) = n + 1 /\ messages'[c][n + 1] = m
        /\ \A j \in 1 .. n : messages'[c][j] = messages[c][j]
    BY <2>1, <2>2, ExtendLog
  <2> HIDE DEF m
  <2>4. CASE i = n + 1
    <3>1. RowAfterPost(a, type, a, participants[c][a], participants'[c][a])
      BY <2>1, ExtendRows
    <3>2. participants'[c][a].status = "declined"
      BY <2>2, <2>3, <2>4, <3>1 DEF RowAfterPost, StatusAfterPost
    <3> QED BY <2>2, <2>3, <2>4, <3>2
  <2>5. CASE i # n + 1
    <3> DEFINE b == messages[c][i].sender
    <3>1. i \in 1 .. n /\ messages'[c][i] = messages[c][i]
      BY <2>3, <2>5
    <3>2. /\ b \in Agent /\ participants[c][b].status = "declined"
          /\ \A j \in i + 1 .. n : messages[c][j].sender # b
      BY <1>1, <3>1
    <3>3. b # a
      BY <2>1, <3>2
    <3>4. RowAfterPost(a, type, b, participants[c][b], participants'[c][b])
      BY <2>1, <3>2, ExtendRows
    <3>5. participants'[c][b].status = "declined"
      BY <3>2, <3>3, <3>4 DEF RowAfterPost
    <3>6. ASSUME NEW j \in i + 1 .. n + 1 PROVE messages'[c][j].sender # b
      <4>1. CASE j = n + 1
        BY <2>2, <2>3, <3>3, <4>1
      <4>2. CASE j # n + 1
        <5>1. j \in i + 1 .. n /\ j \in 1 .. n
          BY <2>3, <3>1, <4>2
        <5> QED BY <2>3, <3>2, <5>1
      <4> QED BY <4>1, <4>2
    <3> QED BY <2>3, <3>1, <3>5, <3>6
  <2> QED BY <2>4, <2>5
<1>4. CASE Rewrites(c)
  <2> DEFINE b == messages[c][i].sender
  <2>1. messages'[c] = messages[c]
    BY <1>4 DEF Rewrites
  <2>2. i \in 1 .. Len(messages[c])
    BY <2>1
  <2>3. /\ b \in Agent /\ participants[c][b].status = "declined"
        /\ \A j \in i + 1 .. Len(messages[c]) : messages[c][j].sender # b
    BY <1>1, <2>1, <2>2
  <2>4. participants'[c][b] = participants[c][b]
    <3>1. ~RowMove(c, participants[c][b], participants'[c][b])
      BY <2>3 DEF RowMove
    <3> QED BY <1>4, <2>3, <3>1, RewriteRows
  <2> QED BY <2>1, <2>3, <2>4
<1> QED BY <1>2, <1>3, <1>4, StepShape

\* Who declined by message (DeclineV1, post_message) is declined for good and writes no
\* more.
THEOREM DeclineCorrect == Spec => []DeclineSilencesSender
<1>1. Init => DeclineSilencesSender
  BY DEF Init, DeclineSilencesSender
<1>2. TypeOK /\ DeclineSilencesSender /\ [Next]_vars => DeclineSilencesSender'
  BY DeclineNext
<1> QED BY <1>1, <1>2, TypeCorrect, PTL DEF Spec

-----------------------------------------------------------------------------
(* Closing *)

\* A conversation in this state, with these rows and these messages.
ClosedIn(state, rows, log) ==
  LET last == log[Len(log)].type
  IN  /\ \A i \in 1 .. Len(log) - 1 : log[i].type \notin ClosingTypes
      /\ state = "completed" <=> last \in CompletingTypes
      /\ last \in CancelingTypes => state = "canceled"
      /\ state = "canceled" /\ last \notin CancelingTypes =>
           last = "decline" /\ AllNonOwnersDeclined(rows)

\* The rule of state_machine.py, told by the state it leaves.
LEMMA RuleFacts ==
  ASSUME NEW type, NEW d \in BOOLEAN, NEW state,
         state = ResultingConversationState("active", type, d)
  PROVE  /\ state = "completed" <=> type \in CompletingTypes
         /\ type \in CancelingTypes => state = "canceled"
         /\ state = "canceled" /\ type \notin CancelingTypes => type = "decline" /\ d
BY DEF ResultingConversationState, CompletingTypes, CancelingTypes

\* An opening message that closes is the last one.
LEMMA ClosedOpens ==
  ASSUME TypeOK, NEW c \in Conv, Opens(c)
  PROVE  ClosedIn(conversations'[c].state, participants'[c], messages'[c])
<1>1. PICK a \in Agent, type \in MessageType, about \in 0 .. MaxSeq :
        /\ messages'[c] = <<[sender |-> a, type |-> type, about |-> about]>>
        /\ conversations'[c].state = ResultingConversationState("active", type, FALSE)
  BY DEF Opens
<1>2. Len(messages'[c]) = 1 /\ messages'[c][1].type = type
  BY <1>1
<1>3. /\ conversations'[c].state = "completed" <=> type \in CompletingTypes
      /\ type \in CancelingTypes => conversations'[c].state = "canceled"
      /\ conversations'[c].state = "canceled" => type \in CancelingTypes
  BY <1>1, RuleFacts
<1> QED BY <1>2, <1>3 DEF ClosedIn

\* A message is appended to a log without a close and closes what its type closes.
LEMMA ClosedExtends ==
  ASSUME TypeOK, NEW c \in Conv, Extends(c),
         ClosedIn(conversations[c].state, participants[c], messages[c])
  PROVE  ClosedIn(conversations'[c].state, participants'[c], messages'[c])
<1> DEFINE n == Len(messages[c])
           d == AllNonOwnersDeclined(participants'[c])
<1>1. PICK a \in Agent, type \in MessageType, about \in 0 .. MaxSeq :
        /\ messages'[c] = Append(messages[c], [sender |-> a, type |-> type, about |-> about])
        /\ conversations'[c].state = ResultingConversationState("active", type, d)
  BY DEF Extends
<1> DEFINE m == [sender |-> a, type |-> type, about |-> about]
<1>2. m \in Message /\ m.type = type
  BY DEF Message
<1>3. /\ n \in Nat /\ Len(messages'[c]) = n + 1 /\ messages'[c][n + 1] = m
      /\ \A j \in 1 .. n : messages'[c][j] = messages[c][j]
  BY <1>1, <1>2, ExtendLog
<1> HIDE DEF m
<1>4. \A i \in 1 .. n : messages[c][i].type \notin ClosingTypes
  <2>1. conversations[c].state = "active"
    BY DEF Extends
  <2>2. messages[c][n].type \notin ClosingTypes
    BY <2>1 DEF ClosedIn, ClosingTypes
  <2>3. \A i \in 1 .. n - 1 : messages[c][i].type \notin ClosingTypes
    BY DEF ClosedIn
  <2>4. \A i \in 1 .. n : i = n \/ i \in 1 .. n - 1
    BY <1>3
  <2> QED BY <2>2, <2>3, <2>4
<1>5. \A i \in 1 .. n : messages'[c][i].type \notin ClosingTypes
  BY <1>3, <1>4
<1>6. d \in BOOLEAN
  BY DEF AllNonOwnersDeclined
<1> HIDE DEF d
<1>7. /\ conversations'[c].state = "completed" <=> type \in CompletingTypes
      /\ type \in CancelingTypes => conversations'[c].state = "canceled"
      /\ conversations'[c].state = "canceled" /\ type \notin CancelingTypes =>
           type = "decline" /\ d
  BY <1>1, <1>6, RuleFacts
<1>8. messages'[c][Len(messages'[c])].type = type /\ Len(messages'[c]) - 1 = n
  BY <1>2, <1>3
<1> QED BY <1>5, <1>7, <1>8 DEF ClosedIn, d

\* Moves keep a conversation closed by declines closed: there is no one left to move.
LEMMA ClosedRewrites ==
  ASSUME TypeOK, NEW c \in Conv, Rewrites(c),
         ClosedIn(conversations[c].state, participants[c], messages[c])
  PROVE  ClosedIn(conversations'[c].state, participants'[c], messages'[c])
<1>1. messages'[c] = messages[c]
  BY DEF Rewrites
<1>2. CASE conversations'[c].state = conversations[c].state
  <2>1. CASE conversations[c].state # "canceled"
    BY <1>1, <1>2, <2>1 DEF ClosedIn
  <2>2. CASE conversations[c].state = "canceled" /\ ~AllNonOwnersDeclined(participants[c])
    BY <1>1, <1>2, <2>2 DEF ClosedIn
  <2>3. CASE conversations[c].state = "canceled" /\ AllNonOwnersDeclined(participants[c])
    <3>1. ASSUME NEW b \in Agent
          PROVE  /\ participants'[c][b].role = participants[c][b].role
                 /\ participants'[c][b].status = "none" <=> participants[c][b].status = "none"
                 /\ participants[c][b].status = "declined" =>
                      participants'[c][b].status = "declined"
      <4>1. CASE participants'[c][b] = participants[c][b]
        BY <4>1
      <4>2. CASE RowMove(c, participants[c][b], participants'[c][b])
        <5>1. participants[c][b] \in ParticipantRow
          BY DEF TypeOK
        <5>2. MoveEffect(c, participants[c][b], participants'[c][b])
          BY <4>2, <5>1, MoveFacts
        <5> QED BY <2>3, <5>2 DEF MoveEffect
      <4> QED BY <4>1, <4>2, RewriteRows
    <3>2. AllNonOwnersDeclined(participants'[c])
      BY <2>3, <3>1 DEF AllNonOwnersDeclined
    <3> QED BY <1>1, <1>2, <2>3, <3>2 DEF ClosedIn
  <2> QED BY <2>1, <2>2, <2>3
<1>3. CASE conversations[c].state = "active" /\ conversations'[c].state = "expired"
  BY <1>1, <1>3 DEF ClosedIn
<1> QED BY <1>2, <1>3 DEF Rewrites

\* Every step keeps state and log in agreement.
LEMMA ClosedNext ==
  ASSUME TypeOK, ClosedByLastMessage, [Next]_vars PROVE ClosedByLastMessage'
<1> SUFFICES ASSUME NEW c \in Conv, messages'[c] # << >>
             PROVE  ClosedIn(conversations'[c].state, participants'[c], messages'[c])
  BY DEF ClosedByLastMessage, ClosedIn
<1>1. messages[c] # << >> =>
        ClosedIn(conversations[c].state, participants[c], messages[c])
  BY DEF ClosedByLastMessage, ClosedIn
<1>2. CASE Opens(c)
  BY <1>2, ClosedOpens
<1>3. CASE Extends(c)
  <2>1. messages[c] # << >>
    BY <1>3 DEF Extends, TypeOK
  <2> QED BY <1>1, <1>3, <2>1, ClosedExtends
<1>4. CASE Rewrites(c)
  <2>1. messages[c] # << >>
    BY <1>4 DEF Rewrites
  <2> QED BY <1>1, <1>4, <2>1, ClosedRewrites
<1> QED BY <1>2, <1>3, <1>4, StepShape

\* State, rows and log of a conversation agree, through every start_conversation, post,
\* membership call, denial and lazy expiry (resulting_conversation_state).
THEOREM ClosedCorrect == Spec => []ClosedByLastMessage
<1>1. Init => ClosedByLastMessage
  BY DEF Init, ClosedByLastMessage
<1>2. TypeOK /\ ClosedByLastMessage /\ [Next]_vars => ClosedByLastMessage'
  BY ClosedNext
<1> QED BY <1>1, <1>2, TypeCorrect, PTL DEF Spec

-----------------------------------------------------------------------------
(* Membership *)

\* Every step moves every row forward, or leaves it.
LEMMA MembershipNext ==
  ASSUME TypeOK, ConsentBeforeContent, [Next]_vars, NEW c \in Conv, NEW b \in Agent
  PROVE  LET old == participants[c][b]
             new == participants'[c][b]
         IN  /\ new.status # old.status => <<old.status, new.status>> \in StatusMoves
             /\ old.status # "none" => new.role = old.role
             /\ new.last_read_seq >= old.last_read_seq
<1> DEFINE old == participants[c][b]
           new == participants'[c][b]
<1>1. old \in ParticipantRow /\ old.last_read_seq \in Nat /\ Len(messages[c]) \in Nat
  BY DEF TypeOK, ParticipantRow
<1>2. CASE Opens(c)
  <2>1. old = NoRow
    BY <1>2 DEF Opens, TypeOK
  <2>2. new.status \in {"none", "invited", "active"} /\ new.last_read_seq = 0
    BY <1>2 DEF Opens, OpeningRow, NoRow
  <2> HIDE DEF new, old
  <2> QED BY <2>1, <2>2 DEF NoRow, StatusMoves, new, old
<1>3. CASE Extends(c)
  <2>1. PICK a \in Agent, type \in MessageType :
          /\ participants[c][a].status = "active"
          /\ participants'[c] = [participants[c] EXCEPT ![a].status = StatusAfterPost(@, type)]
    BY <1>3 DEF Extends
  <2>2. RowAfterPost(a, type, b, old, new)
    BY <2>1, ExtendRows
  <2>3. CASE b = a
    <3>1. old.status = "active"
      BY <2>1, <2>3
    <3> HIDE DEF new, old
    <3> QED BY <1>1, <2>2, <2>3, <3>1 DEF RowAfterPost, StatusAfterPost, StatusMoves, new, old
  <2>4. CASE b # a
    <3> HIDE DEF new, old
    <3> QED BY <1>1, <2>2, <2>4 DEF RowAfterPost, new, old
  <2> QED BY <2>3, <2>4
<1>4. CASE Rewrites(c)
  <2>1. CASE new = old
    BY <1>1, <2>1
  <2>2. CASE RowMove(c, old, new)
    <3>1. MoveEffect(c, old, new)
      BY <1>1, <2>2, MoveFacts
    <3>2. old.status = "none" => old.last_read_seq = 0
      BY <1>1 DEF ConsentBeforeContent
    <3> HIDE DEF new, old
    <3> QED BY <1>1, <3>1, <3>2 DEF MoveEffect, StatusMoves, new, old
  <2> QED BY <1>4, <2>1, <2>2, RewriteRows
<1> QED BY <1>2, <1>3, <1>4, StepShape

\* A row never goes back: declines and leaves are final for the agent and for inviters
\* (accept_invite, decline_invite, invite, leave, post_message), roles are fixed and read
\* positions grow (get_conversation).
THEOREM MembershipCorrect == Spec => MembershipMovesForward
<1>1. ASSUME TypeOK, ConsentBeforeContent, [Next]_vars
      PROVE  [\A c \in Conv, a \in Agent :
                LET old == participants[c][a]
                    new == participants'[c][a]
                IN  /\ new.status # old.status => <<old.status, new.status>> \in StatusMoves
                    /\ old.status # "none" => new.role = old.role
                    /\ new.last_read_seq >= old.last_read_seq]_vars
  BY <1>1, MembershipNext
<1> QED BY <1>1, TypeCorrect, ConsentCorrect, PTL DEF Spec, MembershipMovesForward
=============================================================================
