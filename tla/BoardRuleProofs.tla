--------------------------- MODULE BoardRuleProofs ---------------------------
(***************************************************************************)
(* The properties of Board that rest on its rules: who may open, invite    *)
(* and post what, how often, and what is audited.  For every set of agents *)
(* and conversations, every bound, and every ownership unless a theorem    *)
(* says otherwise.                                                         *)
(*                                                                         *)
(* A step opens a conversation, posts in it or invites to it, each under   *)
(* the rules of that call, or it is quiet: then nobody becomes a           *)
(* participant, and nothing the rules compare changes.                     *)
(***************************************************************************)
EXTENDS BoardSafetyProofs, FiniteSetTheorems

-----------------------------------------------------------------------------
(* The shapes of a step *)

\* A start_conversation that was allowed.
RuledOpen(c) ==
  /\ conversations[c].state = "none"
  /\ \E a \in Agent, convType \in OpenedTypes, type \in PostedTypes,
        valid, lookup, late \in BOOLEAN :
       \E targets \in SUBSET (Agent \ {a}), about \in AboutSeq(type) :
         /\ StartAllowed(a, convType, targets, type, valid, lookup)
         /\ OpenConversation(a, c, convType, targets, type, about, late)

\* A post_message that was allowed.
RuledPost(c) ==
  \E a \in Agent, type \in PostedTypes, valid, lookup \in BOOLEAN :
    \E about \in AboutSeq(type) :
      /\ PostAllowed(c, a, type, about, valid, lookup)
      /\ AppendMessage(c, a, type, about)

\* An invite that was allowed.
RuledInvite(c) ==
  \E a, b \in Agent, lookup \in BOOLEAN :
    /\ InviteAllowed(c, a, b, lookup)
    /\ SetRow(c, b, [NoRow EXCEPT !.status = "invited"])
    /\ UNCHANGED <<agents, conversations, messages, aged>>

\* The statuses a participant may get without becoming one.
QuietMove(old, new) ==
  new = old \/ (old # "none" /\ new # "none" /\ (new = "active" => old = "invited"))

\* Nothing the rules compare changes in c, but that time passes.
Quiet(c) ==
  /\ messages'[c] = messages[c]
  /\ conversations'[c].type = conversations[c].type
  /\ conversations'[c].owner_snapshot = conversations[c].owner_snapshot
  /\ \A b \in Agent : QuietMove(participants[c][b].status, participants'[c][b].status)
  /\ aged'[c] \in {aged[c], aged[c] + 1}

\* What does not concern a conversation is quiet there.
LEMMA StillQuiet ==
  ASSUME NEW c, messages'[c] = messages[c], conversations'[c] = conversations[c],
         participants'[c] = participants[c], aged'[c] = aged[c]
  PROVE  Quiet(c)
BY DEF Quiet, QuietMove

\* Only the state of one conversation is written.
LEMMA TouchQuiet ==
  ASSUME TypeOK, NEW k \in Conv, NEW next, Touch(k, next), NEW c \in Conv
  PROVE  /\ conversations'[c].type = conversations[c].type
         /\ conversations'[c].owner_snapshot = conversations[c].owner_snapshot
BY DEF TypeOK, Touch, ConversationRow

\* A denial is quiet.
LEMMA DenyQuiet ==
  ASSUME TypeOK, NEW k \in Conv, DenyBeforeLoad \/ DenyAfterLoad(k), NEW c \in Conv
  PROVE  Quiet(c)
<1>1. CASE DenyBeforeLoad
  BY <1>1, StillQuiet DEF DenyBeforeLoad
<1>2. CASE DenyAfterLoad(k)
  BY <1>2, TouchQuiet DEF DenyAfterLoad, Quiet, QuietMove
<1> QED BY <1>1, <1>2

\* Registration, suspension and time are quiet.
LEMMA OutsideQuiet ==
  ASSUME TypeOK, Register \/ Clock \/ UNCHANGED vars, NEW c \in Conv
  PROVE  Quiet(c)
<1>1. CASE Register \/ UNCHANGED vars
  BY <1>1, StillQuiet DEF Register, RegisterAgent, SuspendAgent, vars
<1>2. ASSUME NEW k \in Conv, DeadlinePasses(k) PROVE Quiet(c)
  <2>1. UNCHANGED <<participants, messages, aged>>
    BY <1>2 DEF DeadlinePasses
  <2>2. /\ conversations'[c].type = conversations[c].type
        /\ conversations'[c].owner_snapshot = conversations[c].owner_snapshot
    BY <1>2 DEF DeadlinePasses, TypeOK, ConversationRow
  <2> QED BY <2>1, <2>2 DEF Quiet, QuietMove
<1>3. ASSUME NEW k \in Conv, MessageAges(k) PROVE Quiet(c)
  <2>1. UNCHANGED <<conversations, participants, messages>>
    BY <1>3 DEF MessageAges
  <2>2. aged'[c] \in {aged[c], aged[c] + 1}
    BY <1>3 DEF MessageAges, TypeOK
  <2> QED BY <2>1, <2>2 DEF Quiet, QuietMove
<1> QED BY <1>1, <1>2, <1>3 DEF Clock

\* A call that moves the status of a row, or none.
LEMMA MoveQuiet ==
  ASSUME TypeOK, NEW k \in Conv, NEW a \in Agent, NEW row,
         Touch(k, ExpiredState(k)), SetRow(k, a, row), UNCHANGED <<messages, aged>>,
         QuietMove(participants[k][a].status, row.status), NEW c \in Conv
  PROVE  Quiet(c)
<1>1. ASSUME NEW b \in Agent
      PROVE  QuietMove(participants[c][b].status, participants'[c][b].status)
  <2>1. participants'[c][b] = participants[c][b]
        \/ (c = k /\ b = a /\ participants'[c][b] = row)
    BY DEF SetRow, TypeOK
  <2> QED BY <2>1 DEF QuietMove
<1> QED BY <1>1, TouchQuiet DEF Quiet

\* Accepting, declining and leaving make nobody a participant.
LEMMA MembershipQuiet ==
  ASSUME TypeOK, NEW k \in Conv, NEW a \in Agent,
         AcceptInvite(k, a) \/ DeclineInvite(k, a) \/ Leave(k, a), NEW c \in Conv
  PROVE  Quiet(c)
<1> DEFINE old == participants[k][a]
           accepted == [old EXCEPT !.status = "active", !.joined = TRUE]
           declined == [old EXCEPT !.status = "declined"]
           left     == [old EXCEPT !.status = "left"]
<1>1. old \in ParticipantRow
  BY DEF TypeOK
<1>2. CASE DenyAfterLoad(k)
  BY <1>2, DenyQuiet
<1>3. CASE ~DenyAfterLoad(k)
  <2>1. /\ Touch(k, ExpiredState(k)) /\ UNCHANGED <<messages, aged>>
        /\ \/ old.status = "invited" /\ SetRow(k, a, accepted)
           \/ old.status = "invited" /\ SetRow(k, a, declined)
           \/ old.status = "active" /\ SetRow(k, a, left)
    BY <1>3 DEF AcceptInvite, DeclineInvite, Leave
  <2>2. /\ old.status = "invited" => QuietMove(old.status, accepted.status)
        /\ old.status = "invited" => QuietMove(old.status, declined.status)
        /\ old.status = "active" => QuietMove(old.status, left.status)
    <3> HIDE DEF old
    <3> QED BY <1>1 DEF ParticipantRow, QuietMove
  <2> HIDE DEF accepted, declined, left
  <2> QED BY <2>1, <2>2, MoveQuiet
<1> QED BY <1>2, <1>3

\* Reading moves no status.
LEMMA GetQuiet ==
  ASSUME TypeOK, NEW k \in Conv, NEW a \in Agent, GetConversation(k, a), NEW c \in Conv
  PROVE  Quiet(c)
<1> DEFINE old == participants[k][a]
<1>1. old \in ParticipantRow
  BY DEF TypeOK
<1>2. CASE DenyBeforeLoad
  BY <1>2, DenyQuiet
<1>3. CASE ~DenyBeforeLoad /\ old.status = "invited"
  <2>1. Touch(k, ExpiredState(k)) /\ UNCHANGED <<participants, messages, aged>>
    BY <1>3 DEF GetConversation
  <2> QED BY <2>1, TouchQuiet DEF Quiet, QuietMove
<1>4. CASE ~DenyBeforeLoad /\ old.status = "active"
  <2>1. PICK n : SetRow(k, a, [old EXCEPT !.last_read_seq = n])
    BY <1>4 DEF GetConversation
  <2>2. Touch(k, ExpiredState(k)) /\ UNCHANGED <<messages, aged>>
    BY <1>4 DEF GetConversation
  <2> DEFINE row == [old EXCEPT !.last_read_seq = n]
  <2>3. QuietMove(old.status, row.status)
    <3> HIDE DEF old
    <3> QED BY <1>1 DEF ParticipantRow, QuietMove
  <2> HIDE DEF row
  <2>4. SetRow(k, a, row)
    BY <2>1 DEF row
  <2> QED BY <2>2, <2>3, <2>4, MoveQuiet
<1> QED BY <1>2, <1>3, <1>4 DEF GetConversation

\* An invite to one conversation is quiet in the others.
LEMMA InviteRuled ==
  ASSUME TypeOK, NEW k \in Conv, NEW a \in Agent, Invite(k, a), NEW c \in Conv
  PROVE  RuledInvite(c) \/ Quiet(c)
<1>1. CASE DenyAfterLoad(k)
  BY <1>1, DenyQuiet
<1>2. CASE RuledInvite(k)
  <2>1. CASE c = k
    BY <1>2, <2>1
  <2>2. CASE c # k
    <3>1. participants'[c] = participants[c]
      BY <1>2, <2>2 DEF RuledInvite, SetRow, TypeOK
    <3> QED BY <1>2, <3>1, StillQuiet DEF RuledInvite
  <2> QED BY <2>1, <2>2
<1> QED BY <1>1, <1>2 DEF Invite, RuledInvite

\* So is the opening of one.
LEMMA StartRuled ==
  ASSUME TypeOK, NEW a \in Agent, NEW k \in Conv, StartConversation(a, k), NEW c \in Conv
  PROVE  RuledOpen(c) \/ Quiet(c)
<1>1. CASE DenyBeforeLoad
  BY <1>1, DenyQuiet
<1>2. CASE ~DenyBeforeLoad
  <2>1. PICK convType \in OpenedTypes, targets \in SUBSET (Agent \ {a}),
             type \in PostedTypes, valid \in BOOLEAN, lookup \in BOOLEAN :
          /\ StartAllowed(a, convType, targets, type, valid, lookup)
          /\ \E about \in AboutSeq(type), late \in BOOLEAN :
               OpenConversation(a, k, convType, targets, type, about, late)
    BY <1>2 DEF StartConversation
  <2>2. PICK about \in AboutSeq(type), late \in BOOLEAN :
          OpenConversation(a, k, convType, targets, type, about, late)
    BY <2>1
  <2>3. CASE c = k
    BY <2>1, <2>2, <2>3 DEF RuledOpen, StartConversation
  <2>4. CASE c # k
    <3>1. /\ conversations'[c] = conversations[c] /\ participants'[c] = participants[c]
          /\ messages'[c] = messages[c] /\ aged' = aged
      BY <2>2, <2>4 DEF OpenConversation, TypeOK
    <3> QED BY <3>1, StillQuiet
  <2> QED BY <2>3, <2>4
<1> QED BY <1>1, <1>2

\* And a post in one.
LEMMA PostRuled ==
  ASSUME TypeOK, NEW k \in Conv, NEW a \in Agent, PostMessage(k, a), NEW c \in Conv
  PROVE  RuledPost(c) \/ Quiet(c)
<1>1. CASE DenyBeforeLoad \/ DenyAfterLoad(k)
  BY <1>1, DenyQuiet
<1>2. CASE RuledPost(k)
  <2>1. CASE c = k
    BY <1>2, <2>1
  <2>2. CASE c # k
    <3>1. \E type, about, b : AppendMessage(k, b, type, about)
      BY <1>2 DEF RuledPost
    <3>2. /\ conversations'[c] = conversations[c] /\ participants'[c] = participants[c]
          /\ messages'[c] = messages[c] /\ aged' = aged
      BY <2>2, <3>1 DEF AppendMessage, Touch, TypeOK
    <3> QED BY <3>2, StillQuiet
  <2> QED BY <2>1, <2>2
<1> QED BY <1>1, <1>2 DEF PostMessage, RuledPost

\* Every step opens, posts or invites under the rules, or is quiet.
LEMMA RuleShape ==
  ASSUME TypeOK, [Next]_vars, NEW c \in Conv
  PROVE  RuledOpen(c) \/ RuledPost(c) \/ RuledInvite(c) \/ Quiet(c)
<1>1. CASE Register \/ Clock \/ UNCHANGED vars
  BY <1>1, OutsideQuiet
<1>2. CASE \E k \in Conv, a \in Agent : Call(k, a)
  BY <1>2, StartRuled, PostRuled, MembershipQuiet, InviteRuled, GetQuiet, DenyQuiet
     DEF Call, CallAsNonMember
<1> QED BY <1>1, <1>2 DEF Next

-----------------------------------------------------------------------------
(* What the shapes do to participants and log *)

\* Everybody with a row in c, whatever its status.
Members(c) == {a \in Agent : HasRow(c, a)}

\* The others a message of a is held against.
Present(c, a) == Others(c, a, {"active", "invited"})

\* What is known of a conversation a has just opened.
OpenedBy(c, a, convType, targets, type, about, lookup) ==
  /\ Admitted(convType, targets \cup {a}, lookup)
  /\ AllAccept(targets, type)
  /\ BoundaryAllows(convType, type, a, targets, lookup)
  /\ conversations'[c].type = convType
  /\ conversations'[c].owner_snapshot =
       IF convType = "open" THEN {} ELSE OwnersAmong(targets \cup {a})
  /\ \A b \in Agent : participants'[c][b] = OpeningRow(a, targets, b)
  /\ messages'[c] = <<[sender |-> a, type |-> type, about |-> about]>>
  /\ messages[c] = << >>
  /\ UNCHANGED <<agents, aged>>

\* An allowed opening, by what its opener passed in.
LEMMA OpenFacts ==
  ASSUME TypeOK, NEW c \in Conv, RuledOpen(c)
  PROVE  \E a \in Agent, convType \in ConversationType, type \in MessageType,
            lookup \in BOOLEAN :
           \E targets \in SUBSET (Agent \ {a}), about \in 0 .. MaxSeq :
             OpenedBy(c, a, convType, targets, type, about, lookup)
<1>1. PICK a \in Agent, convType \in OpenedTypes, type \in PostedTypes,
           valid \in BOOLEAN, lookup \in BOOLEAN, late \in BOOLEAN :
        \E targets \in SUBSET (Agent \ {a}), about \in AboutSeq(type) :
          /\ StartAllowed(a, convType, targets, type, valid, lookup)
          /\ OpenConversation(a, c, convType, targets, type, about, late)
  BY DEF RuledOpen
<1>2. PICK targets \in SUBSET (Agent \ {a}), about \in AboutSeq(type) :
          /\ StartAllowed(a, convType, targets, type, valid, lookup)
          /\ OpenConversation(a, c, convType, targets, type, about, late)
  BY <1>1
<1> DEFINE row  == [type           |-> convType,
                    state          |-> ResultingConversationState("active", type, FALSE),
                    owner_snapshot |-> IF convType = "open" THEN {}
                                       ELSE OwnersAmong(targets \cup {a}),
                    overdue        |-> late]
           rows == [b \in Agent |-> OpeningRow(a, targets, b)]
           m    == [sender |-> a, type |-> type, about |-> about]
<1>3. /\ conversations' = [conversations EXCEPT ![c] = row]
      /\ participants' = [participants EXCEPT ![c] = rows]
      /\ messages' = [messages EXCEPT ![c] = <<m>>]
      /\ UNCHANGED <<agents, aged>>
  BY <1>2 DEF OpenConversation
<1>4. convType \in ConversationType /\ type \in MessageType /\ about \in 0 .. MaxSeq
  BY TypesAssumption, AboutType
<1>5. /\ row.type = convType
      /\ row.owner_snapshot = IF convType = "open" THEN {} ELSE OwnersAmong(targets \cup {a})
      /\ \A b \in Agent : rows[b] = OpeningRow(a, targets, b)
  OBVIOUS
<1> HIDE DEF row, rows, m
<1>6. conversations'[c] = row /\ participants'[c] = rows /\ messages'[c] = <<m>>
  BY <1>3 DEF TypeOK
<1>7. messages[c] = << >>
  BY DEF RuledOpen, TypeOK
<1>8. /\ Admitted(convType, targets \cup {a}, lookup) /\ AllAccept(targets, type)
      /\ BoundaryAllows(convType, type, a, targets, lookup)
  BY <1>2 DEF StartAllowed
<1>9. messages'[c] = <<[sender |-> a, type |-> type, about |-> about]>>
  BY <1>6 DEF m
<1>10. /\ conversations'[c].type = convType
       /\ conversations'[c].owner_snapshot =
            IF convType = "open" THEN {} ELSE OwnersAmong(targets \cup {a})
       /\ \A b \in Agent : participants'[c][b] = OpeningRow(a, targets, b)
  BY <1>5, <1>6
<1>11. UNCHANGED <<agents, aged>>
  BY <1>3
<1>12. OpenedBy(c, a, convType, targets, type, about, lookup)
  BY <1>7, <1>8, <1>9, <1>10, <1>11 DEF OpenedBy
<1> QED BY <1>4, <1>12

\* Who has a row in a conversation just opened.
LEMMA OpeningMembers ==
  ASSUME NEW c \in Conv, NEW a \in Agent, NEW targets \in SUBSET (Agent \ {a}),
         \A b \in Agent : participants'[c][b] = OpeningRow(a, targets, b)
  PROVE  Members(c)' = targets \cup {a}
BY DEF Members, HasRow, OpeningRow, NoRow

\* What is known of a message a has just posted.
PostedBy(c, a, type, about, lookup) ==
  /\ participants[c][a].status = "active"
  /\ UnderLimit(Cardinality(Recent(c, a)), MaxMessages)
  /\ AllAccept(Others(c, a, {"active"}), type)
  /\ BoundaryAllows(conversations[c].type, type, a, Present(c, a), lookup)
  /\ conversations'[c].type = conversations[c].type
  /\ conversations'[c].owner_snapshot = conversations[c].owner_snapshot
  /\ \A b \in Agent \ {a} : participants'[c][b] = participants[c][b]
  /\ participants'[c][a].status \in {"active", "declined"}
  /\ messages'[c] = Append(messages[c], [sender |-> a, type |-> type, about |-> about])
  /\ messages[c] # << >>
  /\ UNCHANGED <<agents, aged>>

\* An allowed post, by its sender and message.
LEMMA PostFacts ==
  ASSUME TypeOK, NEW c \in Conv, RuledPost(c)
  PROVE  \E a \in Agent, type \in MessageType, about \in 0 .. MaxSeq, lookup \in BOOLEAN :
           PostedBy(c, a, type, about, lookup)
<1>1. PICK a \in Agent, type \in PostedTypes, valid \in BOOLEAN, lookup \in BOOLEAN :
        \E about \in AboutSeq(type) : /\ PostAllowed(c, a, type, about, valid, lookup)
                                      /\ AppendMessage(c, a, type, about)
  BY DEF RuledPost
<1>2. PICK about \in AboutSeq(type) : /\ PostAllowed(c, a, type, about, valid, lookup)
                                      /\ AppendMessage(c, a, type, about)
  BY <1>1
<1>3. type \in MessageType /\ about \in 0 .. MaxSeq
  BY TypesAssumption, AboutType
<1>4. /\ participants[c][a].status = "active"
      /\ UnderLimit(Cardinality(Recent(c, a)), MaxMessages)
      /\ AllAccept(Others(c, a, {"active"}), type)
      /\ BoundaryAllows(conversations[c].type, type, a, Present(c, a), lookup)
  BY <1>2 DEF PostAllowed, Present
<1> DEFINE part == [participants[c] EXCEPT ![a].status = StatusAfterPost(@, type)]
           next == ResultingConversationState("active", type, AllNonOwnersDeclined(part))
           m    == [sender |-> a, type |-> type, about |-> about]
<1>5. /\ messages' = [messages EXCEPT ![c] = Append(@, m)]
      /\ participants' = [participants EXCEPT ![c] = part]
      /\ Touch(c, next)
      /\ UNCHANGED <<agents, aged>>
  BY <1>2 DEF AppendMessage
<1>6. /\ \A b \in Agent \ {a} : part[b] = participants[c][b]
      /\ part[a].status \in {"active", "declined"}
  BY <1>4 DEF TypeOK, ParticipantRow, StatusAfterPost
<1> HIDE DEF part, next, m
<1>7. messages'[c] = Append(messages[c], m) /\ participants'[c] = part
  BY <1>5 DEF TypeOK
<1>8. messages[c] # << >>
  BY <1>4 DEF TypeOK, NoRow
<1>9. /\ conversations'[c].type = conversations[c].type
      /\ conversations'[c].owner_snapshot = conversations[c].owner_snapshot
  BY <1>5, TouchQuiet
<1>10. PostedBy(c, a, type, about, lookup)
  BY <1>4, <1>5, <1>6, <1>7, <1>8, <1>9 DEF PostedBy, m
<1> QED BY <1>3, <1>10

\* A post and a quiet step keep who is in, and what the owners are compared with.
KeepsMembers(c) ==
  /\ Members(c)' = Members(c)
  /\ conversations'[c].type = conversations[c].type
  /\ conversations'[c].owner_snapshot = conversations[c].owner_snapshot

\* Only openings and invites change who is in.
LEMMA MembersKept ==
  ASSUME TypeOK, NEW c \in Conv, RuledPost(c) \/ Quiet(c)
  PROVE  KeepsMembers(c)
<1>1. CASE RuledPost(c)
  <2>1. PICK a \in Agent, type \in MessageType, about \in 0 .. MaxSeq, lookup \in BOOLEAN :
          PostedBy(c, a, type, about, lookup)
    BY <1>1, PostFacts
  <2> QED BY <2>1 DEF PostedBy, KeepsMembers, Members, HasRow
<1>2. CASE Quiet(c)
  BY <1>2 DEF Quiet, QuietMove, KeepsMembers, Members, HasRow
<1> QED BY <1>1, <1>2

\* An allowed invite adds one participant, who brings no new owner.
LEMMA InviteFacts ==
  ASSUME TypeOK, NEW c \in Conv, RuledInvite(c)
  PROVE  /\ UNCHANGED <<agents, conversations, messages, aged>>
         /\ \E b \in Agent :
              /\ Members(c)' = Members(c) \cup {b}
              /\ b \notin Members(c)
              /\ participants'[c][b].status = "invited"
              /\ \A d \in Agent \ {b} : participants'[c][d] = participants[c][d]
              /\ conversations[c].state = "active"
              /\ conversations[c].type # "open" =>
                   /\ OwnersOf[b] # {}
                   /\ OwnersOf[b] \subseteq conversations[c].owner_snapshot
<1>1. PICK a \in Agent, b \in Agent, lookup \in BOOLEAN :
        /\ InviteAllowed(c, a, b, lookup)
        /\ SetRow(c, b, [NoRow EXCEPT !.status = "invited"])
        /\ UNCHANGED <<agents, conversations, messages, aged>>
  BY DEF RuledInvite
<1> DEFINE row == [NoRow EXCEPT !.status = "invited"]
<1>2. row.status = "invited"
  BY DEF NoRow
<1>3. ~HasRow(c, b) /\ OwnerFreezeAllows(c, b, lookup) /\ ExpiredState(c) = "active"
  BY <1>1 DEF InviteAllowed
<1>4. SetRow(c, b, row)
  BY <1>1
<1> HIDE DEF row
<1>5. /\ participants'[c][b] = row
      /\ \A d \in Agent \ {b} : participants'[c][d] = participants[c][d]
  BY <1>4 DEF SetRow, TypeOK
<1>6. Members(c)' = Members(c) \cup {b} /\ b \notin Members(c)
  BY <1>2, <1>3, <1>5 DEF Members, HasRow
<1>7. conversations[c].state = "active"
  BY <1>3 DEF ExpiredState
<1>8. conversations[c].type # "open" =>
        OwnersOf[b] # {} /\ OwnersOf[b] \subseteq conversations[c].owner_snapshot
  BY <1>3 DEF OwnerFreezeAllows
<1> QED BY <1>1, <1>2, <1>5, <1>6, <1>7, <1>8

-----------------------------------------------------------------------------
(* The frozen owners *)

\* The part of OwnerSetFrozen about c.
FrozenIn(c) ==
  conversations[c].type # "open" =>
    /\ conversations[c].owner_snapshot = OwnersAmong(Members(c))
    /\ \A a \in Members(c) : OwnersOf[a] # {}

\* An opening stores the owners, an invite adds none, nothing else matters.
LEMMA FrozenNext ==
  ASSUME TypeOK, [Next]_vars, NEW c \in Conv, FrozenIn(c)
  PROVE  FrozenIn(c)'
<1>1. CASE RuledOpen(c)
  <2>1. PICK a \in Agent, convType \in ConversationType, type \in MessageType,
             lookup \in BOOLEAN :
          \E targets \in SUBSET (Agent \ {a}), about \in 0 .. MaxSeq :
            OpenedBy(c, a, convType, targets, type, about, lookup)
    BY <1>1, OpenFacts
  <2>2. PICK targets \in SUBSET (Agent \ {a}), about \in 0 .. MaxSeq :
          OpenedBy(c, a, convType, targets, type, about, lookup)
    BY <2>1
  <2>3. Members(c)' = targets \cup {a}
    BY <2>2, OpeningMembers DEF OpenedBy
  <2>4. convType # "open" => \A x \in targets \cup {a} : OwnersOf[x] # {}
    BY <2>2 DEF OpenedBy, Admitted
  <2> QED BY <2>2, <2>3, <2>4 DEF OpenedBy, FrozenIn, OwnersAmong
<1>2. CASE RuledPost(c) \/ Quiet(c)
  <2>1. KeepsMembers(c)
    BY <1>2, MembersKept
  <2> QED BY <2>1 DEF KeepsMembers, FrozenIn, OwnersAmong
<1>3. CASE RuledInvite(c)
  <2>1. PICK b \in Agent :
              /\ Members(c)' = Members(c) \cup {b}
              /\ conversations[c].type # "open" =>
                   /\ OwnersOf[b] # {}
                   /\ OwnersOf[b] \subseteq conversations[c].owner_snapshot
    BY <1>3, InviteFacts
  <2>2. UNCHANGED conversations
    BY <1>3, InviteFacts
  <2> QED BY <2>1, <2>2 DEF FrozenIn, OwnersAmong
<1> QED BY <1>1, <1>2, <1>3, RuleShape

\* Whoever is invited by whomever, the participants of a conversation bring exactly the
\* owners that were compared when it was opened.
THEOREM OwnersCorrect == Spec => []OwnerSetFrozen
<1> DEFINE Frozen == \A c \in Conv : FrozenIn(c)
<1>1. OwnerSetFrozen <=> Frozen
  BY DEF OwnerSetFrozen, FrozenIn, Members
<1>2. Init => Frozen
  BY DEF Init, FrozenIn, NoConversation
<1>3. TypeOK /\ Frozen /\ [Next]_vars => Frozen'
  BY FrozenNext
<1>4. Frozen => OwnerSetFrozen
  BY <1>1
<1> HIDE DEF Frozen
<1> QED BY <1>2, <1>3, <1>4, TypeCorrect, PTL DEF Spec

-----------------------------------------------------------------------------
(* Admission and notes, with one owner per agent *)

\* Agents act for one owner at most, as AgentTableOwnershipClient answers.
SingleOwners == \A a \in Agent : \A x, y \in OwnersOf[a] : x = y

\* All participants act for the same owner, unless the conversation is open.
SameOwnersIn(c) ==
  conversations[c].type # "open" => \A a, b \in Members(c) : OwnersOf[a] = OwnersOf[b]

\* Two agents that share an owner share all.
LEMMA SharedOwner ==
  ASSUME SingleOwners, NEW a \in Agent, NEW b \in Agent, OwnersOf[a] \cap OwnersOf[b] # {}
  PROVE  OwnersOf[a] = OwnersOf[b]
BY DEF SingleOwners

\* An opening compares the owners pairwise; an invited one shares the only owner there is.
LEMMA SameOwnersNext ==
  ASSUME SingleOwners, TypeOK, [Next]_vars, NEW c \in Conv, FrozenIn(c), SameOwnersIn(c)
  PROVE  SameOwnersIn(c)'
<1>1. CASE RuledOpen(c)
  <2>1. PICK a \in Agent, convType \in ConversationType, type \in MessageType,
             lookup \in BOOLEAN :
          \E targets \in SUBSET (Agent \ {a}), about \in 0 .. MaxSeq :
            OpenedBy(c, a, convType, targets, type, about, lookup)
    BY <1>1, OpenFacts
  <2>2. PICK targets \in SUBSET (Agent \ {a}), about \in 0 .. MaxSeq :
          OpenedBy(c, a, convType, targets, type, about, lookup)
    BY <2>1
  <2>3. Members(c)' = targets \cup {a} /\ conversations'[c].type = convType
    BY <2>2, OpeningMembers DEF OpenedBy
  <2>4. ASSUME convType # "open", NEW x \in targets \cup {a}, NEW y \in targets \cup {a}
        PROVE  OwnersOf[x] = OwnersOf[y]
    <3>1. PairwiseAdmitted(convType, targets \cup {a}, OwnersOf)
      BY <2>2, <2>4 DEF OpenedBy, Admitted
    <3>2. convType \in {"internal", "asymmetric"}
      BY <2>4 DEF ConversationType
    <3>3. CASE x = y
      BY <3>3
    <3>4. CASE x # y /\ convType = "internal"
      BY <2>4, <3>1, <3>4 DEF PairwiseAdmitted
    <3>5. CASE x # y /\ convType = "asymmetric"
      <4>1. OwnersOf[x] \cap OwnersOf[y] # {}
        BY <2>4, <3>1, <3>5 DEF PairwiseAdmitted, MayAssign
      <4> QED BY <2>4, <4>1, SharedOwner
    <3> QED BY <3>2, <3>3, <3>4, <3>5
  <2> QED BY <2>3, <2>4 DEF SameOwnersIn
<1>2. CASE RuledPost(c) \/ Quiet(c)
  BY <1>2, MembersKept DEF KeepsMembers, SameOwnersIn
<1>3. CASE RuledInvite(c)
  <2>1. PICK b \in Agent :
              /\ Members(c)' = Members(c) \cup {b}
              /\ conversations[c].type # "open" =>
                   /\ OwnersOf[b] # {}
                   /\ OwnersOf[b] \subseteq conversations[c].owner_snapshot
    BY <1>3, InviteFacts
  <2>2. UNCHANGED conversations
    BY <1>3, InviteFacts
  <2>3. ASSUME conversations[c].type # "open", NEW x \in Members(c)
        PROVE  OwnersOf[x] = OwnersOf[b]
    <3>1. PICK o \in OwnersOf[b] : o \in OwnersAmong(Members(c))
      BY <2>1, <2>3 DEF FrozenIn
    <3>2. PICK y \in Members(c) : o \in OwnersOf[y]
      BY <3>1 DEF OwnersAmong
    <3>3. OwnersOf[y] = OwnersOf[b]
      BY <3>1, <3>2, SharedOwner DEF Members
    <3> QED BY <2>3, <3>3 DEF SameOwnersIn
  <2> QED BY <2>1, <2>2, <2>3 DEF SameOwnersIn
<1> QED BY <1>1, <1>2, <1>3, RuleShape

\* What a member of the same owners satisfies of the rule of the type.
LEMMA SameOwnersAdmit ==
  ASSUME NEW c \in Conv, FrozenIn(c), SameOwnersIn(c)
  PROVE  PairwiseAdmitted(conversations[c].type, Members(c), OwnersOf)
<1>1. CASE conversations[c].type = "open"
  BY <1>1 DEF PairwiseAdmitted
<1>2. CASE conversations[c].type # "open"
  BY <1>2 DEF PairwiseAdmitted, MayAssign, FrozenIn, SameOwnersIn
<1> QED BY <1>1, <1>2

\* Both hold of every reachable state.
LEMMA OwnersInvariant ==
  SingleOwners /\ Spec => [](\A c \in Conv : FrozenIn(c) /\ SameOwnersIn(c))
<1> DEFINE Same == \A c \in Conv : FrozenIn(c) /\ SameOwnersIn(c)
<1>1. Init => Same
  BY DEF Init, FrozenIn, SameOwnersIn, NoConversation
<1>2. SingleOwners /\ TypeOK /\ Same /\ [Next]_vars => Same'
  BY FrozenNext, SameOwnersNext
<1> HIDE DEF Same
<1>3. SingleOwners /\ Spec => []Same
  <2> SUFFICES ASSUME SingleOwners PROVE Spec => []Same
    OBVIOUS
  <2>1. TypeOK /\ Same /\ [Next]_vars => Same'
    BY <1>2
  <2> QED BY <1>1, <2>1, TypeCorrect, PTL DEF Spec
<1> QED BY <1>3 DEF Same

\* The comparison of owners made at an opening holds of the participants at all times,
\* invited ones included, if every agent acts for one owner at most.
THEOREM AdmissionCorrect == SingleOwners /\ Spec => []AdmissionHolds
<1> DEFINE Same == \A c \in Conv : FrozenIn(c) /\ SameOwnersIn(c)
<1>1. Same => AdmissionHolds
  BY SameOwnersAdmit DEF AdmissionHolds, Members
<1>2. SingleOwners /\ Spec => []Same
  BY OwnersInvariant
<1> HIDE DEF Same
<1> QED BY <1>1, <1>2, PTL

\* No note is in an open conversation.
NotesNotOpen(c) ==
  \A i \in 1 .. Len(messages[c]) :
    ~IsBoundarySafe(messages[c][i].type) => conversations[c].type # "open"

\* An opening and a post are held against the rule; nothing else adds a message.
LEMMA NotesNext ==
  ASSUME TypeOK, [Next]_vars, NEW c \in Conv, NotesNotOpen(c)
  PROVE  NotesNotOpen(c)'
<1>1. CASE RuledOpen(c)
  <2>1. PICK a \in Agent, convType \in ConversationType, type \in MessageType,
             lookup \in BOOLEAN :
          \E targets \in SUBSET (Agent \ {a}), about \in 0 .. MaxSeq :
            OpenedBy(c, a, convType, targets, type, about, lookup)
    BY <1>1, OpenFacts
  <2>2. PICK targets \in SUBSET (Agent \ {a}), about \in 0 .. MaxSeq :
          OpenedBy(c, a, convType, targets, type, about, lookup)
    BY <2>1
  <2>3. ~IsBoundarySafe(type) => convType # "open"
    BY <2>2 DEF OpenedBy, BoundaryAllows, IsBoundaryCrossingSafe
  <2>4. \A i \in 1 .. Len(messages'[c]) : messages'[c][i].type = type
    BY <2>2 DEF OpenedBy
  <2> QED BY <2>2, <2>3, <2>4 DEF OpenedBy, NotesNotOpen
<1>2. CASE RuledPost(c)
  <2>1. PICK a \in Agent, type \in MessageType, about \in 0 .. MaxSeq, lookup \in BOOLEAN :
          PostedBy(c, a, type, about, lookup)
    BY <1>2, PostFacts
  <2>2. ~IsBoundarySafe(type) => conversations[c].type # "open"
    BY <2>1 DEF PostedBy, BoundaryAllows, IsBoundaryCrossingSafe
  <2> DEFINE m == [sender |-> a, type |-> type, about |-> about]
  <2>3. messages[c] \in Seq(Message) /\ messages'[c] = Append(messages[c], m)
    BY <2>1 DEF PostedBy, TypeOK
  <2>4. m.type = type
    OBVIOUS
  <2>5. ASSUME NEW i \in 1 .. Len(messages'[c])
        PROVE  messages'[c][i] = m \/ (i \in 1 .. Len(messages[c]) /\ messages'[c][i] = messages[c][i])
    <3> HIDE DEF m
    <3> QED BY <2>3
  <2> HIDE DEF m
  <2>6. conversations'[c].type = conversations[c].type
    BY <2>1 DEF PostedBy
  <2> QED BY <2>2, <2>4, <2>5, <2>6 DEF NotesNotOpen
<1>3. CASE RuledInvite(c) \/ Quiet(c)
  <2>1. messages'[c] = messages[c] /\ conversations'[c].type = conversations[c].type
    BY <1>3, InviteFacts DEF Quiet
  <2> QED BY <2>1 DEF NotesNotOpen
<1> QED BY <1>1, <1>2, <1>3, RuleShape

\* A note is in no open conversation, and in any other nobody who can read it acts for an
\* owner its sender does not act for, if every agent acts for one owner at most.
THEOREM NotesCorrect == SingleOwners /\ Spec => []NotesStayInside
<1> DEFINE Same  == \A c \in Conv : FrozenIn(c) /\ SameOwnersIn(c)
           Notes == \A c \in Conv : NotesNotOpen(c)
<1>1. Init => Notes
  BY DEF Init, NotesNotOpen
<1>2. TypeOK /\ Notes /\ [Next]_vars => Notes'
  BY NotesNext
<1>3. ASSUME TypeOK, Same, Notes, ConsentBeforeContent PROVE NotesStayInside
  <2> SUFFICES ASSUME NEW c \in Conv, NEW i \in 1 .. Len(messages[c]),
                      ~IsBoundarySafe(messages[c][i].type)
               PROVE  /\ conversations[c].type # "open"
                      /\ \A b \in Agent : participants[c][b].status = "active" =>
                           OwnersOf[b] \subseteq OwnersOf[messages[c][i].sender]
    BY DEF NotesStayInside
  <2> DEFINE a == messages[c][i].sender
  <2>1. conversations[c].type # "open"
    BY <1>3 DEF NotesNotOpen
  <2>2. a \in Agent
    BY <1>3, LogType DEF Message
  <2>3. a \in Members(c)
    BY <1>3, <2>2 DEF ConsentBeforeContent, Members, HasRow
  <2>4. ASSUME NEW b \in Agent, participants[c][b].status = "active"
        PROVE  OwnersOf[b] = OwnersOf[a]
    <3>1. b \in Members(c)
      BY <2>4 DEF Members, HasRow
    <3> QED BY <1>3, <2>1, <2>3, <3>1 DEF SameOwnersIn
  <2> QED BY <2>1, <2>4
<1> HIDE DEF Same, Notes
<1>4. SingleOwners /\ Spec => []Same
  BY OwnersInvariant DEF Same
<1>5. Spec => []Notes
  BY <1>1, <1>2, TypeCorrect, PTL DEF Spec
<1> QED BY <1>3, <1>4, <1>5, TypeCorrect, ConsentCorrect, PTL

-----------------------------------------------------------------------------
(* The message limit *)

\* The messages that count against the limit are finitely many.
LEMMA RecentFinite ==
  ASSUME TypeOK, NEW c \in Conv, NEW a \in Agent
  PROVE  /\ IsFiniteSet(Recent(c, a)) /\ Cardinality(Recent(c, a)) \in Nat
         /\ Recent(c, a) \subseteq 1 .. Len(messages[c])
<1>1. messages[c] \in Seq(Message) /\ aged[c] \in Nat
  BY DEF TypeOK
<1>2. Len(messages[c]) \in Nat
  BY <1>1
<1>3. IsFiniteSet(1 .. Len(messages[c]))
  BY <1>2, FS_Interval
<1>4. Recent(c, a) \subseteq 1 .. Len(messages[c])
  BY <1>1, <1>2 DEF Recent
<1>5. IsFiniteSet(Recent(c, a))
  BY <1>3, <1>4, FS_Subset
<1> QED BY <1>4, <1>5, FS_CardinalityType

\* A set that has at most one element more than another.
LEMMA OneMore ==
  ASSUME NEW S, NEW x, NEW T, IsFiniteSet(S), T \subseteq S \cup {x}
  PROVE  /\ Cardinality(S) \in Nat /\ Cardinality(T) \in Nat
         /\ Cardinality(T) <= Cardinality(S) + 1
         /\ T \subseteq S => Cardinality(T) <= Cardinality(S)
<1>1. /\ IsFiniteSet(S \cup {x})
      /\ Cardinality(S \cup {x}) = IF x \in S THEN Cardinality(S) ELSE Cardinality(S) + 1
  BY FS_AddElement
<1>2. Cardinality(S) \in Nat /\ Cardinality(S \cup {x}) \in Nat
  BY <1>1, FS_CardinalityType
<1>3. IsFiniteSet(T) /\ Cardinality(T) <= Cardinality(S \cup {x})
  BY <1>1, FS_Subset
<1>4. T \subseteq S => Cardinality(T) <= Cardinality(S)
  BY FS_Subset
<1>5. Cardinality(T) \in Nat
  BY <1>3, FS_CardinalityType
<1> QED BY <1>1, <1>2, <1>3, <1>4, <1>5

\* A step adds at most the new message to the recent ones of its sender.
LEMMA LimitNext ==
  ASSUME TypeOK, [Next]_vars, NEW c \in Conv, NEW a \in Agent,
         Cardinality(Recent(c, a)) <= MaxMessages
  PROVE  Cardinality(Recent(c, a)') <= MaxMessages
<1> USE BoundsAssumption
<1> DEFINE old == Recent(c, a)
           new == Recent(c, a)'
<1>1. IsFiniteSet(old) /\ Cardinality(old) \in Nat
  BY RecentFinite
<1>2. TypeOK'
  BY TypeNext
<1>3. /\ messages[c] \in Seq(Message) /\ messages'[c] \in Seq(Message)
      /\ aged[c] \in Nat /\ aged'[c] \in Nat
  BY <1>2 DEF TypeOK
<1>4. ASSUME NEW x, new \subseteq old \cup {x},
             new \subseteq old \/ Cardinality(old) < MaxMessages
      PROVE  Cardinality(new) <= MaxMessages
  <2>1. /\ Cardinality(new) \in Nat /\ Cardinality(new) <= Cardinality(old) + 1
        /\ new \subseteq old => Cardinality(new) <= Cardinality(old)
    BY <1>1, <1>4, OneMore
  <2> QED BY <1>1, <1>4, <2>1
<1>5. CASE RuledOpen(c)
  <2>1. \E m : messages'[c] = <<m>>
    BY <1>5, OpenFacts DEF OpenedBy
  <2>2. new \subseteq {} \cup {1}
    BY <1>3, <2>1 DEF Recent
  <2>3. Cardinality(new) \in Nat /\ Cardinality(new) <= 0 + 1
    BY <2>2, OneMore, FS_EmptySet
  <2> QED BY <2>3
<1>6. CASE RuledPost(c)
  <2>1. PICK b \in Agent, type \in MessageType, about \in 0 .. MaxSeq, lookup \in BOOLEAN :
          PostedBy(c, b, type, about, lookup)
    BY <1>6, PostFacts
  <2> DEFINE m == [sender |-> b, type |-> type, about |-> about]
             n == Len(messages[c]) + 1
  <2>2. messages'[c] = Append(messages[c], m) /\ aged' = aged
    BY <2>1 DEF PostedBy
  <2>3. m.sender = b
    OBVIOUS
  <2> HIDE DEF m
  <2>4. ASSUME NEW i \in new PROVE i \in old \/ (i = n /\ a = b)
    <3>1. /\ i \in aged[c] + 1 .. Len(messages[c]) + 1
          /\ messages'[c][i].sender = a
      BY <1>3, <2>2 DEF Recent
    <3>2. CASE i = n
      BY <1>3, <2>2, <2>3, <3>1, <3>2
    <3>3. CASE i # n
      <4>1. i \in aged[c] + 1 .. Len(messages[c]) /\ messages'[c][i] = messages[c][i]
        BY <1>3, <2>2, <3>1, <3>3
      <4> QED BY <3>1, <4>1 DEF Recent
    <3> QED BY <3>2, <3>3
  <2>5. CASE a # b
    BY <1>4, <2>4, <2>5
  <2>6. CASE a = b
    <3>1. Cardinality(old) < MaxMessages
      BY <2>1, <2>6 DEF PostedBy, UnderLimit
    <3>2. new \subseteq old \cup {n}
      BY <2>4
    <3> QED BY <1>4, <3>1, <3>2
  <2> QED BY <2>5, <2>6
<1>7. CASE RuledInvite(c) \/ Quiet(c)
  <2>1. messages'[c] = messages[c] /\ aged'[c] \in {aged[c], aged[c] + 1}
    BY <1>7, InviteFacts DEF Quiet
  <2>2. new \subseteq old
    BY <1>3, <2>1 DEF Recent
  <2> QED BY <1>4, <2>2
<1> QED BY <1>5, <1>6, <1>7, RuleShape

\* No agent has more recent messages in a conversation than the limit allows, the one it
\* opened the conversation with included.
THEOREM LimitCorrect == Spec => []MessageLimitHolds
<1>1. ASSUME Init PROVE MessageLimitHolds
  <2> SUFFICES ASSUME NEW c \in Conv, NEW a \in Agent
               PROVE  Cardinality(Recent(c, a)) <= MaxMessages
    BY DEF MessageLimitHolds
  <2>1. Recent(c, a) = {}
    BY <1>1 DEF Init, Recent
  <2> QED BY <2>1, FS_EmptySet, BoundsAssumption
<1>2. TypeOK /\ MessageLimitHolds /\ [Next]_vars => MessageLimitHolds'
  BY LimitNext DEF MessageLimitHolds
<1> QED BY <1>1, <1>2, TypeCorrect, PTL DEF Spec

-----------------------------------------------------------------------------
(* New messages *)

\* What an opening and a post were checked against is what the property compares.
LEMMA AdmissibleNext ==
  ASSUME TypeOK, [Next]_vars, NEW c \in Conv, messages'[c] # messages[c]
  PROVE  LET m       == messages'[c][Len(messages'[c])]
             present == {b \in Agent \ {m.sender} :
                           participants'[c][b].status \in {"active", "invited"}}
             bound   == {b \in present : Len(messages[c]) = 0
                                          \/ participants'[c][b].status = "active"}
         IN  /\ \A b \in bound : m.type \in agents[b].accepted_types
             /\ ~IsBoundarySafe(m.type) =>
                  \/ conversations'[c].type = "internal"
                  \/ /\ conversations'[c].type = "asymmetric"
                     /\ OwnersAmong(present) \subseteq OwnersOf[m.sender]
<1> DEFINE m       == messages'[c][Len(messages'[c])]
           present == {b \in Agent \ {m.sender} :
                         participants'[c][b].status \in {"active", "invited"}}
           bound   == {b \in present : Len(messages[c]) = 0
                                        \/ participants'[c][b].status = "active"}
<1>1. CASE RuledOpen(c)
  <2>1. PICK a \in Agent, convType \in ConversationType, type \in MessageType,
             lookup \in BOOLEAN :
          \E targets \in SUBSET (Agent \ {a}), about \in 0 .. MaxSeq :
            OpenedBy(c, a, convType, targets, type, about, lookup)
    BY <1>1, OpenFacts
  <2>2. PICK targets \in SUBSET (Agent \ {a}), about \in 0 .. MaxSeq :
          OpenedBy(c, a, convType, targets, type, about, lookup)
    BY <2>1
  <2>3. m.sender = a /\ m.type = type
    BY <2>2 DEF OpenedBy
  <2>4. present = targets
    BY <2>2, <2>3 DEF OpenedBy, OpeningRow, NoRow
  <2>5. \A b \in targets : type \in agents[b].accepted_types
    BY <2>2 DEF OpenedBy, AllAccept
  <2>6. ~IsBoundarySafe(type) =>
          \/ convType = "internal"
          \/ convType = "asymmetric" /\ OwnersAmong(targets) \subseteq OwnersOf[a]
    BY <2>2 DEF OpenedBy, BoundaryAllows, IsBoundaryCrossingSafe
  <2>7. conversations'[c].type = convType
    BY <2>2 DEF OpenedBy
  <2>8. bound \subseteq present
    OBVIOUS
  <2> HIDE DEF m, present, bound
  <2>9. /\ \A b \in bound : m.type \in agents[b].accepted_types
        /\ ~IsBoundarySafe(m.type) =>
             \/ conversations'[c].type = "internal"
             \/ /\ conversations'[c].type = "asymmetric"
                /\ OwnersAmong(present) \subseteq OwnersOf[m.sender]
    BY <2>3, <2>4, <2>5, <2>6, <2>7, <2>8
  <2> QED BY <2>9 DEF m, present, bound
<1>2. CASE RuledPost(c)
  <2>1. PICK a \in Agent, type \in MessageType, about \in 0 .. MaxSeq, lookup \in BOOLEAN :
          PostedBy(c, a, type, about, lookup)
    BY <1>2, PostFacts
  <2>2. m.sender = a /\ m.type = type
    <3> DEFINE new == [sender |-> a, type |-> type, about |-> about]
    <3>1. new.sender = a /\ new.type = type
      OBVIOUS
    <3>2. messages'[c] = Append(messages[c], new) /\ messages[c] \in Seq(Message)
      BY <2>1 DEF PostedBy, TypeOK
    <3> HIDE DEF new
    <3>3. m = new
      BY <3>2
    <3> QED BY <3>1, <3>3
  <2>3. \A b \in Agent \ {a} : participants'[c][b] = participants[c][b]
    BY <2>1 DEF PostedBy
  <2>4. present = Present(c, a)
    BY <2>2, <2>3 DEF Present, Others
  <2>5. Len(messages[c]) # 0
    BY <2>1 DEF PostedBy, TypeOK
  <2>6. bound \subseteq Others(c, a, {"active"})
    BY <2>2, <2>3, <2>5 DEF Others
  <2>7. \A b \in Others(c, a, {"active"}) : type \in agents[b].accepted_types
    BY <2>1 DEF PostedBy, AllAccept
  <2>8. ~IsBoundarySafe(type) =>
          \/ conversations[c].type = "internal"
          \/ /\ conversations[c].type = "asymmetric"
             /\ OwnersAmong(Present(c, a)) \subseteq OwnersOf[a]
    BY <2>1 DEF PostedBy, BoundaryAllows, IsBoundaryCrossingSafe
  <2>9. conversations'[c].type = conversations[c].type
    BY <2>1 DEF PostedBy
  <2> HIDE DEF m, present, bound
  <2>10. /\ \A b \in bound : m.type \in agents[b].accepted_types
         /\ ~IsBoundarySafe(m.type) =>
              \/ conversations'[c].type = "internal"
              \/ /\ conversations'[c].type = "asymmetric"
                 /\ OwnersAmong(present) \subseteq OwnersOf[m.sender]
    BY <2>2, <2>4, <2>6, <2>7, <2>8, <2>9
  <2> QED BY <2>10 DEF m, present, bound
<1>3. CASE RuledInvite(c) \/ Quiet(c)
  BY <1>3, InviteFacts DEF Quiet
<1> QED BY <1>1, <1>2, <1>3, RuleShape

\* Whichever tool appends it, a new message is declared by everyone it binds, and a note
\* meets no owner outside its sender's.
THEOREM MessagesCorrect == Spec => NewMessagesAreAdmissible
<1>1. ASSUME TypeOK, [Next]_vars
      PROVE  [\A c \in Conv : messages'[c] # messages[c] =>
                LET m       == messages'[c][Len(messages'[c])]
                    present == {b \in Agent \ {m.sender} :
                                  participants'[c][b].status \in {"active", "invited"}}
                    bound   == {b \in present : Len(messages[c]) = 0
                                                 \/ participants'[c][b].status = "active"}
                IN  /\ \A b \in bound : m.type \in agents[b].accepted_types
                    /\ ~IsBoundarySafe(m.type) =>
                         \/ conversations'[c].type = "internal"
                         \/ /\ conversations'[c].type = "asymmetric"
                            /\ OwnersAmong(present) \subseteq OwnersOf[m.sender]]_vars
  BY <1>1, AdmissibleNext
<1> QED BY <1>1, TypeCorrect, PTL DEF Spec, NewMessagesAreAdmissible

-----------------------------------------------------------------------------
(* What is audited *)

\* A call that was refused: before it loaded the conversation k, or after.
Refused == DenyBeforeLoad \/ \E k \in Conv : DenyAfterLoad(k)

\* A step under which no state moves.
Silent ==
  /\ \A c \in Conv : conversations'[c].state = conversations[c].state
  /\ audit' \cap {"conversation.expire", "conversation.close", "denied"} = {}

\* A served call that loads k and moves its state to expired at most.
Loads(k) ==
  /\ Touch(k, ExpiredState(k))
  /\ "conversation.expire" \in audit' <=> Overdue(k)
  /\ audit' \cap {"conversation.close", "denied"} = {}

\* An opening of k or a post in it.
Decides(k) ==
  /\ conversations[k].state \in {"none", "active"}
  /\ conversations'[k].state \in {"active", "completed", "canceled"}
  /\ \A c \in Conv \ {k} : conversations'[c] = conversations[c]
  /\ "conversation.close" \in audit' <=> conversations'[k].state # "active"
  /\ audit' \cap {"conversation.expire", "denied"} = {}

\* An opening decides the first state of its conversation.
LEMMA StartAudit ==
  ASSUME TypeOK, NEW k \in Conv, NEW a \in Agent, StartConversation(a, k)
  PROVE  Refused \/ Decides(k)
<1>1. CASE DenyBeforeLoad
  BY <1>1 DEF Refused
<1>2. CASE ~DenyBeforeLoad
  <2>1. PICK convType, targets, type, about, late :
          OpenConversation(a, k, convType, targets, type, about, late)
    BY <1>2 DEF StartConversation
  <2> DEFINE next == ResultingConversationState("active", type, FALSE)
             row  == [type           |-> convType,
                      state          |-> next,
                      owner_snapshot |-> IF convType = "open" THEN {}
                                         ELSE OwnersAmong(targets \cup {a}),
                      overdue        |-> late]
  <2>2. next \in {"active", "completed", "canceled"}
    BY DEF ResultingConversationState
  <2>3. row.state = next
    OBVIOUS
  <2>4. /\ conversations' = [conversations EXCEPT ![k] = row]
        /\ audit' = {"conversation.start", "message.post"}
                      \cup (IF next = "active" THEN {} ELSE {"conversation.close"})
    BY <2>1 DEF OpenConversation
  <2>5. conversations[k].state = "none"
    BY DEF StartConversation
  <2> HIDE DEF next, row
  <2>6. conversations'[k] = row /\ \A c \in Conv \ {k} : conversations'[c] = conversations[c]
    BY <2>4 DEF TypeOK
  <2> QED BY <2>2, <2>3, <2>4, <2>5, <2>6 DEF Decides
<1> QED BY <1>1, <1>2

\* A post decides the next state of an active conversation.
LEMMA PostAudit ==
  ASSUME TypeOK, NEW k \in Conv, NEW a \in Agent, PostMessage(k, a)
  PROVE  Refused \/ Decides(k)
<1>1. CASE Refused
  BY <1>1
<1>2. CASE ~Refused
  <2>1. PICK type, about, valid, lookup : /\ PostAllowed(k, a, type, about, valid, lookup)
                                          /\ AppendMessage(k, a, type, about)
    BY <1>2 DEF PostMessage, Refused
  <2> DEFINE part == [participants[k] EXCEPT ![a].status = StatusAfterPost(@, type)]
             next == ResultingConversationState("active", type, AllNonOwnersDeclined(part))
  <2>2. next \in {"active", "completed", "canceled"}
    BY DEF ResultingConversationState
  <2>3. /\ Touch(k, next)
        /\ audit' = {"message.post"}
                      \cup (IF type = "decline" THEN {"participant.decline"} ELSE {})
                      \cup (IF next = "active" THEN {} ELSE {"conversation.close"})
    BY <2>1 DEF AppendMessage
  <2>4. conversations[k].state = "active"
    BY <2>1 DEF PostAllowed, IsMessageLegal, ExpiredState
  <2> HIDE DEF next
  <2>5. /\ conversations'[k].state = next
        /\ \A c \in Conv \ {k} : conversations'[c] = conversations[c]
    BY <2>3 DEF Touch, TypeOK, ConversationRow
  <2> QED BY <2>2, <2>3, <2>4, <2>5 DEF Decides
<1> QED BY <1>1, <1>2

\* The other calls on a conversation load it, or are refused, or audit an invite.
LEMMA MemberAudit ==
  ASSUME TypeOK, NEW k \in Conv, NEW a \in Agent,
         \/ AcceptInvite(k, a) \/ DeclineInvite(k, a) \/ Leave(k, a)
         \/ Invite(k, a) \/ GetConversation(k, a) \/ CallAsNonMember(k, a)
  PROVE  Refused \/ Silent \/ Loads(k)
<1>1. CASE AcceptInvite(k, a) \/ DeclineInvite(k, a) \/ Leave(k, a)
  BY <1>1 DEF AcceptInvite, DeclineInvite, Leave, Refused, Loads, ExpiryAudit
<1>2. CASE Invite(k, a)
  BY <1>2 DEF Invite, Refused, Silent
<1>3. CASE GetConversation(k, a) \/ CallAsNonMember(k, a)
  BY <1>3 DEF GetConversation, CallAsNonMember, Refused, Loads, ExpiryAudit
<1> QED BY <1>1, <1>2, <1>3

\* Every step is refused, moves no state, loads a conversation or decides its state.
LEMMA AuditShape ==
  ASSUME TypeOK, Next
  PROVE  Refused \/ Silent \/ \E k \in Conv : Loads(k) \/ Decides(k)
<1>1. CASE Register
  BY <1>1 DEF Register, RegisterAgent, SuspendAgent, Silent
<1>2. CASE Clock
  <2>1. ASSUME NEW k \in Conv, DeadlinePasses(k) PROVE Silent
    <3>1. \A c \in Conv : conversations'[c].state = conversations[c].state
      BY <2>1 DEF DeadlinePasses, TypeOK, ConversationRow
    <3> QED BY <2>1, <3>1 DEF DeadlinePasses, Silent
  <2>2. ASSUME NEW k \in Conv, MessageAges(k) PROVE Silent
    BY <2>2 DEF MessageAges, Silent
  <2> QED BY <1>2, <2>1, <2>2 DEF Clock
<1>3. CASE \E k \in Conv, a \in Agent : Call(k, a)
  BY <1>3, StartAudit, PostAudit, MemberAudit DEF Call
<1> QED BY <1>1, <1>2, <1>3 DEF Next

\* What a lazy expiry does to the row of a conversation.
LEMMA ExpiryRow ==
  ASSUME TypeOK, NEW k \in Conv, Touch(k, ExpiredState(k)), NEW c \in Conv
  PROVE  IF c = k /\ Overdue(k)
         THEN conversations'[c] = [conversations[c] EXCEPT !.state = "expired"]
         ELSE conversations'[c] = conversations[c]
BY DEF TypeOK, Touch, ExpiredState, ConversationRow

\* A refused call writes its audit row and the expiry of the conversation it loaded, itself
\* audited (the commit inside _deny).
THEOREM DenialsCorrect == Spec => DenialsAreInert
<1> DEFINE Inert == "denied" \in audit' =>
              /\ UNCHANGED <<agents, participants, messages, aged>>
              /\ \A c \in Conv :
                   \/ UNCHANGED conversations[c]
                   \/ /\ Overdue(c) /\ "conversation.expire" \in audit'
                      /\ conversations'[c] = [conversations[c] EXCEPT !.state = "expired"]
<1>1. ASSUME TypeOK, [Next]_vars PROVE [Inert]_vars
  <2> SUFFICES ASSUME Next, "denied" \in audit' PROVE Inert
    BY <1>1
  <2>1. Refused
    BY <1>1, AuditShape DEF Silent, Loads, Decides
  <2>2. CASE DenyBeforeLoad
    BY <2>2 DEF DenyBeforeLoad
  <2>3. ASSUME NEW k \in Conv, DenyAfterLoad(k) PROVE Inert
    <3>1. /\ Touch(k, ExpiredState(k)) /\ UNCHANGED <<agents, participants, messages, aged>>
          /\ Overdue(k) => "conversation.expire" \in audit'
      BY <2>3 DEF DenyAfterLoad, ExpiryAudit
    <3> QED BY <1>1, <3>1, ExpiryRow
  <2> QED BY <2>1, <2>2, <2>3 DEF Refused
<1> QED BY <1>1, TypeCorrect, PTL DEF Spec, DenialsAreInert

\* A state moves to expired exactly when that is audited, and to a closed one exactly when
\* that is (_maybe_expire, start_conversation, post_message).
THEOREM TransitionsCorrect == Spec => TransitionsAudited
<1> DEFINE Expiring == \E c \in Conv : /\ conversations[c].state # "expired"
                                       /\ conversations'[c].state = "expired"
           Closing  == \E c \in Conv : /\ conversations[c].state \in {"none", "active"}
                                       /\ conversations'[c].state \in {"completed", "canceled"}
           Audited  == /\ "conversation.expire" \in audit' <=> Expiring
                       /\ "conversation.close" \in audit' <=> Closing
<1>1. ASSUME TypeOK, NEW k \in Conv, Touch(k, ExpiredState(k)),
             "conversation.expire" \in audit' <=> Overdue(k),
             "conversation.close" \notin audit'
      PROVE  Audited
  <2>1. ASSUME NEW c \in Conv
        PROVE  conversations'[c].state = IF c = k /\ Overdue(k) THEN "expired"
                                         ELSE conversations[c].state
    <3>1. [conversations[c] EXCEPT !.state = "expired"].state = "expired"
      BY <1>1 DEF TypeOK, ConversationRow
    <3> QED BY <1>1, <3>1, ExpiryRow
  <2>2. Overdue(k) => conversations[k].state = "active"
    BY DEF Overdue
  <2> QED BY <1>1, <2>1, <2>2
<1>2. ASSUME TypeOK, [Next]_vars PROVE [Audited]_vars
  <2> SUFFICES ASSUME Next PROVE Audited
    BY <1>2
  <2>1. CASE DenyBeforeLoad
    BY <2>1 DEF DenyBeforeLoad
  <2>2. ASSUME NEW k \in Conv, DenyAfterLoad(k) PROVE Audited
    <3>1. /\ Touch(k, ExpiredState(k))
          /\ "conversation.expire" \in audit' <=> Overdue(k)
          /\ "conversation.close" \notin audit'
      BY <2>2 DEF DenyAfterLoad, ExpiryAudit
    <3> HIDE DEF Audited
    <3> QED BY <1>1, <1>2, <3>1
  <2>3. CASE Silent
    BY <2>3 DEF Silent
  <2>4. ASSUME NEW k \in Conv, Loads(k) PROVE Audited
    <3> HIDE DEF Audited
    <3> QED BY <1>1, <1>2, <2>4 DEF Loads
  <2>5. ASSUME NEW k \in Conv, Decides(k) PROVE Audited
    BY <2>5 DEF Decides
  <2> QED BY <1>2, <2>1, <2>2, <2>3, <2>4, <2>5, AuditShape DEF Refused
<1> QED BY <1>2, TypeCorrect, PTL DEF Spec, TransitionsAudited
=============================================================================
