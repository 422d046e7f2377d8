------------------------------ MODULE BoardTx -------------------------------
(***************************************************************************)
(* One conversation under concurrent tool calls.  Every call runs in a     *)
(* database session of its own and is cut here at its awaits: each SELECT  *)
(* is a step that sees what is committed then (READ COMMITTED), and the    *)
(* writes appear with the commit.  Between the two a call decides on what  *)
(* it read, however old that is.                                           *)
(*                                                                         *)
(* Only post_message locks the conversation row (FOR UPDATE).  The others  *)
(* meet that lock at their commit: the audit and participant rows they     *)
(* insert refer to the conversation, which takes FOR KEY SHARE on its row. *)
(* get_conversation inserts nothing unless it expires the conversation,    *)
(* which it flushes before it reads the messages, keeping the row locked   *)
(* against other writers of the row (FOR NO KEY UPDATE) until it commits.  *)
(* A call writes participant rows after everything that waits for the      *)
(* conversation (the flush inserts audit rows first), so it never waits    *)
(* while it holds one and their locks are left out.                        *)
(*                                                                         *)
(* The rate limits, the payload and the capability and ownership rules are *)
(* in Board; here a post may be refused by them and the model keeps what   *)
(* they were decided on.                                                   *)
(***************************************************************************)
EXTENDS Naturals, FiniteSets, Policy

CONSTANTS
  Agent,                 \* registered agents
  Creator,               \* the agent that opened the conversation
  Targets,               \* the agents invited at the opening
  Call,                  \* tool calls in flight at once
  NoCall,                \* none of them
  Ops,                   \* the operations called
  PostedTypes,           \* the message types posted
  MaxSeq                 \* bound: messages in the conversation

ASSUME PartiesAssumption == /\ Creator \in Agent
                            /\ Targets \subseteq Agent \ {Creator} /\ Targets # {}

ASSUME OpsAssumption ==
  /\ NoCall \notin Call
  /\ Ops \subseteq {"post", "accept", "decline_invite", "leave", "invite", "get",
                "inbox"}
  /\ PostedTypes \subseteq MessageType

ASSUME BoundAssumption == MaxSeq \in Nat \ {0}

VARIABLES
  state,                 \* conversations.state
  overdue,               \* expires_at <= now
  status,                \* status[a]: participants.status, "none" without a row
  joined,                \* the agents whose joined_at is set
  last_read,             \* last_read[a]: participants.last_read_seq
  messages,              \* the rows of table messages
  lock,                  \* the call that holds the conversation row, or NoCall
  call                   \* call[k]: the local state of call k

db   == <<state, overdue, status, joined, last_read, messages>>
vars == <<state, overdue, status, joined, last_read, messages, lock, call>>

\* What a call has read and decided, as long as it matters: cstate, cstatus and
\* cursor are columns of the loaded rows, staged the lazy expiry waiting for the
\* commit, others the participants the rules looked at, seq the last or the next
\* sequence number.
Idle == [pc |-> "idle", op |-> "none", agent |-> Creator, target |-> Creator,
         type |-> "note", cstate |-> "active", cstatus |-> "none", cursor |-> 0,
         staged |-> FALSE, denied |-> FALSE, others |-> {}, seq |-> 0]

\* The conversation just opened by start_conversation, with a message that does
\* not close it.
Init == /\ state     = "active"
        /\ overdue   \in BOOLEAN
        /\ status    = [a \in Agent |-> IF a = Creator THEN "active"
                                        ELSE IF a \in Targets THEN "invited" ELSE "none"]
        /\ joined    = {Creator}
        /\ last_read = [a \in Agent |-> 0]
        /\ messages  = {[seq |-> 1, sender |-> Creator, type |-> "counter_proposal"]}
        /\ lock      = NoCall
        /\ call      = [k \in Call |-> Idle]

-----------------------------------------------------------------------------
Role(a) == IF a = Creator THEN "owner" ELSE "member"

\* max(seq); there is always the opening message.
LastSeq == CHOOSE n \in {m.seq : m \in messages} : \A m \in messages : m.seq <= n

\* Every member of the table st is declined, and there is one.
AllNonOwnersDeclined(st) ==
  LET members == {a \in Agent \ {Creator} : st[a] # "none"}
  IN  members # {} /\ \A a \in members : st[a] = "declined"

\* The other participants a message by a will have to be fit for.
Present(a) == {b \in Agent \ {a} : status[b] \in {"active", "invited"}}

At(k, op, pc) == call[k].op = op /\ call[k].pc = pc

Goto(k, changed) == call' = [call EXCEPT ![k] = changed]

\* The row is free for a call that writes it or locks it.
RowFree(k) == lock \in {NoCall, k}

\* Only a post's FOR UPDATE keeps other calls from inserting rows that refer to
\* the conversation.
MayRefer(k) == \A h \in Call \ {k} : lock = h => call[h].op # "post"

\* Faulty variant of the next definition: the lock outlives the call.
KeepLock(k) == lock

Release(k) == IF lock = k THEN NoCall ELSE lock

-----------------------------------------------------------------------------
(* Reading *)

\* A tool call arrives.
Begin(k) ==
  /\ call[k].pc = "idle"
  /\ \E op \in Ops, a \in Agent :
       \E t \in (IF op = "post" THEN PostedTypes ELSE {"note"}),
          b \in (IF op = "invite" THEN Agent \ {a} ELSE {Creator}) :
         Goto(k, [Idle EXCEPT !.pc = IF op = "inbox" THEN "unread" ELSE "load", !.op = op, !.agent = a,
                              !.target = b, !.type = t])
  /\ UNCHANGED <<db, lock>>

\* Faulty variant of the next definition: a post reads without a lock.
LoadUnlocked(k) ==
  /\ call[k].pc = "load"
  /\ UNCHANGED lock
  /\ Goto(k, [call[k] EXCEPT !.pc = "row", !.cstate = state])
  /\ UNCHANGED db

\* _find_conversation, with FOR UPDATE for a post.
Load(k) ==
  /\ call[k].pc = "load"
  /\ IF call[k].op = "post" THEN RowFree(k) /\ lock' = k ELSE UNCHANGED lock
  /\ Goto(k, [call[k] EXCEPT !.pc = "row", !.cstate = state])
  /\ UNCHANGED db

\* Whether the loaded conversation and row, as the call knows them, allow it on.
Admits(op, type, role, cstate, cstatus) ==
  CASE op = "post"           -> /\ cstatus = "active"
                                /\ IsMessageLegal(cstate, type)
                                /\ SenderRoleAllows(type, role)
    [] op = "accept"         -> cstatus = "invited" /\ cstate \notin {"completed", "canceled"}
    [] op = "decline_invite" -> cstatus = "invited"
    [] op = "leave"          -> cstatus = "active"
    [] op = "invite"         -> MayInvite(cstatus) /\ cstate = "active"
    [] op = "get"            -> cstatus \in {"active", "invited"}

\* A refused call has only its denial, and a staged expiry, to commit.
Refused(k, expires) ==
  [Idle EXCEPT !.pc = "commit", !.op = call[k].op, !.staged = expires, !.denied = TRUE]

NextPc(op) == CASE op = "post"   -> "others"
                [] op = "invite" -> "existing"
                [] op = "get"    -> "flush"
                [] OTHER         -> "commit"

\* _find_participant, _maybe_expire and the checks on the two rows.  A caller
\* without a row, and a reader that left or declined, are denied before the expiry.
ReadRow(k) ==
  LET me      == call[k]
      cstatus == status[me.agent]
      expires == /\ me.cstate = "active" /\ overdue
                 /\ cstatus # "none"
                 /\ me.op = "get" => cstatus \in {"active", "invited"}
      cstate  == IF expires THEN "expired" ELSE me.cstate
      ok      == Admits(me.op, me.type, Role(me.agent), cstate, cstatus)
  IN  /\ me.pc = "row"
      /\ Goto(k, IF ok
                 THEN [me EXCEPT !.pc = NextPc(me.op), !.staged = expires,
                                 !.cstate = Idle.cstate,
                                 !.cstatus = IF me.op = "get" THEN cstatus ELSE @,
                                 !.cursor = IF me.op = "get" THEN last_read[me.agent] ELSE @]
                 ELSE Refused(k, expires))
      /\ UNCHANGED <<db, lock>>

\* _check_boundary_crossing: the participants the capability and ownership rules
\* are evaluated on.  The rules, the payload or the rate limit may refuse the
\* post; MaxSeq is a bound that always does.
ReadOthers(k) ==
  /\ At(k, "post", "others")
  /\ \E refused \in BOOLEAN :
       /\ LastSeq >= MaxSeq => refused
       /\ Goto(k, IF refused
                  THEN Refused(k, FALSE)
                  ELSE [call[k] EXCEPT !.others = Present(call[k].agent), !.pc = "max"])
  /\ UNCHANGED <<db, lock>>

\* Faulty variant of the next definition: one is added twice.
SkipSeq(k) ==
  /\ At(k, "post", "max")
  /\ Goto(k, [call[k] EXCEPT !.seq = LastSeq + 2, !.pc = "commit"])
  /\ UNCHANGED <<db, lock>>

\* next_seq = max(seq) + 1.
ReadMaxSeq(k) ==
  /\ At(k, "post", "max")
  /\ Goto(k, [call[k] EXCEPT !.seq = LastSeq + 1, !.pc = "commit"])
  /\ UNCHANGED <<db, lock>>

\* invite: the lookup of an existing row of the target, in any status.
ReadExisting(k) ==
  /\ At(k, "invite", "existing")
  /\ Goto(k, IF status[call[k].target] # "none"
             THEN Refused(k, FALSE)
             ELSE [call[k] EXCEPT !.pc = "commit"])
  /\ UNCHANGED <<db, lock>>

\* Faulty variant of the next definition: an invited caller reads on.
FlushForAll(k) ==
  /\ At(k, "get", "flush")
  /\ IF call[k].staged THEN RowFree(k) /\ lock' = k ELSE UNCHANGED lock
  /\ Goto(k, [call[k] EXCEPT !.pc = "messages"])
  /\ UNCHANGED db

\* get_conversation: the query for the participants flushes a staged expiry.  An
\* invited caller goes no further.
Flush(k) ==
  /\ At(k, "get", "flush")
  /\ IF call[k].staged THEN RowFree(k) /\ lock' = k ELSE UNCHANGED lock
  /\ Goto(k, [call[k] EXCEPT !.pc = IF call[k].cstatus = "invited"
                                    THEN "commit" ELSE "messages"])
  /\ UNCHANGED db

\* get_conversation: the messages it will return.
ReadMessages(k) ==
  /\ At(k, "get", "messages")
  /\ Goto(k, [call[k] EXCEPT !.seq = LastSeq, !.pc = "commit"])
  /\ UNCHANGED <<db, lock>>

\* Faulty variant of the next definition: invited participants count too.
UnreadOfInvited(k) ==
  /\ At(k, "inbox", "unread")
  /\ LET a == call[k].agent
     IN  IF status[a] \in {"active", "invited"} /\ LastSeq > last_read[a]
         THEN Goto(k, [call[k] EXCEPT !.seq = LastSeq, !.pc = "latest"])
         ELSE Goto(k, [call[k] EXCEPT !.pc = "pending"])
  /\ UNCHANGED <<db, lock>>

\* inbox: whether the conversation has messages past the cursor of an active
\* participant, and the number of the last of them.
ReadUnread(k) ==
  /\ At(k, "inbox", "unread")
  /\ LET a == call[k].agent
     IN  IF status[a] = "active" /\ LastSeq > last_read[a]
         THEN Goto(k, [call[k] EXCEPT !.seq = LastSeq, !.pc = "latest"])
         ELSE Goto(k, [call[k] EXCEPT !.pc = "pending"])
  /\ UNCHANGED <<db, lock>>

\* inbox: the message of that number; without one the lookup raises.
ReadLatest(k) ==
  /\ At(k, "inbox", "latest")
  /\ \E m \in messages : m.seq = call[k].seq
  /\ Goto(k, [call[k] EXCEPT !.pc = "pending"])
  /\ UNCHANGED <<db, lock>>

\* inbox: the pending invite, and the answer; nothing is committed.
ReadPending(k) ==
  /\ At(k, "inbox", "pending")
  /\ Goto(k, Idle)
  /\ UNCHANGED <<db, lock>>

-----------------------------------------------------------------------------
(* Committing *)

\* Faulty variant of the next definition: without the foreign keys nothing waits
\* for a post.
CommitAtOnce(k) == call[k].pc = "commit"

\* The commit waits for the row locks its writes need: any row that refers to the
\* conversation waits for a post, an expiry for any holder of the row.
CanCommit(k) ==
  /\ call[k].pc = "commit"
  /\ call[k].op # "get" \/ call[k].staged \/ call[k].denied => MayRefer(k)
  /\ call[k].staged => RowFree(k)

\* The session closes, its row lock is released.
Finish(k) == Goto(k, Idle) /\ lock' = Release(k)

\* The staged expiry overwrites whatever state is committed by now.
WriteExpiry(k) == state' = IF call[k].staged THEN "expired" ELSE state

CommitDenial(k) ==
  /\ CanCommit(k) /\ call[k].denied
  /\ WriteExpiry(k)
  /\ UNCHANGED <<overdue, status, joined, last_read, messages>>
  /\ Finish(k)

\* accept_invite, decline_invite and leave update the status of the loaded row,
\* whatever status is committed by now.
CommitMembership(k) ==
  LET me == call[k]
  IN  /\ CanCommit(k) /\ ~me.denied
      /\ me.op \in {"accept", "decline_invite", "leave"}
      /\ status' = [status EXCEPT ![me.agent] =
                      CASE me.op = "accept"         -> "active"
                        [] me.op = "decline_invite" -> "declined"
                        [] me.op = "leave"          -> "left"]
      /\ joined' = IF me.op = "accept" THEN joined \cup {me.agent} ELSE joined
      /\ WriteExpiry(k)
      /\ UNCHANGED <<overdue, last_read, messages>>
      /\ Finish(k)

\* The insert of the new row fails on the primary key if another invite of the
\* same agent was committed first.
CommitInvite(k) ==
  LET me == call[k]
  IN  /\ CanCommit(k) /\ ~me.denied
      /\ me.op = "invite" /\ status[me.target] = "none"
      /\ status' = [status EXCEPT ![me.target] = "invited"]
      /\ UNCHANGED <<state, overdue, joined, last_read, messages>>
      /\ Finish(k)

\* The cursor moves if the messages read go beyond the cursor read.
CommitGet(k) ==
  LET me == call[k]
  IN  /\ CanCommit(k) /\ ~me.denied
      /\ me.op = "get"
      /\ last_read' = [last_read EXCEPT ![me.agent] = IF me.seq > me.cursor THEN me.seq ELSE @]
      /\ WriteExpiry(k)
      /\ UNCHANGED <<overdue, status, joined, messages>>
      /\ Finish(k)

SeqTaken(k) == \E m \in messages : m.seq = call[k].seq

\* The message and its side effects; the insert fails on the unique constraint if
\* the number is taken.
CommitPost(k) ==
  LET me == call[k]
      st == IF me.type = "decline" THEN [status EXCEPT ![me.agent] = "declined"] ELSE status
  IN  /\ CanCommit(k) /\ ~me.denied
      /\ me.op = "post" /\ ~SeqTaken(k)
      /\ messages' = messages \cup {[seq |-> me.seq, sender |-> me.agent, type |-> me.type]}
      /\ status' = st
      /\ state' = ResultingConversationState(state, me.type, AllNonOwnersDeclined(st))
      /\ UNCHANGED <<overdue, joined, last_read>>
      /\ Finish(k)

\* IntegrityError: a constraint refuses the insert and the transaction rolls back.
ConstraintFails(k) ==
  /\ CanCommit(k) /\ ~call[k].denied
  /\ \/ call[k].op = "invite" /\ status[call[k].target] # "none"
     \/ call[k].op = "post" /\ SeqTaken(k)
  /\ UNCHANGED db
  /\ Finish(k)

\* An exception, a cancelled request or a lost connection, at any point.
Abort(k) ==
  /\ call[k].pc # "idle"
  /\ UNCHANGED db
  /\ Finish(k)

DeadlinePasses ==
  /\ ~overdue /\ overdue' = TRUE
  /\ UNCHANGED <<state, status, joined, last_read, messages, lock, call>>

-----------------------------------------------------------------------------
Read(k) == \/ Load(k) \/ ReadRow(k) \/ ReadOthers(k) \/ ReadMaxSeq(k)
           \/ ReadExisting(k) \/ Flush(k) \/ ReadMessages(k)
           \/ ReadUnread(k) \/ ReadLatest(k) \/ ReadPending(k)

Commit(k) == \/ CommitDenial(k) \/ CommitMembership(k) \/ CommitInvite(k)
             \/ CommitGet(k) \/ CommitPost(k) \/ ConstraintFails(k)

Next == \/ \E k \in Call : Begin(k) \/ Read(k) \/ Commit(k) \/ Abort(k)
        \/ DeadlinePasses

Spec == Init /\ [][Next]_vars

\* Coroutines go on when their statement answers, and the waiters of a row lock are
\* queued: a call that is again and again able to proceed does.
FairSpec == Spec /\ \A k \in Call : SF_vars(Read(k) \/ Commit(k))

-----------------------------------------------------------------------------
(* Correctness *)

Pcs == {"idle", "load", "row", "others", "max", "existing", "flush", "messages", "commit",
        "unread", "latest", "pending"}

Statuses == ParticipantStatus \cup {"none"}

Message == [seq : Nat, sender : Agent, type : MessageType]

CallState == [pc : Pcs, op : Ops \cup {"none"}, agent : Agent, target : Agent,
              type : MessageType, cstate : ConversationState, cstatus : Statuses,
              cursor : Nat, staged : BOOLEAN, denied : BOOLEAN,
              others : SUBSET Agent, seq : Nat]

\* Rows and the local states of the calls are of their types.
TypeOK == /\ state \in ConversationState
          /\ overdue \in BOOLEAN
          /\ status \in [Agent -> Statuses]
          /\ joined \subseteq Agent
          /\ last_read \in [Agent -> Nat]
          /\ messages \subseteq Message
          /\ lock \in Call \cup {NoCall}
          /\ call \in [Call -> CallState]

\* Sequence numbers are unique and without gaps, whatever the order the posts of
\* several senders interleave, fail or roll back in.
SeqsGapless == {m.seq : m \in messages} = 1 .. Cardinality(messages)

\* What a post decided on is still true when it commits, many awaits later: the
\* conversation is active, its sender an active participant, the participants it
\* checked are those present, and its number is the next one.
PostDecidesOnFreshReads ==
  \A k \in Call : At(k, "post", "commit") /\ ~call[k].denied =>
    /\ state = "active"
    /\ status[call[k].agent] = "active"
    /\ call[k].others = Present(call[k].agent)
    /\ call[k].seq = LastSeq + 1

\* Nobody's messages are read for it before its accept is committed, and only who
\* accepted (or opened) can be a member or have left.
ReadsNeedConsent ==
  /\ \A a \in Agent : last_read[a] > 0 \/ status[a] \in {"active", "left"} => a \in joined
  /\ \A k \in Call : At(k, "get", "messages") => call[k].agent \in joined

\* The three queries of inbox see three states of the board, and still agree: what
\* the first found the second finds, and the third does not list it again as a
\* pending invite.  No cursor is ahead of the log, so nothing unread is hidden.
InboxAgrees ==
  /\ \A k \in Call :
       /\ At(k, "inbox", "latest") => \E m \in messages : m.seq = call[k].seq
       /\ At(k, "inbox", "pending") /\ call[k].seq > 0 => status[call[k].agent] # "invited"
  /\ \A a \in Agent : last_read[a] <= LastSeq

\* A conversation that stopped being active never starts again, and its log is
\* final.
ClosedForGood ==
  [][state # "active" => (state' # "active" /\ messages' = messages)]_vars

\* Every call comes to an end: the lock on the conversation row is released on
\* every path out of a call, and nobody waits for it forever.
CallsEnd == \A k \in Call : call[k].pc # "idle" ~> call[k].pc = "idle"

-----------------------------------------------------------------------------
(* What the documentation says and the interleavings refute *)

\* decline_invite: "Declining is terminal".
DeclineIsFinal ==
  [][\A a \in Agent : status[a] = "declined" => status'[a] = "declined"]_vars

\* DESIGN.md: the deadline is irrelevant once the conversation is terminal.
TerminalStateStays ==
  [][(state \in {"completed", "canceled"}) => (state' = state)]_vars
=============================================================================
