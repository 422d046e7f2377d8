---------------------------- MODULE BoardTxProofs ----------------------------
(***************************************************************************)
(* Theorems about BoardTx: for any agents, any number of calls in flight,  *)
(* any of the operations and message types, and any bound of the log.      *)
(*                                                                         *)
(* A step is of one call.  What it writes is limited by the row locks      *)
(* (NoPostWaits), and what the other calls rely on survives every write so *)
(* limited (UntouchedCall), so an action is proved for its own call only.  *)
(***************************************************************************)
EXTENDS BoardTx, FiniteSetTheorems, TLAPS

-----------------------------------------------------------------------------
(* The inductive invariant *)

\* The log is numbered from 1, and never empty.
LogNumbered == /\ IsFiniteSet(messages)
               /\ Cardinality(messages) \in Nat \ {0}
               /\ {m.seq : m \in messages} = 1 .. Cardinality(messages)

\* A post past its load, whatever becomes of it.
PostHolds(k) == call[k].op = "post" /\ call[k].pc \notin {"idle", "load"}

\* A read that flushed an expiry.
GetHolds(k) == /\ call[k].op = "get" /\ call[k].pc \in {"messages", "commit"}
               /\ call[k].staged

\* The conversation row is locked by who is between its lock and its end.
LockHeld == \A k \in Call : lock = k <=> PostHolds(k) \/ GetHolds(k)

\* What a post knows is so, at each of its awaits.
PostKnows(k) ==
  /\ At(k, "post", "row") => call[k].cstate = state
  /\ call[k].op = "post" /\ call[k].pc \in {"others", "max", "commit"} /\ ~call[k].denied =>
       /\ state = "active" /\ status[call[k].agent] = "active"
       /\ ~call[k].staged
       /\ call[k].pc \in {"max", "commit"} => call[k].others = Present(call[k].agent)
       /\ call[k].pc = "commit" => call[k].seq = LastSeq + 1

\* What a read or a leave has found of its agent was so, and cannot be undone.
ConsentKnown(k) ==
  /\ call[k].op = "get" => /\ call[k].seq <= LastSeq
                           /\ call[k].seq > 0 => call[k].agent \in joined
  /\ At(k, "get", "flush") => /\ call[k].cstatus \in {"active", "invited"}
                              /\ call[k].cstatus = "active" => call[k].agent \in joined
  /\ At(k, "get", "messages") => call[k].agent \in joined
  /\ At(k, "leave", "commit") /\ ~call[k].denied => call[k].agent \in joined

\* A refused call goes to its commit at once; a refused read expires nothing.
RefusalKnown(k) ==
  call[k].denied => call[k].pc = "commit" /\ (call[k].op = "get" => ~call[k].staged)

\* The agent of an inbox that found something unread is a participant for good.
InboxKnows(k) ==
  /\ At(k, "inbox", "unread") => call[k].seq = 0
  /\ At(k, "inbox", "latest") => \E m \in messages : m.seq = call[k].seq
  /\ \/ At(k, "inbox", "latest")
     \/ At(k, "inbox", "pending") /\ call[k].seq > 0
     => status[call[k].agent] \notin {"none", "invited"}

\* All of this, of one call.
Knows(k) == PostKnows(k) /\ ConsentKnown(k) /\ RefusalKnown(k) /\ InboxKnows(k)

\* Members, former members and readers have accepted at some time.
RowsConsented ==
  \A a \in Agent : /\ last_read[a] > 0 \/ status[a] \in {"active", "left"} => a \in joined
                   /\ last_read[a] <= LastSeq

\* The inductive invariant.
Inv == TypeOK /\ LogNumbered /\ LockHeld /\ (\A k \in Call : Knows(k)) /\ RowsConsented

\* The call holds the row of the conversation.
Holds(k) == PostHolds(k) \/ GetHolds(k)

\* Rows no step takes back: messages, consent, and being a participant at all.
Grows == /\ messages \subseteq messages' /\ LastSeq <= LastSeq'
         /\ joined \subseteq joined'
         /\ \A a \in Agent : status[a] \notin {"none", "invited"} =>
                               status'[a] \notin {"none", "invited"}

-----------------------------------------------------------------------------
(* The log *)

\* The largest number of a log numbered 1 to n is n.
LEMMA MaxOfLog ==
  ASSUME NEW M, NEW n \in Nat \ {0}, {m.seq : m \in M} = 1 .. n
  PROVE  (CHOOSE i \in {m.seq : m \in M} : \A m \in M : m.seq <= i) = n
<1>1. n \in {m.seq : m \in M} /\ \A m \in M : m.seq \in 1 .. n
  OBVIOUS
<1>2. ASSUME NEW i \in {m.seq : m \in M}, \A m \in M : m.seq <= i PROVE i = n
  <2>1. i \in 1 .. n
    OBVIOUS
  <2>2. PICK m \in M : m.seq = n
    BY <1>1
  <2>3. n <= i
    BY <1>2, <2>2
  <2> QED BY <2>1, <2>3
<1>3. \A m \in M : m.seq <= n
  BY <1>1
<1> QED BY <1>1, <1>2, <1>3

\* LastSeq counts the messages, before and after a step.
LEMMA LastSeqCounts ==
  /\ LogNumbered => LastSeq = Cardinality(messages) /\ LastSeq \in Nat \ {0}
  /\ LogNumbered' => LastSeq' = Cardinality(messages') /\ LastSeq' \in Nat \ {0}
BY MaxOfLog DEF LogNumbered, LastSeq

\* The message with the next number keeps the log numbered.
LEMMA AppendNumbered ==
  ASSUME LogNumbered, NEW m, m.seq = LastSeq + 1, messages' = messages \cup {m}
  PROVE  LogNumbered' /\ LastSeq' = LastSeq + 1
<1> DEFINE n == Cardinality(messages)
<1>1. n \in Nat \ {0} /\ IsFiniteSet(messages) /\ {x.seq : x \in messages} = 1 .. n
      /\ LastSeq = n
  BY LastSeqCounts DEF LogNumbered
<1>2. m \notin messages
  <2>1. n + 1 \notin 1 .. n
    BY <1>1
  <2> QED BY <1>1, <2>1
<1>3. IsFiniteSet(messages') /\ Cardinality(messages') = n + 1
  BY <1>1, <1>2, FS_AddElement
<1>4. {x.seq : x \in messages'} = 1 .. (n + 1)
  <2>1. {x.seq : x \in messages'} = {x.seq : x \in messages} \cup {m.seq}
    OBVIOUS
  <2>2. 1 .. (n + 1) = 1 .. n \cup {n + 1}
    BY <1>1
  <2> QED BY <1>1, <2>1, <2>2
<1>5. LogNumbered'
  <2>1. {x.seq : x \in messages'} = 1 .. Cardinality(messages')
    BY <1>3, <1>4
  <2>2. Cardinality(messages') \in Nat \ {0}
    BY <1>1, <1>3
  <2> QED BY <1>3, <2>1, <2>2 DEF LogNumbered
<1> QED BY <1>1, <1>3, <1>5, LastSeqCounts

-----------------------------------------------------------------------------
(* What a step leaves to the other calls *)

\* A call keeps what it knows while rows only grow and, if it holds a post's lock,
\* while state, rows and log stand still.
LEMMA UntouchedCall ==
  ASSUME Inv, NEW j \in Call, call'[j] = call[j], Grows, LogNumbered',
         PostHolds(j) => UNCHANGED <<state, status, messages>>
  PROVE  Knows(j)'
<1>1. Knows(j) /\ LastSeq \in Nat /\ LastSeq' \in Nat /\ call[j] \in CallState
  BY LastSeqCounts DEF Inv, TypeOK
<1>2. PostKnows(j)'
  BY <1>1 DEF Knows, PostKnows, PostHolds, At, Present, LastSeq
<1>3. ConsentKnown(j)'
  <2>1. call[j].seq \in Nat
    BY <1>1 DEF CallState
  <2>2. call[j].op = "get" => call[j].seq <= LastSeq'
    BY <1>1, <2>1 DEF Knows, ConsentKnown, Grows
  <2> QED BY <1>1, <2>2 DEF Knows, ConsentKnown, Grows, At
<1>4. InboxKnows(j)'
  BY <1>1 DEF Knows, InboxKnows, Grows, At, CallState
<1>5. RefusalKnown(j)'
  BY <1>1 DEF Knows, RefusalKnown
<1> QED BY <1>2, <1>3, <1>4, <1>5 DEF Knows

\* The lock is taken by who starts to hold it, and released by who ends.
LEMMA LockKept ==
  ASSUME Inv, NEW k \in Call, \A j \in Call \ {k} : call'[j] = call[j],
         \/ lock' = lock /\ (Holds(k)' <=> Holds(k))
         \/ RowFree(k) /\ lock' = k /\ Holds(k)'
         \/ lock' = Release(k) /\ ~Holds(k)'
  PROVE  LockHeld'
<1>1. \A j \in Call : lock = j <=> Holds(j)
  BY DEF Inv, LockHeld, Holds
<1>2. \A j \in Call \ {k} : Holds(j)' <=> Holds(j)
  BY DEF Holds, PostHolds, GetHolds
<1>3. \A j \in Call : (lock = j)' <=> Holds(j)'
  BY <1>1, <1>2, OpsAssumption DEF RowFree, Release
<1> QED BY <1>3 DEF LockHeld, Holds

\* A call that has ended knows nothing and holds nothing.
LEMMA IdleKnows ==
  ASSUME NEW k \in Call, call'[k] = Idle
  PROVE  Knows(k)' /\ ~Holds(k)'
BY DEF Idle, Knows, PostKnows, ConsentKnown, RefusalKnown, InboxKnows, At, Holds, PostHolds, GetHolds

\* Nothing written, nothing lost.
LEMMA QuietGrows ==
  ASSUME Inv, UNCHANGED <<state, status, joined, last_read, messages>>
  PROVE  Grows /\ LogNumbered' /\ RowsConsented'
<1>1. LastSeq' = LastSeq /\ LastSeq \in Nat
  BY LastSeqCounts DEF LastSeq, Inv
<1> QED BY <1>1 DEF Grows, LogNumbered, RowsConsented, Inv

\* A step of k that reads.
LEMMA ReadStep ==
  ASSUME Inv, NEW k \in Call, NEW new \in CallState, Goto(k, new), UNCHANGED db,
         Knows(k)',
         \/ UNCHANGED lock /\ (Holds(k)' <=> Holds(k))
         \/ RowFree(k) /\ lock' = k /\ Holds(k)'
  PROVE  Inv'
<1>1. /\ call' \in [Call -> CallState]
      /\ \A j \in Call \ {k} : call'[j] = call[j]
  BY DEF Goto, Inv, TypeOK
<1>2. TypeOK'
  <2>1. lock' \in Call \cup {NoCall}
    BY DEF Inv, TypeOK
  <2> QED BY <1>1, <2>1 DEF Inv, TypeOK, db
<1>3. Grows /\ LogNumbered' /\ RowsConsented'
  BY QuietGrows DEF db
<1>4. LockHeld'
  BY <1>1, LockKept
<1>5. ASSUME NEW j \in Call PROVE Knows(j)'
  <2>1. CASE j = k
    BY <2>1
  <2>2. CASE j # k
    BY <1>1, <1>3, <2>2, UntouchedCall DEF db
  <2> QED BY <2>1, <2>2
<1> QED BY <1>2, <1>3, <1>4, <1>5 DEF Inv

\* The tables by themselves.
TablesTyped == /\ state \in ConversationState /\ overdue \in BOOLEAN
               /\ status \in [Agent -> Statuses] /\ joined \subseteq Agent
               /\ last_read \in [Agent -> Nat] /\ messages \subseteq Message

\* A step of k that writes, or not, and ends.
LEMMA FinalStep ==
  ASSUME Inv, NEW k \in Call, Finish(k), TablesTyped', LogNumbered', RowsConsented', Grows,
         \A j \in Call \ {k} : PostHolds(j) => UNCHANGED <<state, status, messages>>
  PROVE  Inv'
<1>1. /\ call' = [call EXCEPT ![k] = Idle]
      /\ call'[k] = Idle /\ \A j \in Call \ {k} : call'[j] = call[j]
      /\ lock' = Release(k)
  BY DEF Finish, Goto, Inv, TypeOK
<1>2. TypeOK'
  <2>1. Idle \in CallState
    BY PartiesAssumption DEF Idle, CallState, Pcs, MessageType, ConversationState, Statuses
  <2>2. call' \in [Call -> CallState] /\ lock' \in Call \cup {NoCall}
    BY <1>1, <2>1 DEF Release, Inv, TypeOK
  <2> QED BY <2>2 DEF TypeOK, TablesTyped
<1>3. LockHeld'
  BY <1>1, IdleKnows, LockKept
<1>4. ASSUME NEW j \in Call PROVE Knows(j)'
  <2>1. CASE j = k
    BY <1>1, <2>1, IdleKnows
  <2>2. CASE j # k
    BY <1>1, <2>2, UntouchedCall
  <2> QED BY <2>1, <2>2
<1> QED BY <1>2, <1>3, <1>4 DEF Inv
-----------------------------------------------------------------------------
(* The reading steps *)

\* The conversation just opened.
LEMMA InvInit == Init => Inv
<1> SUFFICES ASSUME Init PROVE Inv
  OBVIOUS
<1> DEFINE m == [seq |-> 1, sender |-> Creator, type |-> "counter_proposal"]
<1>1. messages = {m} /\ m.seq = 1
  BY DEF Init
<1>2. LogNumbered
  <2>1. Cardinality(messages) = 1 /\ IsFiniteSet(messages)
    BY <1>1, FS_Singleton
  <2>2. {x.seq : x \in messages} = 1 .. 1
    BY <1>1
  <2> QED BY <2>1, <2>2 DEF LogNumbered
<1>3. TypeOK
  <2>1. Idle \in CallState
    BY PartiesAssumption DEF Idle, CallState, Pcs, MessageType, ConversationState, Statuses
  <2>2. messages \subseteq Message
    BY <1>1, PartiesAssumption DEF Message, MessageType
  <2> QED BY <2>1, <2>2, PartiesAssumption
        DEF Init, TypeOK, ConversationState, Statuses, ParticipantStatus
<1>4. \A k \in Call : ~Holds(k) /\ Knows(k)
  BY DEF Init, Idle, Knows, PostKnows, ConsentKnown, RefusalKnown, InboxKnows, At, Holds, PostHolds, GetHolds
<1>5. LockHeld
  BY <1>4, OpsAssumption DEF LockHeld, Holds, Init
<1>6. LastSeq \in Nat \ {0}
  BY <1>2, LastSeqCounts
<1>7. RowsConsented
  BY <1>6, PartiesAssumption DEF RowsConsented, Init
<1> QED BY <1>2, <1>3, <1>4, <1>5, <1>7 DEF Inv

\* A call begins with no reads.
LEMMA BeginKept == ASSUME Inv, NEW k \in Call, Begin(k) PROVE Inv'
<1>1. PICK op \in Ops, a \in Agent :
        \E t \in (IF op = "post" THEN PostedTypes ELSE {"note"}),
           b \in (IF op = "invite" THEN Agent \ {a} ELSE {Creator}) :
          Goto(k, [Idle EXCEPT !.pc = IF op = "inbox" THEN "unread" ELSE "load", !.op = op,
                               !.agent = a, !.target = b, !.type = t])
  BY DEF Begin
<1>2. PICK t \in (IF op = "post" THEN PostedTypes ELSE {"note"}),
           b \in (IF op = "invite" THEN Agent \ {a} ELSE {Creator}) :
        Goto(k, [Idle EXCEPT !.pc = IF op = "inbox" THEN "unread" ELSE "load", !.op = op,
                             !.agent = a, !.target = b, !.type = t])
  BY <1>1
<1> DEFINE new == [Idle EXCEPT !.pc = IF op = "inbox" THEN "unread" ELSE "load", !.op = op,
                               !.agent = a, !.target = b, !.type = t]
<1>3. t \in MessageType /\ b \in Agent
  BY OpsAssumption, PartiesAssumption DEF MessageType
<1>4. new \in CallState
  BY <1>3, PartiesAssumption
     DEF Idle, CallState, Pcs, MessageType, ConversationState, Statuses
<1>5. /\ new.op = op /\ new.pc \in {"unread", "load"} /\ ~new.denied /\ new.seq = 0
      /\ new.pc = "load" <=> op # "inbox"
      /\ ~new.staged
  BY DEF Idle
<1>6. call'[k] = new /\ call[k].pc = "idle"
  BY <1>2 DEF Begin, Goto, Inv, TypeOK
<1>7. Goto(k, new)
  BY <1>2
<1> HIDE DEF new
<1>8. LastSeq' = LastSeq /\ LastSeq \in Nat
  BY LastSeqCounts DEF Begin, db, LastSeq, Inv
<1>9. Knows(k)'
  BY <1>5, <1>6, <1>8 DEF Knows, PostKnows, ConsentKnown, RefusalKnown, InboxKnows, At
<1>10. ~Holds(k)' /\ ~Holds(k)
  BY <1>5, <1>6 DEF Holds, PostHolds, GetHolds
<1> QED BY <1>4, <1>7, <1>9, <1>10, ReadStep DEF Begin

\* A post locks the row it loads, the other calls read it as it is.
LEMMA LoadKept == ASSUME Inv, NEW k \in Call, Load(k) PROVE Inv'
<1> DEFINE me  == call[k]
           new == [me EXCEPT !.pc = "row", !.cstate = state]
<1>1. me \in CallState /\ me.pc = "load" /\ Goto(k, new) /\ UNCHANGED db
  BY DEF Load, Inv, TypeOK
<1>2. state \in ConversationState /\ Knows(k)
  BY DEF Inv, TypeOK
<1> HIDE DEF me
<1>3. /\ new \in CallState /\ new.pc = "row" /\ new.cstate = state /\ new.op = me.op
      /\ new.agent = me.agent
      /\ new.seq = me.seq /\ new.denied = me.denied /\ new.staged = me.staged
  BY <1>1, <1>2 DEF CallState, Pcs
<1> HIDE DEF new
<1>4. call'[k] = new
  BY <1>1 DEF Goto, Inv, TypeOK
<1>5. LastSeq' = LastSeq /\ state' = state /\ joined' = joined
  BY <1>1 DEF db, LastSeq
<1>6. Knows(k)'
  BY <1>1, <1>2, <1>3, <1>4, <1>5 DEF me, Knows, PostKnows, ConsentKnown, RefusalKnown, InboxKnows, At
<1>7. CASE me.op = "post"
  <2>1. RowFree(k) /\ lock' = k
    BY <1>7 DEF Load, me
  <2>2. Holds(k)'
    BY <1>3, <1>4, <1>7 DEF Holds, PostHolds
  <2> QED BY <1>1, <1>3, <1>6, <2>1, <2>2, ReadStep
<1>8. CASE me.op # "post"
  <2>1. UNCHANGED lock
    BY <1>8 DEF Load, me
  <2>2. ~Holds(k)' /\ ~Holds(k)
    BY <1>1, <1>3, <1>4, <1>8 DEF Holds, PostHolds, GetHolds, me
  <2> QED BY <1>1, <1>3, <1>6, <2>1, <2>2, ReadStep
<1> QED BY <1>7, <1>8

\* A refusal keeps the lock of a post and takes none.
LEMMA RefusedKept ==
  ASSUME Inv, NEW k \in Call, NEW expires \in BOOLEAN, Goto(k, Refused(k, expires)),
         UNCHANGED <<db, lock>>, call[k].pc \in {"row", "others", "existing"},
         call[k].op = "get" => ~expires
  PROVE  Inv'
<1> DEFINE new == Refused(k, expires)
<1>1. /\ new.op = call[k].op /\ new.pc = "commit" /\ new.denied /\ new.staged = expires
      /\ new.seq = 0
  BY DEF Refused, Idle
<1>2. new \in CallState
  <2>1. call[k].op \in Ops \cup {"none"}
    BY DEF Inv, TypeOK, CallState
  <2> QED BY <2>1, PartiesAssumption
        DEF Refused, Idle, CallState, Pcs, MessageType, ConversationState, Statuses
<1> HIDE DEF new
<1>3. call'[k] = new /\ Goto(k, new)
  BY DEF Goto, Inv, TypeOK, new
<1>4. LastSeq' = LastSeq /\ LastSeq \in Nat
  BY LastSeqCounts DEF db, LastSeq, Inv
<1>5. Knows(k)'
  BY <1>1, <1>3, <1>4 DEF Knows, PostKnows, ConsentKnown, RefusalKnown, InboxKnows, At
<1>6. Holds(k)' <=> Holds(k)
  BY <1>1, <1>3 DEF Holds, PostHolds, GetHolds
<1> QED BY <1>2, <1>3, <1>5, <1>6, ReadStep

\* The row of the agent: a post learns it is active, a read or a leave that it consented.
LEMMA ReadRowKept == ASSUME Inv, NEW k \in Call, ReadRow(k) PROVE Inv'
<1> DEFINE me      == call[k]
           cstatus == status[me.agent]
           expires == /\ me.cstate = "active" /\ overdue
                      /\ cstatus # "none"
                      /\ me.op = "get" => cstatus \in {"active", "invited"}
           cstate  == IF expires THEN "expired" ELSE me.cstate
           ok      == Admits(me.op, me.type, Role(me.agent), cstate, cstatus)
           new     == [me EXCEPT !.pc = NextPc(me.op), !.staged = expires,
                                 !.cstate = Idle.cstate,
                                 !.cstatus = IF me.op = "get" THEN cstatus ELSE @,
                                 !.cursor = IF me.op = "get" THEN last_read[me.agent] ELSE @]
<1>1. /\ me \in CallState /\ cstatus \in Statuses /\ last_read[me.agent] \in Nat
      /\ me.agent \in Agent
  BY DEF Inv, TypeOK, CallState
<1>2. me.pc = "row" /\ UNCHANGED <<db, lock>> /\ expires \in BOOLEAN
  BY DEF ReadRow
<1>3. Goto(k, IF ok THEN new ELSE Refused(k, expires))
  BY DEF ReadRow
<1>4. CASE ~ok
  <2>1. me.op = "get" => ~expires
    BY <1>4 DEF Admits
  <2> HIDE DEF expires, ok
  <2> QED BY <1>2, <1>3, <1>4, <2>1, RefusedKept
<1>5. CASE ok
  <2>1. me.op = "post" => /\ me.cstate = "active" /\ ~expires /\ cstatus = "active"
    BY <1>5 DEF Admits, IsMessageLegal
  <2>2. me.op = "leave" => cstatus = "active"
    BY <1>5 DEF Admits
  <2>3. me.op = "get" => cstatus \in {"active", "invited"}
    BY <1>5 DEF Admits
  <2>4. NextPc(me.op) \in Pcs
    BY DEF NextPc, Pcs
  <2>5. Goto(k, new)
    BY <1>3, <1>5
  <2> HIDE DEF me, cstatus, expires, ok
  <2>6. new \in CallState
    BY <1>1, <1>2, <2>4 DEF CallState, Idle, ConversationState
  <2>7. /\ new.pc = NextPc(me.op) /\ new.op = me.op /\ new.agent = me.agent
        /\ new.staged = expires /\ new.seq = me.seq /\ new.denied = me.denied
        /\ me.op = "get" => new.cstatus = cstatus
    BY <1>1 DEF CallState
  <2> HIDE DEF new
  <2>8. call'[k] = new
    BY <2>5 DEF Goto, Inv, TypeOK
  <2>9. Knows(k)
    BY DEF Inv
  <2>10. LastSeq' = LastSeq /\ LastSeq \in Nat
    BY <1>2, LastSeqCounts DEF db, LastSeq, Inv
  <2>11. cstatus = "active" => me.agent \in joined
    BY <1>1 DEF Inv, RowsConsented, cstatus
  <2>12. PostKnows(k)'
    BY <1>2, <2>1, <2>7, <2>8, <2>9 DEF Knows, PostKnows, At, NextPc, me, cstatus, db
  <2>13. ConsentKnown(k)'
    BY <1>2, <2>2, <2>3, <2>7, <2>8, <2>9, <2>10, <2>11
       DEF Knows, ConsentKnown, At, NextPc, me, db
  <2>14. RefusalKnown(k)' /\ InboxKnows(k)'
    BY <1>2, <2>7, <2>8, <2>9 DEF Knows, RefusalKnown, InboxKnows, At, NextPc, me, db
  <2>15. Holds(k)' <=> Holds(k)
    BY <1>2, <2>7, <2>8 DEF Holds, PostHolds, GetHolds, NextPc, me
  <2> QED BY <1>2, <2>5, <2>6, <2>12, <2>13, <2>14, <2>15, ReadStep DEF Knows
<1> QED BY <1>4, <1>5

\* A post learns who else is present.
LEMMA ReadOthersKept == ASSUME Inv, NEW k \in Call, ReadOthers(k) PROVE Inv'
<1>1. CASE Goto(k, Refused(k, FALSE))
  BY <1>1, RefusedKept DEF ReadOthers, At
<1> DEFINE me  == call[k]
           new == [me EXCEPT !.others = Present(me.agent), !.pc = "max"]
<1>2. CASE Goto(k, new)
  <2>1. /\ me \in CallState /\ At(k, "post", "others") /\ UNCHANGED <<db, lock>>
        /\ Knows(k)
    BY DEF ReadOthers, Inv, TypeOK
  <2>2. Present(me.agent) \subseteq Agent
    BY DEF Present
  <2>3. call'[k] = new
    BY <1>2 DEF Goto, Inv, TypeOK
  <2>4. me.op = "post" /\ me.pc = "others"
    BY <2>1 DEF At
  <2> HIDE DEF me
  <2>5. /\ new \in CallState /\ new.pc = "max" /\ new.op = "post" /\ new.agent = me.agent
        /\ new.others = Present(me.agent) /\ new.denied = me.denied
        /\ new.staged = me.staged
    BY <2>1, <2>2, <2>4 DEF CallState, Pcs
  <2> HIDE DEF new
  <2>6. PostKnows(k)'
    BY <2>1, <2>3, <2>4, <2>5 DEF Knows, PostKnows, At, Present, me, db
  <2>7. ConsentKnown(k)' /\ RefusalKnown(k)' /\ InboxKnows(k)'
    BY <2>1, <2>3, <2>4, <2>5 DEF Knows, ConsentKnown, RefusalKnown, InboxKnows, At, me
  <2>8. Holds(k)' /\ Holds(k)
    BY <2>3, <2>4, <2>5 DEF Holds, PostHolds, me
  <2> QED BY <1>2, <2>1, <2>5, <2>6, <2>7, <2>8, ReadStep DEF Knows
<1> QED BY <1>1, <1>2 DEF ReadOthers

\* A post learns the last number of the log.
LEMMA ReadMaxSeqKept == ASSUME Inv, NEW k \in Call, ReadMaxSeq(k) PROVE Inv'
<1> DEFINE me  == call[k]
           new == [me EXCEPT !.seq = LastSeq + 1, !.pc = "commit"]
<1>1. /\ me \in CallState /\ me.op = "post" /\ me.pc = "max" /\ UNCHANGED <<db, lock>>
      /\ Knows(k) /\ Goto(k, new) /\ LastSeq \in Nat /\ LastSeq' = LastSeq
  BY LastSeqCounts DEF ReadMaxSeq, Inv, TypeOK, At, db, LastSeq
<1>2. call'[k] = new
  BY <1>1 DEF Goto, Inv, TypeOK
<1> HIDE DEF me
<1>3. /\ new \in CallState /\ new.pc = "commit" /\ new.op = "post" /\ new.agent = me.agent
      /\ new.others = me.others /\ new.denied = me.denied /\ new.staged = me.staged
      /\ new.seq = LastSeq + 1
  <2> DEFINE n == LastSeq + 1
  <2>1. n \in Nat
    BY <1>1
  <2> HIDE DEF n
  <2>2. new = [me EXCEPT !.seq = n, !.pc = "commit"]
    BY DEF n
  <2>3. /\ new \in CallState /\ new.pc = "commit" /\ new.op = "post"
        /\ new.agent = me.agent /\ new.others = me.others /\ new.denied = me.denied
        /\ new.staged = me.staged /\ new.seq = n
    BY <1>1, <2>1, <2>2 DEF CallState, Pcs
  <2> QED BY <2>3 DEF n
<1> HIDE DEF new
<1>4. PostKnows(k)'
  BY <1>1, <1>2, <1>3 DEF Knows, PostKnows, At, Present, me, db
<1>5. ConsentKnown(k)' /\ RefusalKnown(k)' /\ InboxKnows(k)'
  BY <1>1, <1>2, <1>3 DEF Knows, ConsentKnown, RefusalKnown, InboxKnows, At, me
<1>6. Holds(k)' /\ Holds(k)
  BY <1>1, <1>2, <1>3 DEF Holds, PostHolds, me
<1> QED BY <1>1, <1>3, <1>4, <1>5, <1>6, ReadStep DEF Knows

\* An invite looks for a row of its target.
LEMMA ReadExistingKept == ASSUME Inv, NEW k \in Call, ReadExisting(k) PROVE Inv'
<1>1. CASE Goto(k, Refused(k, FALSE))
  BY <1>1, RefusedKept DEF ReadExisting, At
<1> DEFINE me  == call[k]
           new == [me EXCEPT !.pc = "commit"]
<1>2. CASE Goto(k, new)
  <2>1. /\ me \in CallState /\ me.op = "invite" /\ me.pc = "existing"
        /\ UNCHANGED <<db, lock>> /\ Knows(k) /\ call'[k] = new
    BY <1>2 DEF ReadExisting, Inv, TypeOK, At, Goto
  <2> HIDE DEF me
  <2>2. new \in CallState /\ new.pc = "commit" /\ new.op = "invite" /\ new.denied = me.denied
    BY <2>1 DEF CallState, Pcs
  <2> HIDE DEF new
  <2>3. Knows(k)'
    BY <2>1, <2>2 DEF Knows, PostKnows, ConsentKnown, RefusalKnown, InboxKnows, At, me
  <2>4. ~Holds(k)' /\ ~Holds(k)
    BY <2>1, <2>2 DEF Holds, PostHolds, GetHolds, me
  <2> QED BY <1>2, <2>1, <2>2, <2>3, <2>4, ReadStep
<1> QED BY <1>1, <1>2 DEF ReadExisting

\* A read that finds the conversation overdue locks it.
LEMMA FlushKept == ASSUME Inv, NEW k \in Call, Flush(k) PROVE Inv'
<1> DEFINE me  == call[k]
           pc  == IF me.cstatus = "invited" THEN "commit" ELSE "messages"
           new == [me EXCEPT !.pc = pc]
<1>1. /\ me \in CallState /\ me.op = "get" /\ me.pc = "flush" /\ Goto(k, new)
      /\ UNCHANGED db /\ Knows(k) /\ call'[k] = new
  BY DEF Flush, Inv, TypeOK, At, Goto
<1>2. IF me.staged THEN RowFree(k) /\ lock' = k ELSE UNCHANGED lock
  BY DEF Flush
<1>3. pc \in {"commit", "messages"} /\ (me.cstatus # "invited" => pc = "messages")
      /\ (me.cstatus = "invited" => pc = "commit")
  OBVIOUS
<1> HIDE DEF me, pc
<1>4. /\ new \in CallState /\ new.pc = pc /\ new.op = "get" /\ new.denied = me.denied
      /\ new.staged = me.staged /\ new.seq = me.seq /\ new.agent = me.agent
  BY <1>1, <1>3 DEF CallState, Pcs
<1> HIDE DEF new
<1>5. LastSeq' = LastSeq /\ joined' = joined
  BY <1>1 DEF db, LastSeq
<1>6. Knows(k)'
  BY <1>1, <1>3, <1>4, <1>5
     DEF Knows, PostKnows, ConsentKnown, RefusalKnown, InboxKnows, At, me
<1>7. ~Holds(k) /\ (Holds(k)' <=> me.staged)
  BY <1>1, <1>3, <1>4 DEF Holds, PostHolds, GetHolds, me
<1> QED BY <1>1, <1>2, <1>4, <1>6, <1>7, ReadStep

\* A read remembers the last number it returns.
LEMMA ReadMessagesKept == ASSUME Inv, NEW k \in Call, ReadMessages(k) PROVE Inv'
<1> DEFINE me  == call[k]
           n   == LastSeq
           new == [me EXCEPT !.seq = n, !.pc = "commit"]
<1>1. /\ me \in CallState /\ me.op = "get" /\ me.pc = "messages" /\ Goto(k, new)
      /\ UNCHANGED <<db, lock>> /\ Knows(k) /\ call'[k] = new
  BY DEF ReadMessages, Inv, TypeOK, At, Goto
<1>2. n \in Nat /\ n = LastSeq /\ LastSeq' = LastSeq /\ joined' = joined
  BY <1>1, LastSeqCounts DEF Inv, db, LastSeq
<1> HIDE DEF me, n
<1>3. /\ new \in CallState /\ new.pc = "commit" /\ new.op = "get" /\ new.denied = me.denied
      /\ new.staged = me.staged /\ new.seq = n /\ new.agent = me.agent
  BY <1>1, <1>2 DEF CallState, Pcs
<1> HIDE DEF new
<1>4. Knows(k)'
  BY <1>1, <1>2, <1>3 DEF Knows, PostKnows, ConsentKnown, RefusalKnown, InboxKnows, At, me
<1>5. Holds(k)' <=> Holds(k)
  BY <1>1, <1>3 DEF Holds, PostHolds, GetHolds, me
<1> QED BY <1>1, <1>3, <1>4, <1>5, ReadStep

\* An inbox finds a conversation of its agent.
LEMMA ReadUnreadKept == ASSUME Inv, NEW k \in Call, ReadUnread(k) PROVE Inv'
<1> DEFINE me == call[k]
           n  == LastSeq
<1>1. /\ me \in CallState /\ me.op = "inbox" /\ me.pc = "unread"
      /\ UNCHANGED <<db, lock>> /\ Knows(k)
  BY DEF ReadUnread, Inv, TypeOK, At
<1>2. n \in Nat /\ (\E m \in messages : m.seq = n) /\ messages' = messages /\ status' = status
  <2>1. LogNumbered /\ n = Cardinality(messages) /\ n \in Nat \ {0}
    BY LastSeqCounts DEF Inv
  <2>2. n \in {m.seq : m \in messages}
    BY <2>1 DEF LogNumbered
  <2> QED BY <1>1, <2>1, <2>2 DEF db
<1>3. CASE Goto(k, [me EXCEPT !.seq = n, !.pc = "latest"]) /\ status[me.agent] = "active"
  <2> DEFINE new == [me EXCEPT !.seq = n, !.pc = "latest"]
  <2>1. call'[k] = new
    BY <1>3 DEF Goto, Inv, TypeOK
  <2>2. Goto(k, new)
    BY <1>3
  <2> HIDE DEF me, n
  <2>3. /\ new \in CallState /\ new.pc = "latest" /\ new.op = "inbox" /\ new.seq = n
        /\ new.denied = me.denied /\ new.agent = me.agent
    BY <1>1, <1>2 DEF CallState, Pcs
  <2> HIDE DEF new
  <2>4. Knows(k)'
    BY <1>1, <1>2, <1>3, <2>1, <2>3
       DEF Knows, PostKnows, ConsentKnown, RefusalKnown, InboxKnows, At, me
  <2>5. ~Holds(k)' /\ ~Holds(k)
    BY <1>1, <2>1, <2>3 DEF Holds, PostHolds, GetHolds, me
  <2> QED BY <1>1, <2>2, <2>3, <2>4, <2>5, ReadStep
<1>4. CASE Goto(k, [me EXCEPT !.pc = "pending"])
  <2> DEFINE new == [me EXCEPT !.pc = "pending"]
  <2>1. call'[k] = new
    BY <1>4 DEF Goto, Inv, TypeOK
  <2>2. Goto(k, new)
    BY <1>4
  <2> HIDE DEF me
  <2>3. /\ new \in CallState /\ new.pc = "pending" /\ new.op = "inbox" /\ new.seq = me.seq
        /\ new.denied = me.denied /\ new.agent = me.agent
    BY <1>1 DEF CallState, Pcs
  <2> HIDE DEF new
  <2>4. Knows(k)'
    BY <1>1, <1>2, <2>1, <2>3
       DEF Knows, PostKnows, ConsentKnown, RefusalKnown, InboxKnows, At, me
  <2>5. ~Holds(k)' /\ ~Holds(k)
    BY <1>1, <2>1, <2>3 DEF Holds, PostHolds, GetHolds, me
  <2> QED BY <1>1, <2>2, <2>3, <2>4, <2>5, ReadStep
<1> QED BY <1>3, <1>4 DEF ReadUnread

\* And its latest message.
LEMMA ReadLatestKept == ASSUME Inv, NEW k \in Call, ReadLatest(k) PROVE Inv'
<1> DEFINE me  == call[k]
           new == [me EXCEPT !.pc = "pending"]
<1>1. /\ me \in CallState /\ me.op = "inbox" /\ me.pc = "latest" /\ Goto(k, new)
      /\ UNCHANGED <<db, lock>> /\ Knows(k) /\ call'[k] = new
  BY DEF ReadLatest, Inv, TypeOK, At, Goto
<1> HIDE DEF me
<1>2. /\ new \in CallState /\ new.pc = "pending" /\ new.op = "inbox" /\ new.denied = me.denied
      /\ new.agent = me.agent
  BY <1>1 DEF CallState, Pcs
<1> HIDE DEF new
<1>3. Knows(k)'
  BY <1>1, <1>2 DEF Knows, PostKnows, ConsentKnown, RefusalKnown, InboxKnows, At, me, db
<1>4. ~Holds(k)' /\ ~Holds(k)
  BY <1>1, <1>2 DEF Holds, PostHolds, GetHolds, me
<1> QED BY <1>1, <1>2, <1>3, <1>4, ReadStep

\* Its last query; it ends without a commit.
LEMMA ReadPendingKept == ASSUME Inv, NEW k \in Call, ReadPending(k) PROVE Inv'
<1>1. /\ At(k, "inbox", "pending") /\ Goto(k, Idle) /\ UNCHANGED <<db, lock>>
      /\ call'[k] = Idle
  BY DEF ReadPending, Goto, Inv, TypeOK
<1>2. Idle \in CallState
  BY PartiesAssumption DEF Idle, CallState, Pcs, MessageType, ConversationState, Statuses
<1>3. ~Holds(k)
  BY <1>1 DEF Holds, PostHolds, GetHolds, At
<1> QED BY <1>1, <1>2, <1>3, IdleKnows, ReadStep

-----------------------------------------------------------------------------
(* The committing steps *)

\* Nothing that refers to the conversation, or writes it, is committed while another
\* call's post holds the row.
LEMMA NoPostWaits ==
  ASSUME Inv, NEW k \in Call, MayRefer(k), NEW j \in Call \ {k}
  PROVE  ~PostHolds(j)
BY DEF Inv, LockHeld, MayRefer, PostHolds

\* A call that ends without a message leaves the log alone.
LEMMA SameLog ==
  ASSUME Inv, UNCHANGED messages
  PROVE  LogNumbered' /\ LastSeq' = LastSeq /\ LastSeq \in Nat
BY LastSeqCounts DEF Inv, LogNumbered, LastSeq

\* A denial commits the staged expiry at most.
LEMMA CommitDenialKept == ASSUME Inv, NEW k \in Call, CommitDenial(k) PROVE Inv'
<1>1. /\ MayRefer(k) /\ Finish(k) /\ state' \in ConversationState
      /\ UNCHANGED <<overdue, status, joined, last_read, messages>>
  BY DEF CommitDenial, CanCommit, WriteExpiry, Inv, TypeOK, ConversationState
<1>2. TablesTyped' /\ LogNumbered' /\ RowsConsented' /\ Grows
  BY <1>1, SameLog DEF TablesTyped, RowsConsented, Grows, Inv, TypeOK
<1> QED BY <1>1, <1>2, NoPostWaits, FinalStep

\* An accept, a decline or a leave writes its own row and the staged expiry.
LEMMA CommitMembershipKept == ASSUME Inv, NEW k \in Call, CommitMembership(k) PROVE Inv'
<1> DEFINE me  == call[k]
           new == CASE me.op = "accept"         -> "active"
                    [] me.op = "decline_invite" -> "declined"
                    [] me.op = "leave"          -> "left"
<1>1. /\ MayRefer(k) /\ Finish(k) /\ state' \in ConversationState
      /\ UNCHANGED <<overdue, last_read, messages>>
      /\ me.pc = "commit" /\ ~me.denied /\ me.agent \in Agent
      /\ me.op \in {"accept", "decline_invite", "leave"}
  BY DEF CommitMembership, CanCommit, WriteExpiry, Inv, TypeOK, ConversationState, CallState
<1>2. /\ status' = [status EXCEPT ![me.agent] = new]
      /\ joined' = IF me.op = "accept" THEN joined \cup {me.agent} ELSE joined
      /\ new \in {"active", "declined", "left"}
      /\ new = "active" => me.op = "accept"
      /\ new = "left" => me.op = "leave"
  BY <1>1 DEF CommitMembership
<1>3. new \in {"active", "left"} => me.agent \in joined'
  BY <1>1, <1>2 DEF Inv, Knows, ConsentKnown, At
<1> HIDE DEF me, new
<1>4. /\ status \in [Agent -> Statuses] /\ joined \subseteq Agent
      /\ joined \subseteq joined' /\ joined' \subseteq Agent
      /\ status' \in [Agent -> Statuses]
  BY <1>1, <1>2 DEF Inv, TypeOK, Statuses, ParticipantStatus
<1>5. \A a \in Agent : status'[a] = status[a] \/ (a = me.agent /\ status'[a] = new)
  BY <1>2, <1>4
<1>6. TablesTyped' /\ LogNumbered' /\ Grows
  BY <1>1, <1>2, <1>4, <1>5, SameLog DEF TablesTyped, Grows, Inv, TypeOK
<1>7. RowsConsented'
  BY <1>1, <1>3, <1>4, <1>5, SameLog DEF RowsConsented, Inv
<1> QED BY <1>1, <1>6, <1>7, NoPostWaits, FinalStep

\* An invite inserts one row, of somebody who has none.
LEMMA CommitInviteKept == ASSUME Inv, NEW k \in Call, CommitInvite(k) PROVE Inv'
<1> DEFINE b == call[k].target
<1>1. /\ MayRefer(k) /\ Finish(k) /\ b \in Agent /\ status[b] = "none"
      /\ UNCHANGED <<state, overdue, joined, last_read, messages>>
      /\ status' = [status EXCEPT ![b] = "invited"]
  BY DEF CommitInvite, CanCommit, Inv, TypeOK, CallState
<1> HIDE DEF b
<1>2. /\ status' \in [Agent -> Statuses]
      /\ \A a \in Agent : \/ status'[a] = status[a]
                          \/ status'[a] = "invited" /\ status[a] = "none"
  BY <1>1 DEF Inv, TypeOK, Statuses, ParticipantStatus
<1>3. TablesTyped' /\ LogNumbered' /\ RowsConsented' /\ Grows
  BY <1>1, <1>2, SameLog DEF TablesTyped, RowsConsented, Grows, Inv, TypeOK
<1> QED BY <1>1, <1>3, NoPostWaits, FinalStep

\* A read moves the cursor of its own row.
LEMMA CommitGetKept == ASSUME Inv, NEW k \in Call, CommitGet(k) PROVE Inv'
<1> DEFINE me  == call[k]
           new == IF me.seq > me.cursor THEN me.seq ELSE last_read[me.agent]
<1>1. /\ CanCommit(k) /\ Finish(k) /\ state' \in ConversationState
      /\ UNCHANGED <<overdue, status, joined, messages>>
      /\ last_read' = [last_read EXCEPT ![me.agent] = new]
      /\ ~me.staged => state' = state
  BY DEF CommitGet, WriteExpiry, Inv, TypeOK, ConversationState
<1>2. me.staged => MayRefer(k)
  BY <1>1 DEF CanCommit
<1>3. /\ me \in CallState /\ me.op = "get" /\ last_read \in [Agent -> Nat]
      /\ me.seq <= LastSeq /\ (me.seq > 0 => me.agent \in joined)
  BY DEF CommitGet, Inv, TypeOK, Knows, ConsentKnown
<1>4. me.seq \in Nat /\ me.cursor \in Nat /\ me.agent \in Agent
  BY <1>3 DEF CallState
<1>5. \/ new = last_read[me.agent]
      \/ new \in Nat /\ new <= LastSeq /\ me.agent \in joined
  BY <1>3, <1>4
<1> HIDE DEF me, new
<1>6. last_read' \in [Agent -> Nat]
  BY <1>1, <1>3, <1>4, <1>5
<1>7. \A a \in Agent : \/ last_read'[a] = last_read[a]
                       \/ last_read'[a] <= LastSeq /\ a \in joined
  BY <1>1, <1>3, <1>5
<1>8. TablesTyped' /\ LogNumbered' /\ Grows
  BY <1>1, <1>6, SameLog DEF TablesTyped, Grows, Inv, TypeOK
<1>9. RowsConsented'
  BY <1>1, <1>7, SameLog DEF RowsConsented, Inv
<1>10. \A j \in Call \ {k} : PostHolds(j) => UNCHANGED <<state, status, messages>>
  BY <1>1, <1>2, NoPostWaits
<1> QED BY <1>1, <1>8, <1>9, <1>10, FinalStep

\* A post appends the next number and decides the state.
LEMMA CommitPostKept == ASSUME Inv, NEW k \in Call, CommitPost(k) PROVE Inv'
<1> DEFINE me == call[k]
           st == IF me.type = "decline" THEN [status EXCEPT ![me.agent] = "declined"]
                 ELSE status
           m  == [seq |-> me.seq, sender |-> me.agent, type |-> me.type]
<1>1. /\ MayRefer(k) /\ Finish(k) /\ me.op = "post" /\ me.pc = "commit" /\ ~me.denied
      /\ messages' = messages \cup {m} /\ status' = st
      /\ state' = ResultingConversationState(state, me.type, AllNonOwnersDeclined(st))
      /\ UNCHANGED <<overdue, joined, last_read>>
  BY DEF CommitPost, CanCommit
<1>2. me \in CallState /\ status \in [Agent -> Statuses] /\ state \in ConversationState
  BY DEF Inv, TypeOK
<1>3. me.seq \in Nat /\ me.agent \in Agent /\ me.type \in MessageType
  BY <1>2 DEF CallState
<1>4. me.seq = LastSeq + 1 /\ status[me.agent] = "active"
  BY <1>1 DEF Inv, Knows, PostKnows
<1>5. m \in Message /\ m.seq = LastSeq + 1
  BY <1>3, <1>4 DEF Message
<1>6. state' \in ConversationState
  BY <1>1, <1>2 DEF ResultingConversationState, ConversationState
<1>7. /\ status' \in [Agent -> Statuses]
      /\ \A a \in Agent : \/ status'[a] = status[a]
                          \/ status'[a] = "declined" /\ status[a] = "active"
  BY <1>1, <1>2, <1>3, <1>4 DEF Statuses, ParticipantStatus
<1> HIDE DEF me, st, m
<1>8. LogNumbered' /\ LastSeq' = LastSeq + 1 /\ LastSeq \in Nat
  BY <1>1, <1>5, AppendNumbered, LastSeqCounts DEF Inv
<1>9. TablesTyped'
  BY <1>1, <1>5, <1>6, <1>7 DEF TablesTyped, Inv, TypeOK
<1>10. Grows
  BY <1>1, <1>7, <1>8 DEF Grows
<1>11. RowsConsented'
  <2>1. ASSUME NEW a \in Agent PROVE last_read'[a] <= LastSeq'
    <3>1. last_read[a] \in Nat /\ last_read[a] <= LastSeq
      BY DEF Inv, TypeOK, RowsConsented
    <3> QED BY <1>1, <1>8, <3>1
  <2> QED BY <1>1, <1>7, <2>1 DEF RowsConsented, Inv
<1> QED BY <1>1, <1>8, <1>9, <1>10, <1>11, NoPostWaits, FinalStep

\* A call that ends and writes nothing.
LEMMA EndKept ==
  ASSUME Inv, NEW k \in Call, ConstraintFails(k) \/ Abort(k)
  PROVE  Inv'
<1>1. UNCHANGED db /\ Finish(k)
  BY DEF ConstraintFails, Abort
<1>2. TablesTyped' /\ LogNumbered' /\ RowsConsented' /\ Grows
  BY <1>1, QuietGrows DEF db, TablesTyped, Inv, TypeOK
<1> QED BY <1>1, <1>2, FinalStep DEF db

\* Steps of no call.
LEMMA OutsideKept == ASSUME Inv, DeadlinePasses \/ UNCHANGED vars PROVE Inv'
<1>1. /\ UNCHANGED <<state, status, joined, last_read, messages, lock, call>>
      /\ overdue' \in BOOLEAN
  BY DEF DeadlinePasses, vars, Inv, TypeOK
<1>2. Grows /\ LogNumbered' /\ RowsConsented'
  BY <1>1, QuietGrows
<1>3. \A j \in Call : Knows(j)'
  BY <1>1, <1>2, UntouchedCall
<1>4. TypeOK' /\ LockHeld'
  BY <1>1 DEF Inv, TypeOK, LockHeld, PostHolds, GetHolds
<1> QED BY <1>2, <1>3, <1>4 DEF Inv

\* The invariant is inductive.
LEMMA InvNext == ASSUME Inv, [Next]_vars PROVE Inv'
<1>1. ASSUME NEW k \in Call, Begin(k) \/ Read(k) PROVE Inv'
  BY <1>1, BeginKept, LoadKept, ReadRowKept, ReadOthersKept, ReadMaxSeqKept,
     ReadExistingKept, FlushKept, ReadMessagesKept, ReadUnreadKept, ReadLatestKept,
     ReadPendingKept DEF Read
<1>2. ASSUME NEW k \in Call, Commit(k) \/ Abort(k) PROVE Inv'
  BY <1>2, CommitDenialKept, CommitMembershipKept, CommitInviteKept, CommitGetKept,
     CommitPostKept, EndKept DEF Commit
<1> QED BY <1>1, <1>2, OutsideKept DEF Next

\* And holds of every reachable state.
LEMMA InvCorrect == Spec => []Inv
<1>1. Inv /\ [Next]_vars => Inv'
  BY InvNext
<1> QED BY <1>1, InvInit, PTL DEF Spec

-----------------------------------------------------------------------------
(* The theorems *)

\* Rows, locks and the local states of the calls are of their types at every await.
THEOREM TypeCorrect == Spec => []TypeOK
<1>1. Inv => TypeOK
  BY DEF Inv
<1> QED BY <1>1, InvCorrect, PTL

\* The row of the conversation is locked exactly from the load of a post, or the flush of
\* a read's expiry, to the end of that call (SELECT ... FOR UPDATE, autoflush).
THEOREM LocksCorrect == Spec => []LockHeld
<1>1. Inv => LockHeld
  BY DEF Inv
<1> QED BY <1>1, InvCorrect, PTL

\* The log is numbered 1, 2, 3 and so on without a gap or a number used twice, however
\* many posts interleave, are refused or roll back.
THEOREM SeqsCorrect == Spec => []SeqsGapless
<1>1. Inv => SeqsGapless
  BY DEF Inv, LogNumbered, SeqsGapless
<1> QED BY <1>1, InvCorrect, PTL

\* What a post decided on over five queries still holds when it commits, because of the
\* one lock it took at the first.
THEOREM PostsCorrect == Spec => []PostDecidesOnFreshReads
<1>1. Inv => PostDecidesOnFreshReads
  BY DEF Inv, Knows, PostKnows, PostDecidesOnFreshReads, At
<1> QED BY <1>1, InvCorrect, PTL

\* Nobody reads, is a member or has left without a committed accept.
THEOREM ReadsCorrect == Spec => []ReadsNeedConsent
<1>1. Inv => ReadsNeedConsent
  BY DEF Inv, Knows, ConsentKnown, RowsConsented, ReadsNeedConsent
<1> QED BY <1>1, InvCorrect, PTL

\* The three unlocked queries of an inbox agree, and no cursor is ahead of the log.
THEOREM InboxCorrect == Spec => []InboxAgrees
<1>1. Inv => InboxAgrees
  BY DEF Inv, Knows, InboxKnows, RowsConsented, InboxAgrees
<1> QED BY <1>1, InvCorrect, PTL

\* No call, with whatever old reads, reopens a conversation or adds to one that is
\* closed or expired.
THEOREM ClosesCorrect == Spec => ClosedForGood
<1> DEFINE Final == state # "active" => state' # "active" /\ messages' = messages
<1>1. ASSUME Inv, [Next]_vars, state # "active" PROVE state' # "active" /\ messages' = messages
  <2>1. ASSUME NEW k \in Call, CommitPost(k) PROVE FALSE
    BY <1>1, <2>1 DEF CommitPost, CanCommit, Inv, Knows, PostKnows
  <2>2. ASSUME NEW k \in Call, Commit(k) \/ Abort(k) PROVE Final
    BY <1>1, <2>1, <2>2
       DEF Commit, CommitDenial, CommitMembership, CommitInvite, CommitGet, ConstraintFails,
           Abort, WriteExpiry, db
  <2>3. ASSUME NEW k \in Call, Begin(k) \/ Read(k) PROVE UNCHANGED db
    BY <2>3 DEF Begin, Read, Load, ReadRow, ReadOthers, ReadMaxSeq, ReadExisting, Flush,
                ReadMessages, ReadUnread, ReadLatest, ReadPending
  <2>4. ASSUME DeadlinePasses \/ UNCHANGED vars PROVE Final
    BY <1>1, <2>4 DEF DeadlinePasses, vars
  <2> QED BY <1>1, <2>2, <2>3, <2>4 DEF Next, db
<1> QED BY <1>1, InvCorrect, PTL DEF Spec, ClosedForGood
=============================================================================
