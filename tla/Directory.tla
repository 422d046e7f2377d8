----------------------------- MODULE Directory ------------------------------
(***************************************************************************)
(* The keyset pages of list_agents and list_conversations, read while the  *)
(* calls of Admission commit.  A walk is what a client makes of them: it   *)
(* passes the cursor of a page back for the next one until there is no     *)
(* more.  Nothing is kept for a walk on the server, each page is a call    *)
(* and a query of its own.                                                 *)
(***************************************************************************)
EXTENDS Admission

CONSTANTS
  Walkers, Readers,      \* bounds: the clients that walk, the agents that list
                         \* their conversations
  Filters,               \* bound: the values of state they pass, "any" for none
  Limits,                \* the page sizes asked for
  PageCap                \* 200

ASSUME DirectoryAssumption == /\ IsFiniteSet(Caller)
                              /\ Limits \subseteq Nat /\ PageCap \in Nat \ {0}

vars == <<tables, client>>

\* The collation of agents.sub: some order of the subs.
Rank == CHOOSE f \in [Sub -> 1 .. Cardinality(Sub)] :
          \A s, t \in Sub : s # t => f[s] # f[t]

\* ORDER BY sub, and ORDER BY created_at DESC, id DESC.
Precedes(kind, x, y) ==
  IF kind = "agents" THEN Rank[x] < Rank[y]
  ELSE \/ conversations[x].created > conversations[y].created
       \/ /\ conversations[x].created = conversations[y].created
          /\ x > y

-----------------------------------------------------------------------------
(* What a query returns *)

\* Faulty variant of the next definition: the filter reads the stored state only.
FilterOnColumn(filter, id) == filter \in {"any", conversations[id].state}

\* The state argument of list_conversations.
FilterMatches(filter, id) ==
  LET stored == conversations[id].state
  IN  \/ filter = "any"
      \/ filter = "active" /\ stored = "active" /\ ~Overdue(id)
      \/ /\ filter = "expired"
         /\ stored = "expired" \/ (stored = "active" /\ Overdue(id))
      \/ filter \in {"completed", "canceled"} /\ stored = filter

\* The state _conversation_dict shows.
DisplayState(id) ==
  IF conversations[id].state = "active" /\ Overdue(id) THEN "expired"
  ELSE conversations[id].state

Registered == {s \in Sub : agents[s] # NoAgent}

\* The rows of a walk, wherever its cursor is.
Listed(w) ==
  IF w.kind = "agents" THEN Registered
  ELSE {id \in Started : /\ w.reader \in conversations[id].present
                         /\ FilterMatches(w.filter, id)}

\* The first n rows of a set.
FirstRows(kind, rows, n) ==
  {x \in rows : Cardinality({y \in rows : Precedes(kind, y, x)}) < n}

\* Faulty variants of the next definition: the cursor compares the time alone, and it
\* admits the row it names.
AheadByTime(w) ==
  {x \in Listed(w) : \A y \in w.cursor :
     IF w.kind = "agents" THEN Precedes(w.kind, y, x)
     ELSE conversations[x].created < conversations[y].created}

AheadOrAt(w) == {x \in Listed(w) : \A y \in w.cursor : ~Precedes(w.kind, x, y)}

\* The rows past the cursor.
Ahead(w) == {x \in Listed(w) : \A y \in w.cursor : Precedes(w.kind, y, x)}

PageSize(limit) == IF limit < 1 THEN 1 ELSE IF limit > PageCap THEN PageCap ELSE limit

-----------------------------------------------------------------------------
(* A walk; since, seen and returned are the client's, total is of the last page *)

StartWalk(c, kind, reader, filter) ==
  /\ At(c, "idle") /\ c \in Walkers
  /\ \E limit \in Limits :
       client' = [client EXCEPT ![c] =
          [pc |-> "page", kind |-> kind, reader |-> reader, filter |-> filter,
           limit |-> limit, cursor |-> {}, seen |-> {}, returned |-> 0, total |-> 0,
           since |-> Listed([kind |-> kind, reader |-> reader, filter |-> filter])]]
  /\ UNCHANGED tables

\* comms_list_agents takes any caller.
ListAgents(c) ==
  /\ \E k \in Caller : Allowed(k.token, "comms_list_agents")
  /\ StartWalk(c, "agents", <<>>, "any")

\* comms_list_conversations resolves its caller to an agent of any status.
ListConversations(c) ==
  \E k \in Caller : \E sub \in SubsOf(k) \cap Readers, filter \in Filters :
    /\ Allowed(k.token, "comms_list_conversations")
    /\ agents[sub] # NoAgent
    /\ StartWalk(c, "conversations", sub, filter)

\* Faulty variant of the next definition: the cursor is the row that showed that
\* there is more.
PageSkipping(c) ==
  LET w    == client[c]
      size == PageSize(w.limit)
      rows == FirstRows(w.kind, Ahead(w), size + 1)
      page == FirstRows(w.kind, rows, size)
  IN  /\ At(c, "page")
      /\ client' = [client EXCEPT ![c] =
            [w EXCEPT !.seen = @ \cup page, !.returned = @ + Cardinality(page),
                      !.cursor = rows \ page,
                      !.pc = IF w.kind = "agents" THEN "total"
                             ELSE IF rows = page THEN "end" ELSE "page"]]
      /\ UNCHANGED tables

\* One row more than the page is read, to know whether there is a next page.
Page(c) ==
  LET w    == client[c]
      size == PageSize(w.limit)
      rows == FirstRows(w.kind, Ahead(w), size + 1)
      page == FirstRows(w.kind, rows, size)
  IN  /\ At(c, "page")
      /\ client' = [client EXCEPT ![c] =
            [w EXCEPT !.seen = @ \cup page, !.returned = @ + Cardinality(page),
                      !.cursor = IF rows = page THEN {}
                                 ELSE page \ FirstRows(w.kind, page, size - 1),
                      !.pc = IF w.kind = "agents" THEN "total"
                             ELSE IF rows = page THEN "end" ELSE "page"]]
      /\ UNCHANGED tables

\* Faulty variant of the next definition: suspended agents are not counted.
CountActive(c) ==
  LET w == client[c]
  IN  /\ At(c, "total")
      /\ client' = [client EXCEPT ![c] =
            [w EXCEPT !.total = Cardinality({s \in Sub : agents[s].status = "active"}),
                      !.pc = IF w.cursor = {} THEN "end" ELSE "page"]]
      /\ UNCHANGED tables

\* total_count of list_agents, a second query.
CountAgents(c) ==
  LET w == client[c]
  IN  /\ At(c, "total")
      /\ client' = [client EXCEPT ![c] =
            [w EXCEPT !.total = Cardinality(Registered),
                      !.pc = IF w.cursor = {} THEN "end" ELSE "page"]]
      /\ UNCHANGED tables

DirectoryNext ==
  \E c \in Client : \/ ListAgents(c) \/ ListConversations(c)
                    \/ Page(c) \/ CountAgents(c)

Next == AdmissionNext \/ DirectoryNext

Spec == Init /\ [][Next]_vars

-----------------------------------------------------------------------------
(* Correctness *)

Row(w) == IF w.kind = "agents" THEN Sub ELSE Conv

\* The tables and requests are of their types; what a walk has got are rows.
TypeOK ==
  /\ DOMAIN agents = Sub
  /\ \A s \in Sub : agents[s].status \in {"none", "active", "suspended"}
                    /\ (agents[s].status = "none" <=> agents[s].writers = {})
  /\ conversations \in [Conv -> [state : ConversationState \cup {"none"},
                                 type : ConversationType, by : Sub \cup {<<>>},
                                 present : SUBSET Sub, created : Nat, expires : Nat]]
  /\ clock \in 0 .. MaxClock
  /\ \A c \in Client :
       /\ client[c].pc \in {"idle", "register", "count", "targets", "insert",
                            "page", "total", "end"}
       /\ client[c].pc \in {"page", "total", "end"} =>
            /\ client[c].seen \subseteq Row(client[c])
            /\ client[c].cursor \subseteq client[c].seen
            /\ Cardinality(client[c].cursor) <= 1

Walking(c) == client[c].pc \in {"page", "total", "end"}

\* What a walk still owes its client: rows it listed when it began, and lists still.
Owed(w) == (w.since \cap Listed(w)) \ w.seen

\* A walk that has come to its end has returned every row that was there all the
\* time, whatever committed, left or expired between its pages; and at any page
\* these rows lie ahead of the cursor.
WalksMissNothing ==
  \A c \in Client : Walking(c) =>
    /\ At(c, "end") => Owed(client[c]) = {}
    /\ At(c, "page") => Owed(client[c]) \subseteq Ahead(client[c])

\* No row comes twice in a walk.
RowsComeOnce ==
  \A c \in Client : Walking(c) => client[c].returned = Cardinality(client[c].seen)

\* The total of a page of agents is not less than what the walk has returned, though
\* it is counted by a query after the one for the rows.
TotalCoversPages ==
  \A c \in Client :
    Walking(c) /\ client[c].kind = "agents" /\ ~At(c, "total") =>
      client[c].total >= Cardinality(client[c].seen)

\* Every conversation is listed under exactly the state it is displayed with.
FiltersAgreeWithDisplay ==
  \A id \in Started, f \in ConversationState :
    FilterMatches(f, id) <=> f = DisplayState(id)
=============================================================================
