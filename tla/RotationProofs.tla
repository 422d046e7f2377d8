--------------------------- MODULE RotationProofs ---------------------------
(***************************************************************************)
(* Theorems about Rotation, for any number of connections and tokens and   *)
(* any cap on the redirects.                                               *)
(***************************************************************************)
EXTENDS Rotation, TLAPS

-----------------------------------------------------------------------------
(* The inductive invariant *)

Given(t) == issued[t].grant # NoToken

\* What the proxy and its tokens keep: a live token was given out and not replaced,
\* a token that was replaced has its successor one rotation further in the same
\* grant, and every grant has a live token at its far end.
Ledger ==
  /\ \A t \in live : Given(t) /\ successor[t] = NoToken
  /\ \A t \in Token : successor[t] # NoToken =>
       Given(t) /\ issued[successor[t]] = [grant |-> issued[t].grant,
                                           depth |-> issued[t].depth + 1]
  /\ \A t \in Token : Given(t) =>
       /\ t \in live \/ successor[t] # NoToken
       /\ \E u \in live : SameGrant(u, t) /\ issued[u].depth >= issued[t].depth

\* What a request knows: its tokens were given out, in one grant; it looks for the
\* entry of a token that is not live, and it records and answers a token that was
\* replaced.
Knows(c) ==
  /\ Given(held[c])
  /\ call[c].pc \in Serving =>
       /\ Given(call[c].asked) /\ Given(call[c].token)
       /\ SameGrant(call[c].token, call[c].asked)
       /\ issued[call[c].token].depth = issued[call[c].asked].depth + call[c].hops
       /\ call[c].hops <= MaxHops
  /\ At(c, "entry") => call[c].token \notin live
  /\ call[c].pc \in {"record", "answer"} => successor[call[c].token] # NoToken

RequestsKnow == \A c \in Conn : Knows(c)

Inv == TypeOK /\ Ledger /\ RequestsKnow /\ RotationsRecorded

\* What the store says of one token.
Accounted(t) ==
  /\ entry[t] # NoToken => entry[t] = successor[t]
  /\ successor[t] # NoToken /\ entry[t] = NoToken =>
       t \in lost \/ \E c \in Conn : At(c, "record") /\ call[c].token = t

\* No step takes a token back, revives it or replaces it a second time.
Grows ==
  \A t \in Token : Given(t) =>
    /\ issued'[t] = issued[t]
    /\ t \notin live => t \notin live'
    /\ successor[t] # NoToken => successor'[t] = successor[t]

-----------------------------------------------------------------------------
(* Tokens *)

LEMMA TokenFacts == 1 \in Token /\ NoToken \notin Token /\ Token \subseteq Nat
BY RotationAssumption DEF Token, NoToken

\* The first authorization satisfies the invariant.
LEMMA InvInit == Init => Inv
<1> SUFFICES ASSUME Init PROVE Inv
  OBVIOUS
<1> USE TokenFacts
<1>1. issued \in [Token -> [grant : Token \cup {NoToken}, depth : Nat]]
  BY DEF Init, Unissued, NoToken
<1>2. TypeOK
  BY <1>1 DEF Init, TypeOK, Idle, Pcs
<1>3. \A t \in Token : Given(t) <=> t = 1
  BY DEF Init, Given, Unissued, NoToken
<1>4. Ledger
  <2>1. \A u \in Token : issued[u].depth = 0
    BY DEF Init, Unissued
  <2> QED BY <1>3, <2>1 DEF Init, Ledger, SameGrant
<1>5. RequestsKnow /\ RotationsRecorded
  BY <1>3 DEF Init, RequestsKnow, Knows, RotationsRecorded, Idle, At, Serving
<1> QED BY <1>2, <1>4, <1>5 DEF Inv

\* A step that leaves the tokens alone keeps what is known of them.
LEMMA LedgerStays ==
  ASSUME Inv, UNCHANGED <<live, successor, issued>>
  PROVE  Ledger' /\ Grows
BY DEF Inv, Ledger, Grows, Given, SameGrant

\* A token not given out yet is in no relation to others.
LEMMA FreshFacts ==
  ASSUME Inv, NEW t \in Token, Fresh(t)
  PROVE  /\ ~Given(t) /\ t \notin live /\ successor[t] = NoToken
         /\ \A u \in Token : successor[u] # t
<1>1. ~Given(t)
  BY DEF Fresh, Unissued, Given
<1>2. Ledger /\ TypeOK
  BY DEF Inv
<1>3. t \notin live
  BY <1>1, <1>2 DEF Ledger
<1>4. successor[t] = NoToken
  BY <1>1, <1>2 DEF Ledger
<1>5. ASSUME NEW u \in Token, successor[u] = t PROVE FALSE
  <2>1. t # NoToken
    BY TokenFacts
  <2>2. Given(u) /\ issued[t] = [grant |-> issued[u].grant, depth |-> issued[u].depth + 1]
    BY <1>2, <1>5, <2>1 DEF Ledger
  <2>3. issued[t].grant = issued[u].grant
    BY <2>2
  <2> QED BY <1>1, <2>2, <2>3 DEF Given
<1> QED BY <1>1, <1>3, <1>4, <1>5

\* A rotation keeps the ledger.
LEMMA LedgerRotates ==
  ASSUME Inv, NEW old \in live, NEW new \in Token, Fresh(new),
         live' = (live \ {old}) \cup {new},
         successor' = [successor EXCEPT ![old] = new],
         issued' = [issued EXCEPT ![new] = [grant |-> issued[old].grant,
                                            depth |-> issued[old].depth + 1]]
  PROVE  Ledger' /\ Grows
<1> USE TokenFacts
<1>1. old \in Token /\ Given(old) /\ successor[old] = NoToken
  BY DEF Inv, TypeOK, Ledger
<1>2. ~Given(new) /\ new # old /\ new \notin live /\ successor[new] = NoToken
  BY <1>1, FreshFacts
<1>3. issued'[new].grant = issued[old].grant /\ issued'[new].depth = issued[old].depth + 1
  BY DEF Inv, TypeOK
<1>4. \A t \in Token : t # new => issued'[t] = issued[t]
  BY DEF Inv, TypeOK
<1>5. \A t \in Token : t # old => successor'[t] = successor[t]
  BY DEF Inv, TypeOK
<1>6. successor'[old] = new
  BY <1>1 DEF Inv, TypeOK
<1>7. Grows
  BY <1>1, <1>2, <1>4, <1>5 DEF Grows
<1>8. \A t \in live' : Given(t)' /\ successor'[t] = NoToken
  BY <1>1, <1>2, <1>3, <1>4, <1>5 DEF Given, Inv, TypeOK, Ledger
<1>9. ASSUME NEW t \in Token, successor'[t] # NoToken
      PROVE  Given(t)' /\ issued'[successor'[t]] = [grant |-> issued'[t].grant,
                                                    depth |-> issued'[t].depth + 1]
  <2>1. CASE t = old
    <3>1. issued'[new] = [grant |-> issued[old].grant, depth |-> issued[old].depth + 1]
      BY DEF Inv, TypeOK
    <3> QED BY <2>1, <3>1, <1>1, <1>2, <1>4, <1>6 DEF Given
  <2>2. CASE t # old
    <3>1. successor[t] # NoToken /\ Given(t)
      BY <1>5, <1>9, <2>2 DEF Inv, Ledger
    <3>2. t # new /\ successor[t] \in Token /\ successor[t] # new
      BY <1>2, <3>1, FreshFacts DEF Inv, TypeOK
    <3>3. issued[successor[t]] = [grant |-> issued[t].grant, depth |-> issued[t].depth + 1]
      BY <3>1 DEF Inv, Ledger
    <3>4. issued'[t] = issued[t] /\ issued'[successor[t]] = issued[successor[t]]
      BY <1>4, <3>2
    <3>5. successor'[t] = successor[t]
      BY <1>5, <2>2
    <3> QED BY <3>1, <3>3, <3>4, <3>5 DEF Given
  <2> QED BY <2>1, <2>2
<1>10. ASSUME NEW t \in Token, Given(t)'
       PROVE  /\ t \in live' \/ successor'[t] # NoToken
              /\ \E u \in live' : SameGrant(u, t)' /\ issued'[u].depth >= issued'[t].depth
  <2>0. \A u \in Token : issued[u].depth \in Nat /\ issued'[u].depth \in Nat
    <3>1. issued[old].depth + 1 \in Nat
      BY <1>1 DEF Inv, TypeOK
    <3> QED BY <1>3, <1>4, <3>1 DEF Inv, TypeOK
  <2>1. CASE t = new
    BY <2>0, <2>1 DEF SameGrant
  <2>2. CASE t # new
    <3>1. Given(t) /\ issued'[t] = issued[t]
      BY <1>4, <1>10, <2>2 DEF Given
    <3>2. t \in live' \/ successor'[t] # NoToken
      BY <1>5, <1>6, <3>1, <2>2 DEF Inv, Ledger
    <3>3. PICK u \in live : SameGrant(u, t) /\ issued[u].depth >= issued[t].depth
      BY <3>1 DEF Inv, Ledger
    <3>4. CASE u = old
      <4>1. issued'[new].grant = issued'[t].grant
        BY <1>3, <3>1, <3>3, <3>4 DEF SameGrant
      <4>2. issued'[new].depth >= issued'[t].depth
        BY <1>1, <1>3, <2>0, <3>1, <3>3, <3>4
      <4> QED BY <3>2, <4>1, <4>2 DEF SameGrant
    <3>5. CASE u # old
      <4>1. u \in Token /\ u # new /\ u \in live'
        BY <1>2, <3>5 DEF Inv, TypeOK
      <4>2. issued'[u] = issued[u]
        BY <1>4, <4>1
      <4> QED BY <3>1, <3>2, <3>3, <4>1, <4>2 DEF SameGrant
    <3> QED BY <3>4, <3>5
  <2> QED BY <2>1, <2>2
<1> QED BY <1>7, <1>8, <1>9, <1>10 DEF Ledger

\* So does a new authorization.
LEMMA LedgerAuthorizes ==
  ASSUME Inv, NEW new \in Token, Fresh(new),
         live' = live \cup {new}, UNCHANGED successor,
         issued' = [issued EXCEPT ![new] = [grant |-> new, depth |-> 0]]
  PROVE  Ledger' /\ Grows
<1> USE TokenFacts
<1>1. ~Given(new) /\ new \notin live /\ successor[new] = NoToken
  BY FreshFacts
<1>2. issued'[new] = [grant |-> new, depth |-> 0]
  BY DEF Inv, TypeOK
<1>3. \A t \in Token : t # new => issued'[t] = issued[t]
  BY DEF Inv, TypeOK
<1>4. \A t \in live : t \in Token /\ t # new
  BY <1>1 DEF Inv, TypeOK
<1>5. Grows
  BY <1>1, <1>3 DEF Grows
<1>6. \A t \in live' : Given(t)' /\ successor'[t] = NoToken
  BY <1>1, <1>2, <1>3, <1>4 DEF Given, Inv, Ledger
<1>7. ASSUME NEW t \in Token, successor'[t] # NoToken
      PROVE  Given(t)' /\ issued'[successor'[t]] = [grant |-> issued'[t].grant,
                                                    depth |-> issued'[t].depth + 1]
  <2>1. successor[t] # NoToken /\ Given(t)
    BY <1>7 DEF Inv, Ledger
  <2>2. t # new /\ successor[t] \in Token /\ successor[t] # new
    BY <1>1, <2>1, FreshFacts DEF Inv, TypeOK
  <2>3. issued[successor[t]] = [grant |-> issued[t].grant, depth |-> issued[t].depth + 1]
    BY <2>1 DEF Inv, Ledger
  <2>4. issued'[t] = issued[t] /\ issued'[successor[t]] = issued[successor[t]]
    BY <1>3, <2>2
  <2> QED BY <2>1, <2>3, <2>4 DEF Given
<1>8. ASSUME NEW t \in Token, Given(t)'
      PROVE  /\ t \in live' \/ successor'[t] # NoToken
             /\ \E u \in live' : SameGrant(u, t)' /\ issued'[u].depth >= issued'[t].depth
  <2>1. CASE t = new
    BY <1>2, <2>1 DEF SameGrant
  <2>2. CASE t # new
    <3>1. Given(t)
      BY <1>3, <1>8, <2>2 DEF Given
    <3>2. PICK u \in live : SameGrant(u, t) /\ issued[u].depth >= issued[t].depth
      BY <3>1 DEF Inv, Ledger
    <3> QED BY <1>3, <1>4, <2>2, <3>1, <3>2 DEF SameGrant, Inv, Ledger
  <2> QED BY <2>1, <2>2
<1> QED BY <1>5, <1>6, <1>7, <1>8 DEF Ledger

-----------------------------------------------------------------------------
(* The steps *)

\* The types through every step.
LEMMA TypesKept ==
  ASSUME Inv, [Next]_vars
  PROVE  TypeOK'
<1> USE TokenFacts
<1>0. TypeOK
  BY DEF Inv
<1>1. ASSUME NEW c \in Conn, Request(c) PROVE TypeOK'
  BY <1>0, <1>1 DEF TypeOK, Request, Pcs
<1>2. ASSUME NEW c \in Conn, LoadRefreshToken(c) PROVE TypeOK'
  BY <1>0, <1>2 DEF TypeOK, LoadRefreshToken, Goto, Pcs
<1>3. ASSUME NEW c \in Conn, FollowRotationGrace(c) PROVE TypeOK'
  <2>1. CASE entry[call[c].token] # NoToken /\ call[c].hops < MaxHops
    <3>0. call[c] \in [pc : Pcs, asked : Token, token : Token, hops : Nat]
      BY <1>0 DEF TypeOK
    <3>1. call[c].hops + 1 \in Nat /\ entry[call[c].token] \in Token
      <4>1. call[c].hops \in Nat /\ call[c].token \in Token
        BY <3>0
      <4>2. entry[call[c].token] \in Token \cup {NoToken}
        BY <1>0, <4>1 DEF TypeOK
      <4> QED BY <2>1, <4>1, <4>2
    <3> DEFINE next == [pc |-> "load", asked |-> call[c].asked,
                        token |-> entry[call[c].token], hops |-> call[c].hops + 1]
    <3>2. next \in [pc : Pcs, asked : Token, token : Token, hops : Nat]
      BY <3>0, <3>1 DEF Pcs
    <3>3. call' = [call EXCEPT ![c] = next]
      BY <1>3, <2>1 DEF FollowRotationGrace
    <3> HIDE DEF next
    <3> QED BY <1>0, <1>3, <3>2, <3>3 DEF TypeOK, FollowRotationGrace
  <2>2. CASE Goto(c, "failed")
    BY <1>0, <1>3, <2>2 DEF TypeOK, FollowRotationGrace, Goto, Pcs
  <2> QED BY <1>3, <2>1, <2>2 DEF FollowRotationGrace
<1>4. ASSUME NEW c \in Conn, ExchangeRefreshToken(c) PROVE TypeOK'
  <2> DEFINE old == call[c].token
  <2>1. ASSUME NEW new \in Token, old \in live,
               live' = (live \ {old}) \cup {new},
               successor' = [successor EXCEPT ![old] = new],
               issued' = [issued EXCEPT ![new] = [grant |-> issued[old].grant,
                                                  depth |-> issued[old].depth + 1]],
               Goto(c, "record")
        PROVE  TypeOK'
    <3>1. [grant |-> issued[old].grant, depth |-> issued[old].depth + 1]
            \in [grant : Token \cup {NoToken}, depth : Nat]
      <4>1. issued[old] \in [grant : Token \cup {NoToken}, depth : Nat]
        BY <1>0, <2>1 DEF TypeOK
      <4> QED BY <4>1
    <3>2. issued' \in [Token -> [grant : Token \cup {NoToken}, depth : Nat]]
      BY <1>0, <2>1, <3>1 DEF TypeOK
    <3> QED BY <1>0, <1>4, <2>1, <3>2 DEF TypeOK, ExchangeRefreshToken, Goto, Pcs
  <2>2. ASSUME UNCHANGED <<live, successor, issued>>, NEW pc \in Pcs, Goto(c, pc)
        PROVE  TypeOK'
    BY <1>0, <1>4, <2>2 DEF TypeOK, ExchangeRefreshToken, Goto
  <2>3. {"idle", "failed"} \subseteq Pcs
    BY DEF Pcs
  <2> QED BY <1>4, <2>1, <2>2, <2>3 DEF ExchangeRefreshToken
<1>5. ASSUME NEW c \in Conn, Record(c) PROVE TypeOK'
  BY <1>0, <1>5 DEF TypeOK, Record, Goto, Pcs
<1>6. ASSUME NEW c \in Conn, Answer(c) PROVE TypeOK'
  <2>1. successor[call[c].token] \in Token
    BY <1>0, <1>6 DEF TypeOK, Answer, At, Inv, RequestsKnow, Knows
  <2> QED BY <1>0, <1>6, <2>1 DEF TypeOK, Answer, Goto, Pcs
<1>7. \A C \in SUBSET Conn : Unrecorded(C) \subseteq Token
  BY <1>0 DEF TypeOK, Unrecorded
<1>8. ASSUME NEW c \in Conn, LoseRequest(c) PROVE TypeOK'
  BY <1>0, <1>7, <1>8 DEF TypeOK, LoseRequest, Goto, Pcs
<1>9. ASSUME Restart PROVE TypeOK'
  BY <1>0, <1>7, <1>9 DEF TypeOK, Restart, Idle, Pcs
<1>10. ASSUME NEW t \in Token, EntryExpires(t) PROVE TypeOK'
  BY <1>0, <1>10 DEF TypeOK, EntryExpires
<1>11. ASSUME NEW c \in Conn, ExchangeAuthorizationCode(c) PROVE TypeOK'
  BY <1>0, <1>11 DEF TypeOK, ExchangeAuthorizationCode, Goto, Pcs
<1>12. CASE UNCHANGED vars
  BY <1>0, <1>12 DEF TypeOK, vars
<1> QED BY <1>1, <1>2, <1>3, <1>4, <1>5, <1>6, <1>8, <1>9, <1>10, <1>11, <1>12
    DEF Next, Serve

\* The ledger through every step.
LEMMA LedgerKept ==
  ASSUME Inv, [Next]_vars
  PROVE  Ledger' /\ Grows
<1>1. CASE UNCHANGED <<live, successor, issued>>
  BY <1>1, LedgerStays
<1>2. ASSUME NEW c \in Conn, ExchangeRefreshToken(c)
      PROVE  Ledger' /\ Grows
  BY <1>1, <1>2, LedgerRotates DEF ExchangeRefreshToken
<1>3. ASSUME NEW c \in Conn, ExchangeAuthorizationCode(c)
      PROVE  Ledger' /\ Grows
  BY <1>3, LedgerAuthorizes DEF ExchangeAuthorizationCode
<1> QED BY <1>1, <1>2, <1>3 DEF Next, Serve, vars, Request, LoadRefreshToken,
    FollowRotationGrace, Record, Answer, LoseRequest, Restart, EntryExpires

\* A connection a step does not touch, or whose request it ends, knows what it knew.
LEMMA UntouchedKnows ==
  ASSUME Inv, Grows, NEW c \in Conn, held'[c] = held[c],
         call'[c] = call[c] \/ call'[c].pc \in {"idle", "failed"}
  PROVE  Knows(c)'
<1>1. Knows(c) /\ held[c] \in Token /\ call[c].asked \in Token /\ call[c].token \in Token
  BY DEF Inv, RequestsKnow, TypeOK
<1>2. Given(held[c])'
  BY <1>1 DEF Grows, Knows, Given
<1>3. CASE call'[c] = call[c] /\ call[c].pc \in Serving
  <2>1. issued'[call[c].asked] = issued[call[c].asked]
        /\ issued'[call[c].token] = issued[call[c].token]
    BY <1>1, <1>3 DEF Grows, Knows
  <2>2. call[c].token \notin live => call[c].token \notin live'
    BY <1>1, <1>3 DEF Grows, Knows
  <2>3. successor[call[c].token] # NoToken => successor'[call[c].token] # NoToken
    BY <1>1, <1>3 DEF Grows, Knows
  <2> QED BY <1>1, <1>2, <1>3, <2>1, <2>2, <2>3 DEF Knows, Given, SameGrant, At
<1>4. CASE call'[c].pc \notin Serving
  BY <1>2, <1>4 DEF Knows, At, Serving
<1> QED BY <1>3, <1>4 DEF Serving

\* What the requests know through every step.
LEMMA KnowledgeKept ==
  ASSUME Inv, TypeOK', Ledger', Grows, [Next]_vars
  PROVE  RequestsKnow'
<1> USE TokenFacts
<1> SUFFICES ASSUME NEW d \in Conn PROVE Knows(d)'
  BY DEF RequestsKnow
<1>0. /\ TypeOK /\ Ledger /\ Knows(d)
      /\ held[d] \in Token /\ call[d].token \in Token /\ call[d].asked \in Token
      /\ call[d].hops \in Nat
  BY DEF Inv, RequestsKnow, TypeOK
<1>1. CASE held'[d] = held[d] /\ (call'[d] = call[d] \/ call'[d].pc \in {"idle", "failed"})
  BY <1>1, UntouchedKnows
<1>2. CASE Request(d)
  <2>1. call'[d] = [pc |-> "load", asked |-> held[d], token |-> held[d], hops |-> 0]
    BY <1>0, <1>2 DEF Request, TypeOK
  <2>2. held'[d] = held[d] /\ issued' = issued
    BY <1>2 DEF Request
  <2>3. 0 <= MaxHops /\ issued[held[d]].depth \in Nat
    <3>1. issued[held[d]] \in [grant : Token \cup {NoToken}, depth : Nat]
      BY <1>0 DEF TypeOK
    <3> QED BY <3>1, RotationAssumption
  <2> QED BY <1>0, <2>1, <2>2, <2>3 DEF Knows, Given, SameGrant, At
<1>3. CASE LoadRefreshToken(d)
  <2>1. call'[d].asked = call[d].asked /\ call'[d].token = call[d].token
        /\ call'[d].hops = call[d].hops
        /\ call'[d].pc = IF call[d].token \in live THEN "exchange" ELSE "entry"
    BY <1>0, <1>3 DEF LoadRefreshToken, Goto, TypeOK
  <2>2. UNCHANGED <<held, issued, live>> /\ call[d].pc \in Serving
    BY <1>3 DEF LoadRefreshToken, At, Serving
  <2> QED BY <1>0, <2>1, <2>2 DEF Knows, Given, SameGrant, At
<1>4. CASE FollowRotationGrace(d) /\ entry[call[d].token] # NoToken /\ call[d].hops < MaxHops
  <2>1. call'[d] = [pc |-> "load", asked |-> call[d].asked,
                    token |-> entry[call[d].token], hops |-> call[d].hops + 1]
    BY <1>0, <1>4 DEF FollowRotationGrace, TypeOK
  <2>2. UNCHANGED <<held, issued>> /\ call[d].pc \in Serving
    BY <1>4 DEF FollowRotationGrace, At, Serving
  <2>3. issued[entry[call[d].token]] = [grant |-> issued[call[d].token].grant,
                                        depth |-> issued[call[d].token].depth + 1]
    BY <1>0, <1>4 DEF Inv, RotationsRecorded, Ledger
  <2>4. issued[call[d].asked].depth \in Nat /\ MaxHops \in Nat
    BY <1>0, RotationAssumption DEF TypeOK
  <2>5. /\ Given(entry[call[d].token]) /\ SameGrant(entry[call[d].token], call[d].asked)
        /\ issued[entry[call[d].token]].depth = issued[call[d].asked].depth + (call[d].hops + 1)
        /\ call[d].hops + 1 <= MaxHops
    BY <1>0, <1>4, <2>2, <2>3, <2>4 DEF Knows, Given, SameGrant
  <2> QED BY <1>0, <2>1, <2>2, <2>5 DEF Knows, Given, SameGrant, At
<1>5. CASE ExchangeRefreshToken(d) /\ Goto(d, "record")
  <2>1. call'[d].asked = call[d].asked /\ call'[d].token = call[d].token
        /\ call'[d].hops = call[d].hops /\ call'[d].pc = "record"
    BY <1>0, <1>5 DEF Goto, TypeOK
  <2>2. held' = held /\ call[d].pc \in Serving
    BY <1>5 DEF ExchangeRefreshToken, At, Serving
  <2>3. successor'[call[d].token] # NoToken
    BY <1>0, <1>5, <2>1, TokenFacts DEF ExchangeRefreshToken, Goto, TypeOK
  <2>4. /\ Given(call[d].asked) /\ Given(call[d].token)
        /\ issued'[call[d].asked] = issued[call[d].asked]
        /\ issued'[call[d].token] = issued[call[d].token]
        /\ issued'[held[d]] = issued[held[d]]
    BY <1>0, <2>2 DEF Knows, Grows
  <2> QED BY <1>0, <2>1, <2>2, <2>3, <2>4 DEF Knows, Given, SameGrant, At
<1>6. CASE Record(d)
  <2>1. call'[d].asked = call[d].asked /\ call'[d].token = call[d].token
        /\ call'[d].hops = call[d].hops /\ call'[d].pc = "answer"
    BY <1>0, <1>6 DEF Record, Goto, TypeOK
  <2>2. UNCHANGED <<held, issued, successor>> /\ call[d].pc = "record"
        /\ call[d].pc \in Serving
    BY <1>6 DEF Record, At, Serving
  <2> QED BY <1>0, <2>1, <2>2 DEF Knows, Given, SameGrant, At
<1>7. CASE Answer(d)
  <2>1. call'[d].pc = "idle" /\ held'[d] = successor[call[d].token] /\ issued' = issued
    BY <1>0, <1>7 DEF Answer, Goto, TypeOK
  <2>2. Given(call[d].token) /\ successor[call[d].token] # NoToken
    BY <1>0, <1>7 DEF Answer, At, Knows, Serving
  <2>3. Given(successor[call[d].token])
    <3>1. issued[successor[call[d].token]] = [grant |-> issued[call[d].token].grant,
                                              depth |-> issued[call[d].token].depth + 1]
      BY <1>0, <2>2 DEF Ledger
    <3>2. issued[successor[call[d].token]].grant = issued[call[d].token].grant
      BY <3>1
    <3> QED BY <2>2, <3>2 DEF Given
  <2> QED BY <2>1, <2>3 DEF Knows, Given, At, Serving
<1>8. CASE ExchangeAuthorizationCode(d)
  <2>1. PICK new \in Token : /\ held' = [held EXCEPT ![d] = new]
                             /\ issued' = [issued EXCEPT ![new] = [grant |-> new, depth |-> 0]]
    BY <1>8 DEF ExchangeAuthorizationCode
  <2>2. call'[d].pc = "idle" /\ held'[d] = new /\ issued'[new].grant = new
    BY <1>0, <1>8, <2>1 DEF ExchangeAuthorizationCode, Goto, TypeOK
  <2> QED BY <2>2 DEF Knows, Given, At, Serving
<1>9. CASE \E c \in Conn \ {d} : \/ Request(c) \/ Serve(c) \/ LoseRequest(c)
                                 \/ ExchangeAuthorizationCode(c)
  <2>1. held'[d] = held[d] /\ call'[d] = call[d]
    BY <1>0, <1>9 DEF Request, Serve, LoadRefreshToken, FollowRotationGrace,
       ExchangeRefreshToken, Record, Answer, LoseRequest, ExchangeAuthorizationCode,
       Goto, TypeOK
  <2> QED BY <2>1, <1>1
<1>10. CASE LoseRequest(d) \/ Restart \/ (\E t \in Token : EntryExpires(t)) \/ UNCHANGED vars
  <2>1. held'[d] = held[d] /\ (call'[d] = call[d] \/ call'[d].pc \in {"idle", "failed"})
    BY <1>0, <1>10 DEF LoseRequest, Restart, EntryExpires, vars, Goto, Idle, TypeOK
  <2> QED BY <2>1, <1>1
<1>11. CASE FollowRotationGrace(d) /\ Goto(d, "failed")
  BY <1>0, <1>1, <1>11 DEF FollowRotationGrace, Goto, TypeOK
<1>12. CASE ExchangeRefreshToken(d) /\ (Goto(d, "idle") \/ Goto(d, "failed"))
  BY <1>0, <1>1, <1>12 DEF ExchangeRefreshToken, Goto, TypeOK
<1>13. FollowRotationGrace(d) => \/ entry[call[d].token] # NoToken /\ call[d].hops < MaxHops
                                 \/ Goto(d, "failed")
  BY DEF FollowRotationGrace
<1>14. ExchangeRefreshToken(d) => Goto(d, "record") \/ Goto(d, "idle") \/ Goto(d, "failed")
  BY DEF ExchangeRefreshToken
<1> QED BY <1>2, <1>3, <1>4, <1>5, <1>6, <1>7, <1>8, <1>9, <1>10, <1>11, <1>12, <1>13, <1>14
    DEF Next, Serve

\* What the store records through every step.
LEMMA RecordsKept ==
  ASSUME Inv, TypeOK', [Next]_vars
  PROVE  RotationsRecorded'
<1> USE TokenFacts
<1> SUFFICES ASSUME NEW t \in Token PROVE Accounted(t)'
  BY DEF RotationsRecorded, Accounted
<1>0. TypeOK /\ Accounted(t)
  BY DEF Inv, RotationsRecorded, Accounted
\* Steps that end no recording.
<1>1. CASE /\ UNCHANGED <<successor, entry, lost>>
           /\ \A c \in Conn : At(c, "record") => call'[c] = call[c]
  BY <1>0, <1>1 DEF Accounted, At
<1>2. ASSUME NEW c \in Conn,
             \/ Request(c) \/ LoadRefreshToken(c) \/ FollowRotationGrace(c)
             \/ Answer(c) \/ ExchangeAuthorizationCode(c)
             \/ ExchangeRefreshToken(c) /\ UNCHANGED successor
      PROVE  /\ UNCHANGED <<successor, entry, lost>>
             /\ \A d \in Conn : At(d, "record") => call'[d] = call[d]
  BY <1>0, <1>2 DEF Request, LoadRefreshToken, FollowRotationGrace, Answer,
     ExchangeAuthorizationCode, ExchangeRefreshToken, Goto, At, TypeOK
<1>3. ASSUME NEW c \in Conn, ExchangeRefreshToken(c), NEW new \in Token,
             call[c].token \in live, Goto(c, "record"),
             successor' = [successor EXCEPT ![call[c].token] = new]
      PROVE  Accounted(t)'
  <2>1. call'[c].pc = "record" /\ call'[c].token = call[c].token
    BY <1>0, <1>3 DEF Goto, TypeOK
  <2>2. \A d \in Conn : At(d, "record") => call'[d] = call[d]
    BY <1>0, <1>3 DEF ExchangeRefreshToken, Goto, At, TypeOK
  <2>3. entry' = entry /\ lost' = lost
    BY <1>3 DEF ExchangeRefreshToken
  <2>4. CASE t = call[c].token
    <3>1. entry[t] = NoToken
      BY <1>0, <1>3, <2>4 DEF Accounted, Inv, Ledger
    <3> QED BY <2>1, <2>3, <2>4, <3>1 DEF Accounted, At
  <2>5. CASE t # call[c].token
    <3>1. successor'[t] = successor[t]
      BY <1>0, <1>3, <2>5 DEF TypeOK
    <3> QED BY <1>0, <2>2, <2>3, <3>1 DEF Accounted, At
  <2> QED BY <2>4, <2>5
<1>4. ASSUME NEW c \in Conn, Record(c) PROVE Accounted(t)'
  <2>1. successor' = successor /\ lost' = lost
    BY <1>4 DEF Record
  <2>2. CASE t = call[c].token
    <3>1. entry'[t] = successor[t]
      BY <1>0, <1>4, <2>2 DEF Record, TypeOK
    <3> QED BY <2>1, <3>1 DEF Accounted
  <2>3. CASE t # call[c].token
    <3>1. entry'[t] = entry[t]
      BY <1>0, <1>4, <2>3 DEF Record, TypeOK
    <3>2. \A d \in Conn \ {c} : call'[d] = call[d]
      BY <1>0, <1>4 DEF Record, Goto, TypeOK
    <3> QED BY <1>0, <2>1, <2>3, <3>1, <3>2 DEF Accounted, At
  <2> QED BY <2>2, <2>3
\* Steps that end recordings, and lose them.
<1>5. ASSUME NEW C \in SUBSET Conn, UNCHANGED <<successor, entry>>,
             lost' = lost \cup Unrecorded(C),
             \A c \in Conn \ C : call'[c] = call[c]
      PROVE  Accounted(t)'
  BY <1>0, <1>5 DEF Accounted, Unrecorded, At
<1>6. ASSUME NEW c \in Conn, LoseRequest(c)
      PROVE  /\ UNCHANGED <<successor, entry>> /\ lost' = lost \cup Unrecorded({c})
             /\ \A d \in Conn \ {c} : call'[d] = call[d]
  BY <1>0, <1>6 DEF LoseRequest, Goto, TypeOK
<1>7. CASE Restart
  BY <1>5, <1>7 DEF Restart
<1>8. ASSUME NEW u \in Token, EntryExpires(u) PROVE Accounted(t)'
  <2>1. CASE t = u
    BY <1>0, <1>8, <2>1 DEF Accounted, EntryExpires, TypeOK
  <2>2. CASE t # u
    BY <1>0, <1>8, <2>2 DEF Accounted, EntryExpires, TypeOK, At
  <2> QED BY <2>1, <2>2
<1>9. ASSUME NEW c \in Conn, ExchangeRefreshToken(c)
      PROVE  \/ UNCHANGED successor
             \/ \E new \in Token : /\ call[c].token \in live /\ Goto(c, "record")
                                    /\ successor' = [successor EXCEPT ![call[c].token] = new]
  BY <1>9 DEF ExchangeRefreshToken
<1>10. ASSUME NEW c \in Conn, Serve(c) PROVE Accounted(t)'
  BY <1>1, <1>2, <1>3, <1>4, <1>9, <1>10 DEF Serve
<1>11. CASE UNCHANGED vars
  BY <1>1, <1>11 DEF vars
<1>12. ASSUME NEW c \in Conn, LoseRequest(c) PROVE Accounted(t)'
  <2>1. {c} \in SUBSET Conn
    OBVIOUS
  <2> QED BY <1>5, <1>6, <1>12, <2>1
<1> QED BY <1>1, <1>2, <1>7, <1>8, <1>10, <1>11, <1>12 DEF Next

\* The invariant is inductive.
LEMMA InvNext == ASSUME Inv, [Next]_vars PROVE Inv'
BY TypesKept, LedgerKept, KnowledgeKept, RecordsKept DEF Inv

\* It holds in every reachable state.
LEMMA InvCorrect == Spec => []Inv
BY InvInit, InvNext, PTL DEF Spec

\* A refusal is excused in every step from a state of the invariant.
LEMMA RefusalExcused ==
  ASSUME Inv, [Next]_vars, NEW c \in Conn,
         call[c].pc \in Serving, call'[c].pc = "failed"
  PROVE  Excused(c)
<1> USE TokenFacts
<1> DEFINE t == call[c].token
<1>0. /\ TypeOK /\ Ledger /\ Knows(c) /\ Accounted(t)
      /\ t \in Token /\ call[c].asked \in Token /\ call[c].hops \in Nat
  BY DEF Inv, RequestsKnow, RotationsRecorded, Accounted, TypeOK
<1>1. \/ FollowRotationGrace(c) /\ ~(entry[t] # NoToken /\ call[c].hops < MaxHops)
      \/ ExchangeRefreshToken(c) /\ t \notin live
  <2>1. call[c].pc # "failed" /\ call'[c] # call[c]
    BY DEF Serving
  <2>2. ASSUME NEW d \in Conn \ {c},
               \/ Request(d) \/ Serve(d) \/ LoseRequest(d) \/ ExchangeAuthorizationCode(d)
        PROVE  call'[c] = call[c]
    BY <1>0, <2>2 DEF Request, Serve, LoadRefreshToken, FollowRotationGrace,
       ExchangeRefreshToken, Record, Answer, LoseRequest, ExchangeAuthorizationCode,
       Goto, TypeOK
  <2>3. ASSUME \/ Restart \/ (\E u \in Token : EntryExpires(u)) \/ UNCHANGED vars
        PROVE  call'[c] = call[c] \/ call'[c].pc = "idle"
    BY <2>3 DEF Restart, EntryExpires, vars, Idle
  <2>4. ASSUME \/ Request(c) \/ LoadRefreshToken(c) \/ Record(c) \/ Answer(c)
               \/ LoseRequest(c) \/ ExchangeAuthorizationCode(c)
        PROVE  call'[c].pc \in {"load", "entry", "exchange", "answer", "idle"}
    BY <1>0, <2>4 DEF Request, LoadRefreshToken, Record, Answer, LoseRequest,
       ExchangeAuthorizationCode, Goto, TypeOK
  <2>5. FollowRotationGrace(c) \/ ExchangeRefreshToken(c)
    BY <2>1, <2>2, <2>3, <2>4 DEF Next, Serve
  <2>6. FollowRotationGrace(c) => ~(entry[t] # NoToken /\ call[c].hops < MaxHops)
    <3> SUFFICES ASSUME FollowRotationGrace(c), entry[t] # NoToken, call[c].hops < MaxHops
                 PROVE  call'[c].pc = "load"
      OBVIOUS
    <3> QED BY <1>0 DEF FollowRotationGrace, TypeOK
  <2>7. ExchangeRefreshToken(c) => t \notin live
    <3> SUFFICES ASSUME ExchangeRefreshToken(c), t \in live
                 PROVE  call'[c].pc \in {"record", "idle"}
      OBVIOUS
    <3> QED BY <1>0 DEF ExchangeRefreshToken, Goto, TypeOK
  <2> QED BY <2>5, <2>6, <2>7
<1>2. CASE ExchangeRefreshToken(c) /\ t \notin live
  <2>1. At(c, "exchange") /\ successor[t] # NoToken
    BY <1>0, <1>2 DEF ExchangeRefreshToken, Knows, Ledger
  <2> QED BY <2>1 DEF Excused
<1>3. CASE FollowRotationGrace(c) /\ ~(entry[t] # NoToken /\ call[c].hops < MaxHops)
  <2>1. At(c, "entry") /\ successor[t] # NoToken
    BY <1>0, <1>3 DEF FollowRotationGrace, At, Knows, Ledger
  <2>2. CASE entry[t] = NoToken
    <3>1. t \in lost \/ \E d \in Conn : At(d, "record") /\ call[d].token = t
      BY <1>0, <2>1, <2>2 DEF Accounted
    <3>2. ~At(c, "record")
      BY <2>1 DEF At
    <3> QED BY <3>1, <3>2 DEF Excused
  <2>3. CASE ~(call[c].hops < MaxHops)
    <3>1. /\ SameGrant(t, call[c].asked) /\ call[c].hops <= MaxHops
          /\ issued[t].depth = issued[call[c].asked].depth + call[c].hops
          /\ Given(t)
      BY <1>0 DEF Knows
    <3>2. \A u \in Token : issued[u].depth \in Nat
      <4>1. \A u \in Token : issued[u] \in [grant : Token \cup {NoToken}, depth : Nat]
        BY <1>0 DEF TypeOK
      <4> QED BY <4>1
    <3>3. issued[t].depth = issued[call[c].asked].depth + MaxHops
      BY <1>0, <2>3, <3>1, <3>2, RotationAssumption
    <3>4. successor[t] \in Token /\ issued[successor[t]] =
            [grant |-> issued[t].grant, depth |-> issued[t].depth + 1]
      <4>1. successor[t] \in Token
        BY <1>0, <2>1 DEF TypeOK
      <4> QED BY <1>0, <2>1, <4>1 DEF Ledger
    <3>5. /\ issued[successor[t]].grant = issued[t].grant
          /\ issued[successor[t]].depth = issued[t].depth + 1
      BY <3>4
    <3>6. Given(successor[t])
      BY <3>1, <3>5 DEF Given
    <3>7. PICK u \in live : SameGrant(u, successor[t])
                           /\ issued[u].depth >= issued[successor[t]].depth
      BY <1>0, <3>4, <3>6 DEF Ledger
    <3>8. u \in Token
      BY <1>0 DEF TypeOK
    <3>9. issued[u].depth > issued[call[c].asked].depth + MaxHops
      <4>1. issued[u].depth \in Nat /\ issued[call[c].asked].depth \in Nat /\ MaxHops \in Nat
        BY <1>0, <3>2, <3>8, RotationAssumption
      <4>2. issued[u].depth >= (issued[call[c].asked].depth + MaxHops) + 1
        BY <3>3, <3>5, <3>7
      <4> QED BY <4>1, <4>2
    <3>10. SameGrant(u, t)
      BY <3>5, <3>7 DEF SameGrant
    <3> QED BY <3>9, <3>10 DEF Excused
  <2> QED BY <1>3, <2>2, <2>3
<1> QED BY <1>1, <1>2, <1>3

-----------------------------------------------------------------------------
(* The theorems *)

\* Tokens, entries and requests keep their types in every behaviour.
THEOREM TypeCorrect == Spec => []TypeOK
<1>1. Inv => TypeOK
  BY DEF Inv
<1> QED BY <1>1, InvCorrect, PTL

\* Whatever the requests do and however they end, the store of auth.py never names
\* another token than the one the proxy gave, and a rotation it does not know was lost.
THEOREM RecordsCorrect == Spec => []RotationsRecorded
<1>1. Inv => RotationsRecorded
  BY DEF Inv
<1> QED BY <1>1, InvCorrect, PTL

\* __follow_rotation_grace never leads out of the grant of the presented token.
THEOREM RedirectsCorrect == Spec => []RedirectsStayInGrant
<1>1. Inv => RedirectsStayInGrant
  BY DEF Inv, RequestsKnow, Knows, RedirectsStayInGrant
<1> QED BY <1>1, InvCorrect, PTL

\* No request of any connection is refused for another reason than those of Excused.
THEOREM RefusalsCorrect == Spec => FailuresAreExcused
<1>1. Inv /\ [Next]_vars =>
        [\A c \in Conn : call[c].pc \in Serving /\ call'[c].pc = "failed" => Excused(c)]_vars
  BY RefusalExcused
<1> QED BY <1>1, InvCorrect, PTL DEF Spec, FailuresAreExcused
=============================================================================
