------------------------------ MODULE Rotation ------------------------------
(***************************************************************************)
(* The refresh tokens of auth.py.  The OIDC proxy takes a refresh token    *)
(* once and replaces it; OktaOIDCProxy records the replacement for a while *)
(* and follows it when a connection presents a token already taken.        *)
(*                                                                         *)
(* Several connections of one client share a token.  A request is load,    *)
(* exchange, record and answer, with an await between any two of them, and *)
(* may be lost anywhere: a dropped connection, a store that fails, a       *)
(* restart of the process.  Both stores survive a restart.                 *)
(***************************************************************************)
EXTENDS Naturals

CONSTANTS
  Conn,                  \* connections of the client
  MaxHops,               \* _ROTATION_MAX_HOPS
  MaxToken               \* bound: refresh tokens given out

ASSUME RotationAssumption == MaxHops \in Nat /\ MaxToken \in Nat \ {0}

Token == 1 .. MaxToken
NoToken == 0

VARIABLES
  live,                  \* the tokens the proxy takes
  successor,             \* successor[t]: the token the proxy replaced t by
  issued,                \* issued[t]: the grant of t and the rotations before it
  entry,                 \* entry[t]: the rotation store, read under the hash of t
  lost,                  \* the tokens whose entry timed out or was never stored
  held,                  \* held[c]: the token a connection will present next
  call                   \* call[c]: the refresh request of a connection

vars == <<live, successor, issued, entry, lost, held, call>>

Unissued == [grant |-> NoToken, depth |-> 0]

Idle == [pc |-> "idle", asked |-> 1, token |-> 1, hops |-> 0]

\* One authorization, its token shared by all connections.
Init == /\ live      = {1}
        /\ successor = [t \in Token |-> NoToken]
        /\ issued    = [t \in Token |-> IF t = 1 THEN [grant |-> 1, depth |-> 0]
                                        ELSE Unissued]
        /\ entry     = [t \in Token |-> NoToken]
        /\ lost      = {}
        /\ held      = [c \in Conn |-> 1]
        /\ call      = [c \in Conn |-> Idle]

At(c, pc) == call[c].pc = pc

Goto(c, pc) == call' = [call EXCEPT ![c].pc = pc]

Fresh(t) == issued[t] = Unissued

SameGrant(t, u) == issued[t].grant = issued[u].grant

-----------------------------------------------------------------------------
(* A request *)

\* The connection presents its token.
Request(c) ==
  /\ At(c, "idle")
  /\ call' = [call EXCEPT ![c] =
                [pc |-> "load", asked |-> held[c], token |-> held[c], hops |-> 0]]
  /\ UNCHANGED <<live, successor, issued, entry, lost, held>>

\* super().load_refresh_token, of the presented token or of a successor.
LoadRefreshToken(c) ==
  /\ At(c, "load")
  /\ Goto(c, IF call[c].token \in live THEN "exchange" ELSE "entry")
  /\ UNCHANGED <<live, successor, issued, entry, lost, held>>

\* Faulty variants of the next definition: the cap comes one redirect early, and
\* the redirect presents the old token again.
FollowCappedEarly(c) ==
  /\ At(c, "entry")
  /\ IF entry[call[c].token] # NoToken /\ call[c].hops + 1 < MaxHops
     THEN call' = [call EXCEPT ![c] =
                     [pc |-> "load", asked |-> call[c].asked,
                      token |-> entry[call[c].token], hops |-> call[c].hops + 1]]
     ELSE Goto(c, "failed")
  /\ UNCHANGED <<live, successor, issued, entry, lost, held>>

FollowInPlace(c) ==
  /\ At(c, "entry")
  /\ Goto(c, IF entry[call[c].token] # NoToken THEN "load" ELSE "failed")
  /\ UNCHANGED <<live, successor, issued, entry, lost, held>>

\* __follow_rotation_grace.
FollowRotationGrace(c) ==
  /\ At(c, "entry")
  /\ IF entry[call[c].token] # NoToken /\ call[c].hops < MaxHops
     THEN call' = [call EXCEPT ![c] =
                     [pc |-> "load", asked |-> call[c].asked,
                      token |-> entry[call[c].token], hops |-> call[c].hops + 1]]
     ELSE Goto(c, "failed")
  /\ UNCHANGED <<live, successor, issued, entry, lost, held>>

\* super().exchange_refresh_token: the token is taken and replaced, or was taken
\* by another connection since it was loaded.  A provider that gives no new refresh
\* token leaves the old one in use, and nothing is recorded.
ExchangeRefreshToken(c) ==
  LET old == call[c].token
  IN  /\ At(c, "exchange")
      /\ \/ \E new \in Token :
              /\ old \in live /\ Fresh(new)
              /\ live' = (live \ {old}) \cup {new}
              /\ successor' = [successor EXCEPT ![old] = new]
              /\ issued' = [issued EXCEPT ![new] =
                              [grant |-> issued[old].grant, depth |-> issued[old].depth + 1]]
              /\ Goto(c, "record")
         \/ /\ old \in live
            /\ Goto(c, "idle")
            /\ UNCHANGED <<live, successor, issued>>
         \/ /\ old \notin live
            /\ Goto(c, "failed")
            /\ UNCHANGED <<live, successor, issued>>
      /\ UNCHANGED <<entry, lost, held>>

\* Faulty variants of the next definition: the entry goes under the token the
\* connection presented, and it names a token that is live somewhere.
RecordUnderAsked(c) ==
  /\ At(c, "record")
  /\ entry' = [entry EXCEPT ![call[c].asked] = successor[call[c].token]]
  /\ Goto(c, "answer")
  /\ UNCHANGED <<live, successor, issued, lost, held>>

RecordAnyLive(c) ==
  /\ At(c, "record")
  /\ \E t \in live : entry' = [entry EXCEPT ![call[c].token] = t]
  /\ Goto(c, "answer")
  /\ UNCHANGED <<live, successor, issued, lost, held>>

\* The rotation is stored under the token that was exchanged.
Record(c) ==
  /\ At(c, "record")
  /\ entry' = [entry EXCEPT ![call[c].token] = successor[call[c].token]]
  /\ Goto(c, "answer")
  /\ UNCHANGED <<live, successor, issued, lost, held>>

\* Faulty variant of the next definition: the answer is read from the store.
AnswerFromStore(c) ==
  /\ At(c, "answer")
  /\ held' = [held EXCEPT ![c] = entry[call[c].token]]
  /\ Goto(c, "idle")
  /\ UNCHANGED <<live, successor, issued, entry, lost>>

\* The new token reaches the connection.
Answer(c) ==
  /\ At(c, "answer")
  /\ held' = [held EXCEPT ![c] = successor[call[c].token]]
  /\ Goto(c, "idle")
  /\ UNCHANGED <<live, successor, issued, entry, lost>>

-----------------------------------------------------------------------------
(* What goes wrong *)

Unrecorded(C) == {call[c].token : c \in {d \in C : At(d, "record")}}

\* The request is cancelled, the store fails or the answer does not arrive.
LoseRequest(c) ==
  /\ ~At(c, "idle")
  /\ Goto(c, "idle")
  /\ lost' = lost \cup Unrecorded({c})
  /\ UNCHANGED <<live, successor, issued, entry, held>>

\* The process restarts; the stores are on the volume.
Restart ==
  /\ call' = [c \in Conn |-> Idle]
  /\ lost' = lost \cup Unrecorded(Conn)
  /\ UNCHANGED <<live, successor, issued, entry, held>>

\* _ROTATION_GRACE_SECONDS are over.
EntryExpires(t) ==
  /\ entry[t] # NoToken
  /\ entry' = [entry EXCEPT ![t] = NoToken]
  /\ lost' = lost \cup {t}
  /\ UNCHANGED <<live, successor, issued, held, call>>

\* A refused client authorizes again: exchange_authorization_code, a new grant.
ExchangeAuthorizationCode(c) ==
  /\ At(c, "failed")
  /\ \E new \in Token :
       /\ Fresh(new)
       /\ live' = live \cup {new}
       /\ issued' = [issued EXCEPT ![new] = [grant |-> new, depth |-> 0]]
       /\ held' = [held EXCEPT ![c] = new]
  /\ Goto(c, "idle")
  /\ UNCHANGED <<successor, entry, lost>>

-----------------------------------------------------------------------------
Serve(c) == \/ LoadRefreshToken(c) \/ FollowRotationGrace(c)
            \/ ExchangeRefreshToken(c) \/ Record(c) \/ Answer(c)

Next == \/ \E c \in Conn : \/ Request(c) \/ Serve(c) \/ LoseRequest(c)
                           \/ ExchangeAuthorizationCode(c)
        \/ Restart
        \/ \E t \in Token : EntryExpires(t)

Spec == Init /\ [][Next]_vars

\* The event loop goes on with every request; clients need not come back.
FairSpec == Spec /\ \A c \in Conn : WF_vars(Serve(c))

-----------------------------------------------------------------------------
(* Correctness *)

Pcs == {"idle", "load", "entry", "exchange", "record", "answer", "failed"}

Serving == {"load", "entry", "exchange", "record", "answer"}

\* The variables are of their types; a connection always holds a token.
TypeOK ==
  /\ live \subseteq Token
  /\ successor \in [Token -> Token \cup {NoToken}]
  /\ issued \in [Token -> [grant : Token \cup {NoToken}, depth : Nat]]
  /\ entry \in [Token -> Token \cup {NoToken}]
  /\ lost \subseteq Token
  /\ held \in [Conn -> Token]
  /\ call \in [Conn -> [pc : Pcs, asked : Token, token : Token, hops : Nat]]

\* Every token taken is accounted for: the store names its successor, or a request
\* is about to store it, or it timed out or was lost on the way.  No rotation is
\* recorded under another token or with another successor.
RotationsRecorded ==
  \A t \in Token :
    /\ entry[t] # NoToken => entry[t] = successor[t]
    /\ successor[t] # NoToken /\ entry[t] = NoToken =>
         t \in lost \/ \E c \in Conn : At(c, "record") /\ call[c].token = t

\* A request is served a token of the grant it presented a token of, exactly as many
\* rotations later as it was redirected, and never more than the cap.
RedirectsStayInGrant ==
  \A c \in Conn : call[c].pc \in Serving =>
    /\ SameGrant(call[c].token, call[c].asked)
    /\ issued[call[c].token].depth = issued[call[c].asked].depth + call[c].hops
    /\ call[c].hops <= MaxHops

\* Whether a refused request had to be refused: the token it ended at was lost, is
\* being recorded by another connection, or was taken after it was loaded; or the
\* token it came with is more rotations behind than the cap allows.
Excused(c) ==
  LET t == call[c].token
  IN  \/ t \in lost
      \/ \E d \in Conn \ {c} : At(d, "record") /\ call[d].token = t
      \/ At(c, "exchange") /\ successor[t] # NoToken
      \/ \E u \in live : /\ SameGrant(u, t)
                         /\ issued[u].depth > issued[call[c].asked].depth + MaxHops

\* No client is sent to a new authorization for another reason, whatever its other
\* connections do meanwhile: the grace redirect covers every rotation that is
\* recorded, recent and within the cap.
FailuresAreExcused ==
  [][\A c \in Conn : call[c].pc \in Serving /\ call'[c].pc = "failed" => Excused(c)]_vars

\* Every request comes to an end, following redirects does not go round in circles.
RequestsEnd == \A c \in Conn : call[c].pc \in Serving ~> call[c].pc \notin Serving
=============================================================================
