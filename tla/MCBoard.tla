------------------------------ MODULE MCBoard -------------------------------
(* Small instances of Board for TLC. *)
EXTENDS Board, TLC

CONSTANTS a1, a2, a3, u1, u2

\* Ownership as AgentTableOwnershipClient answers today: one owner per agent.
SingleOwner == (a1 :> {u1}) @@ (a2 :> {u1}) @@ (a3 :> {u2})

\* Two agents of one owner and one it shares with another owner, as the
\* OwnershipClient protocol allows.
SharedOwner == (a1 :> {u1}) @@ (a2 :> {u1}) @@ (a3 :> {u1, u2})

\* Every agent understands every type.
AllTypes == {MessageType}

\* Agents that understand everything and agents that take requests only.
SomeTypes == {MessageType, {"availability_request"}}

\* All the agents act for one owner.
OneOwner == [a \in Agent |-> {u1}]
=============================================================================
