------------------------------ MODULE Threads -------------------------------
(***************************************************************************)
(* What a conversation promises to its readers, whatever the membership    *)
(* rules are: its messages form an append-only log, the log grows only     *)
(* while the conversation is active, a closing message is the last one     *)
(* and decides the final state, and a final state is never left.           *)
(* Board implements this specification.                                    *)
(***************************************************************************)
EXTENDS Sequences, Policy

CONSTANTS Conv,        \* identities of conversations
          Message      \* the messages, records with a field type

VARIABLES state,       \* state[c]: "none" until the conversation is opened
          log          \* log[c]: the sequence of its messages

vars == <<state, log>>

Init == /\ state = [c \in Conv |-> "none"]
        /\ log   = [c \in Conv |-> << >>]

\* The message m is appended and leaves the conversation in a state its type
\* allows: a decline may or may not cancel, any other type leaves no choice.
Grow(c, m, mayCancel) ==
  /\ log'   = [log EXCEPT ![c] = Append(@, m)]
  /\ state' = [state EXCEPT ![c] =
                 ResultingConversationState("active", m.type, mayCancel)]

\* The opening message creates the conversation and, if it is a closing one,
\* closes it at once.
Open(c) == /\ state[c] = "none"
           /\ \E m \in Message : Grow(c, m, FALSE)

Extend(c) == /\ state[c] = "active"
             /\ \E m \in Message, mayCancel \in BOOLEAN : Grow(c, m, mayCancel)

\* The deadline ends an active conversation without a message.
Expire(c) == /\ state[c] = "active"
             /\ state' = [state EXCEPT ![c] = "expired"]
             /\ UNCHANGED log

Next == \E c \in Conv : Open(c) \/ Extend(c) \/ Expire(c)

Spec == Init /\ [][Next]_vars
=============================================================================
