---------------------------- MODULE MCDirectory -----------------------------
(* Small instances of Directory for TLC. *)
EXTENDS Directory

Agent(sub, owner) ==
  [iss |-> "agent-jwt", sub |-> {sub}, email |-> {}, owner |-> owner,
   scopes |-> {"comms:read", "comms:write"}]

Person == [iss |-> "okta", sub |-> {<<"b">>}, email |-> {<<"a", "@">>}, owner |-> {},
           scopes |-> {}]

Of(token, key) == [token |-> token, key |-> key]

\* An agent with a key, its token with two owner claims; the key that would make the
\* same sub of another identity; a person, and an agent that goes by the person's
\* address.
Callers == {Of(Agent(<<"a", ":">>, {<<"a", "@">>}), <<"b">>),
            Of(Agent(<<"a", ":">>, {}), <<"b">>),
            Of(Agent(<<"a">>, {}), <<":", "b">>),
            Of(Person, NoKey), Of(Agent(<<"a", "@">>, {}), NoKey)}

Persons == {Of(Person, NoKey)}

AgentSubs == {<<"a", ":", ":", ":", "b">>}
=============================================================================
