------------------------------- MODULE Access -------------------------------
(***************************************************************************)
(* Who calls, and what the caller may call: the scopes of scopes.py and    *)
(* its middleware, the identity of identity.py and the composed subjects   *)
(* of providers/comms.py.  No state.                                       *)
(*                                                                         *)
(* Strings are sequences of characters, as far as the code looks into      *)
(* them: at signs, colons, and anything else.  White space around a claim  *)
(* is left out, and a blank string is <<>>.  An optional claim is a set of *)
(* at most one value.  The email claim stands for preferred_username too.  *)
(***************************************************************************)
EXTENDS Naturals, Sequences

CONSTANTS Character      \* of the strings that occur

ASSUME CharacterAssumption == {":", "@"} \subseteq Character

Text == Seq(Character)

\* _validate_agent_key, no key given.
NoKey == <<>>

Delimiter == <<":", ":">>

Contains(s, ch) == \E i \in DOMAIN s : s[i] = ch

\* "::" in s.
HasDelimiter(s) == \E i \in 1 .. (Len(s) - 1) : s[i] = ":" /\ s[i + 1] = ":"

-----------------------------------------------------------------------------
(* identity.py *)

\* Faulty variant of the next definition: only a blank sub is refused.
SubNotBlank(token) == \A s \in token.sub : s # <<>>

\* validate_sub_shape; a token may have no sub.
SubShapeValid(token) == \A s \in token.sub : s # <<>> /\ ~Contains(s, "@")

\* try_resolve_email, no value for None.  Only a token known to come from another
\* issuer is named by its email.
ResolvedIdentity(token) ==
  IF ~SubShapeValid(token) THEN {}
  ELSE IF token.iss \in {"none", "agent-jwt"} \/ token.email \subseteq {<<>>}
       THEN token.sub ELSE token.email

-----------------------------------------------------------------------------
(* scopes.py and the middleware of main.py *)

\* TOOL_SCOPES, of the tools the models call.
ToolScopes == [tool \in {"comms_register", "comms_start_conversation",
                         "comms_list_agents", "comms_list_conversations"} |->
                 IF tool \in {"comms_register", "comms_start_conversation"}
                 THEN "comms:write" ELSE "comms:read"]

\* is_interactive_token.
IsInteractive(token) == token.iss \notin {"none", "agent-jwt"}

\* scopes_for_token; scopes is {} for a claim that is not a list.
ScopesForToken(token) ==
  IF token.iss = "agent-jwt" /\ token.sub # {} /\ SubShapeValid(token)
  THEN token.scopes ELSE {}

\* ScopeEnforcementMiddleware.on_call_tool.
Allowed(token, tool) ==
  \/ IsInteractive(token)
  \/ tool \in DOMAIN ToolScopes /\ ToolScopes[tool] \in ScopesForToken(token)

-----------------------------------------------------------------------------
(* providers/comms.py; a caller is a token and the agent_key of the call *)

\* Faulty variant of the next definition: a key is refused for the delimiter only.
KeyHasNoDelimiter(key) == ~HasDelimiter(key)

\* _validate_agent_key: letters, digits, dots, underscores and hyphens.
ValidAgentKey(key) == ~Contains(key, ":") /\ ~Contains(key, "@")

ComposeSub(base, key) == IF key = NoKey THEN base ELSE base \o Delimiter \o key

\* An optional claim has one value at most.
CallerShape(caller) ==
  /\ caller.key \in Text
  /\ \A claim \in {caller.token.sub, caller.token.email} :
       claim \subseteq Text /\ \A x, y \in claim : x = y

\* The sub the tools look the caller up by, no value for a refused one.
SubsOf(caller) ==
  {ComposeSub(base, caller.key) :
     base \in {b \in ResolvedIdentity(caller.token) :
                 ~HasDelimiter(b) /\ ValidAgentKey(caller.key)}}

\* owner_sub of register: a claim, or the identity without its key.
OwnerSubs(caller) ==
  IF caller.token.owner \subseteq {<<>>} THEN ResolvedIdentity(caller.token)
  ELSE caller.token.owner
=============================================================================
