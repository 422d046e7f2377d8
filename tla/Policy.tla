------------------------------- MODULE Policy -------------------------------
(***************************************************************************)
(* The decision rules of the board: the vocabularies of models.py and      *)
(* schemas.py, the pure functions of state_machine.py and the policy       *)
(* seams of service.py.  Nothing here has state; Board and BoardTx call    *)
(* these operators from their actions.                                     *)
(***************************************************************************)

ConversationType  == {"open", "internal", "asymmetric"}
ConversationState == {"active", "completed", "canceled", "expired"}
ParticipantStatus == {"invited", "active", "left", "declined"}
ParticipantRole   == {"owner", "member"}

MessageType ==
  {"availability_request", "availability_response", "counter_proposal",
   "confirm", "decline", "needs_clarification", "note",
   "task_assign", "task_report", "task_complete", "task_decline",
   "task_cancel"}

-----------------------------------------------------------------------------
(* state_machine.py *)

\* Faulty variant of the next definition: the state is not looked at.
LegalInAnyState(state, type) == type \in MessageType

\* A registered type may be posted only while the conversation is active.
IsMessageLegal(state, type) == type \in MessageType /\ state = "active"

CompletingTypes == {"confirm", "task_complete"}
CancelingTypes  == {"task_decline", "task_cancel"}
ClosingTypes    == CompletingTypes \cup CancelingTypes

\* Faulty variant of the next definition: None is written over the state.
StateOrNone(state, type, allDeclined) ==
  IF type \in CompletingTypes THEN "completed"
  ELSE IF type \in CancelingTypes \/ (type = "decline" /\ allDeclined)
       THEN "canceled" ELSE "none"

\* The state of the conversation after a post: the caller keeps its state
\* where the code answers None.
ResultingConversationState(state, type, allDeclined) ==
  CASE type \in CompletingTypes                -> "completed"
    [] type \in CancelingTypes                 -> "canceled"
    [] type = "decline" /\ allDeclined         -> "canceled"
    [] OTHER                                   -> state

\* schemas.MESSAGE_SCHEMAS: note is the one type registered boundary-unsafe.
IsBoundarySafe(type) == type # "note"

\* Faulty variants of the next definition: an open conversation takes anything, and
\* the owner sets are compared the wrong way round.
OpenTakesAnything(convType, boundarySafe, senderOwners, otherOwners) ==
  convType = "asymmetric" => boundarySafe \/ otherOwners \subseteq senderOwners

SubsetReversed(convType, boundarySafe, senderOwners, otherOwners) ==
  \/ convType = "open" /\ boundarySafe
  \/ convType = "internal"
  \/ convType = "asymmetric" /\ (boundarySafe \/ senderOwners \subseteq otherOwners)

IsBoundaryCrossingSafe(convType, boundarySafe, senderOwners, otherOwners) ==
  \/ convType = "open" /\ boundarySafe
  \/ convType = "internal"
  \/ convType = "asymmetric" /\ (boundarySafe \/ otherOwners \subseteq senderOwners)

-----------------------------------------------------------------------------
(* service.py, policy seams *)

MayAssign(creatorOwners, assigneeOwners) == creatorOwners \cap assigneeOwners # {}

\* Every pair of the set satisfies the predicate of the conversation type; an
\* open conversation has no ownership rule.
PairwiseAdmitted(convType, agents, ownersOf) ==
  /\ convType = "internal" =>
       \A a, b \in agents : a # b => ownersOf[a] = ownersOf[b]
  /\ convType = "asymmetric" =>
       \A a, b \in agents : a # b => MayAssign(ownersOf[a], ownersOf[b])

MayInvite(inviterStatus) == inviterStatus = "active"

\* Faulty variant of the next definition: the roles are swapped.
RolesSwapped(type, role) ==
  /\ type = "task_cancel"  => role = "member"
  /\ type = "task_decline" => role = "owner"

\* _MESSAGE_TYPE_SENDER_ROLES: the only two types restricted by role.
SenderRoleAllows(type, role) ==
  /\ type = "task_cancel"  => role = "owner"
  /\ type = "task_decline" => role = "member"
=============================================================================
