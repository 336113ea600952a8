---------------------------- MODULE InviteChain ----------------------------
(***************************************************************************)
(* The invitation graph of a FreeTalk board                                *)
(* (common/src/board_state/member.rs).                                     *)
(*                                                                         *)
(* Every member is admitted by a record signed by the inviter, so the     *)
(* record, and with it the inviter, is the same in every replica: the     *)
(* graph is the constant Inviter.  What changes is which records a        *)
(* replica holds.  The loops of member.rs and board_state.rs that walk    *)
(* the graph (up to the owner, or down from a banned member) compute      *)
(* least fixed points, and are stated here as such: the smallest set      *)
(* closed under the step of the loop.  InviteWalk models the loops        *)
(* themselves, one iteration a step, and checks them against these.       *)
(***************************************************************************)
EXTENDS Naturals, FiniteSets

CONSTANTS
    Owner,      \* MemberId of the board owner; never in the members list
    Members,    \* MemberIds for which somebody signed an invitation
    Inviter     \* the invited_by field of each member's AuthorizedMember

ASSUME MembersAssumption == IsFiniteSet(Members)
ASSUME OwnerAssumption == Owner \notin Members
ASSUME InviterAssumption == Inviter \in [Members -> Members \cup {Owner}]

(* Everybody who may author content: the owner is implicit everywhere. *)
Principals == Members \cup {Owner}

---------------------------------------------------------------------------

(* D contains every record of S whose inviter is in R or in D. *)
ClosedUnder(R, S, D) == \A m \in S : Inviter[m] \in R \cup D => m \in D

(* The records of S reached from R by following invitations downwards:     *)
(* the loop of get_downstream_members.                                     *)
Reached(R, S) == {m \in S : \A D \in SUBSET S : ClosedUnder(R, S, D) => m \in D}

(* The records of S whose chain of inviters reaches the owner inside S:    *)
(* get_invite_chain_with_lookup succeeds with S as its lookup map.  A     *)
(* cycle, a self-invitation and a missing inviter all leave a record out. *)
Rooted(S) == Reached({Owner}, S)

ChainsValid(S) == Rooted(S) = S

(* A and, for every member of it that S holds, the inviters S holds too:   *)
(* the upward walk of post_apply_cleanup, cut down to the records held.    *)
ClosedUpwards(S, D) == \A m \in D : Inviter[m] \in S => Inviter[m] \in D

Required(A, S) ==
    {m \in S : \A D \in SUBSET S :
                    (A \cap S \subseteq D /\ ClosedUpwards(S, D)) => m \in D}

(* x is m or one of the inviters above m: validate_invite_chain finds the  *)
(* banning member x in the chain of the banned member m.                   *)
InChainOf(x, m, S) == x \in Required({m}, S)
=============================================================================
