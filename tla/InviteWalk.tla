----------------------------- MODULE InviteWalk -----------------------------
(***************************************************************************)
(* The loops that walk the invitation graph (member.rs, ban.rs,            *)
(* board_state.rs of common/src), one iteration per step.  The other      *)
(* modules use the fixed points of InviteChain in their place, and this    *)
(* one shows that they may.                                                *)
(*                                                                         *)
(* Anybody can sign an invitation for anybody, so a delta may bring cycles *)
(* and self-invitations; but what a board holds has been verified, which   *)
(* the two walks that run only over a board's own records rely on.        *)
(***************************************************************************)
EXTENDS FiniteSets

CONSTANTS Owner, Members

VARIABLES
    invitedBy,  \* the graph of the invitations
    held,       \* the members whose records the walk can look up
    walk,       \* the function that runs
    from,       \* the member it runs for, or the message authors
    current,    \* where an upward walk is
    todo,       \* to_check, to_process
    found,      \* downstream, required_ids, chain_ids, chain or visited_members
    outcome     \* "running", "Ok" or "Err"

vars == <<invitedBy, held, walk, from, current, todo, found, outcome>>
input == <<invitedBy, held, walk, from>>

Chain == INSTANCE InviteChain WITH Inviter <- invitedBy

Downwards == {"get_downstream_members"}
Upwards == {"get_invite_chain", "invite_chain_ids"}
Walks ==
    Downwards \cup Upwards \cup {"post_apply_cleanup", "validate_invite_chain"}

(* The walks from one member go up, except the one that looks for everybody *)
(* it invited; the cleanup starts from all authors of messages.            *)
Climbs == Upwards \cup {"validate_invite_chain"}

Init ==
    /\ invitedBy \in [Members -> Members \cup {Owner}]
    /\ held \in SUBSET Members
    /\ walk \in Walks
    /\ walk \in Upwards \/ Chain!ChainsValid(held)
    /\ from \in SUBSET Members
    /\ walk # "post_apply_cleanup" => Cardinality(from) = 1
    /\ walk = "validate_invite_chain" => from \subseteq held
    /\ IF walk \in Climbs THEN current \in from ELSE current = Owner
    /\ todo = IF walk = "post_apply_cleanup" THEN from \cap held ELSE from
    /\ found = IF walk = "post_apply_cleanup" THEN from \cap held ELSE {}
    /\ outcome = "running"

Finish(o) == /\ outcome' = o
             /\ UNCHANGED <<input, current, todo, found>>

---------------------------------------------------------------------------

(* get_downstream_members; nothing keeps it from visiting a member twice.   *)
Downstream ==
    \E m \in todo :
        LET invited == {k \in held : invitedBy[k] = m} IN
        /\ todo' = (todo \ {m}) \cup invited
        /\ found' = found \cup invited
        /\ UNCHANGED <<input, current, outcome>>

(* One iteration of an upward walk: it notes where it is, and goes on to    *)
(* the inviter or ends there.                                               *)
Climb(ends, result, noted) ==
    /\ found' = found \cup noted
    /\ current' = IF ends THEN current ELSE invitedBy[current]
    /\ outcome' = IF ends THEN result ELSE "running"
    /\ UNCHANGED <<input, todo>>

Unknown(m) == m \notin held \cup {Owner}

(* Deviation (WalksTerminate): the members visited are not remembered.      *)
InviterUnguarded ==
    LET refused == invitedBy[current] = current \/ Unknown(invitedBy[current]) IN
    Climb(refused \/ invitedBy[current] = Owner, IF refused THEN "Err" ELSE "Ok", {})

(* get_invite_chain_with_lookup: no member twice, no self-invitation, and   *)
(* every inviter known, until the owner is reached.                         *)
Inviter ==
    LET refused == \/ current \in found
                   \/ invitedBy[current] = current
                   \/ Unknown(invitedBy[current])
    IN  Climb(refused \/ invitedBy[current] = Owner,
              IF refused THEN "Err" ELSE "Ok", {current})

(* Deviation (WalksAgree): an inviter that is not held is left out.         *)
ChainIdsOfHeld ==
    LET next == invitedBy[current] IN
    Climb(next \notin held \/ next \in found \cup {current}, "Ok", {current})

(* invite_chain_ids: an inviter that is not held is in the chain all the    *)
(* same, and ends it.                                                       *)
ChainIds ==
    LET next == invitedBy[current] IN
    Climb(next \notin held \/ next \in found \cup {current}, "Ok",
          {current} \cup {m \in {next} : Unknown(m)})

(* validate_invite_chain collects the members above the banned one; the     *)
(* banning member is among them or the ban is refused.                      *)
BanChain ==
    LET next == invitedBy[current] IN
    Climb(next \notin held \/ next \in found \cup {current}, "Ok", {current})

(* The upward walk of post_apply_cleanup from all message authors.          *)
Ancestors ==
    \E m \in todo :
        LET above == {invitedBy[k] : k \in {m} \cap held} \ (found \cup {Owner}) IN
        /\ todo' = (todo \ {m}) \cup above
        /\ found' = found \cup above
        /\ UNCHANGED <<input, current, outcome>>

Next ==
    /\ outcome = "running"
    /\ \/ walk \in Downwards /\ (Downstream \/ (todo = {} /\ Finish("Ok")))
       \/ walk = "post_apply_cleanup" /\ (Ancestors \/ (todo = {} /\ Finish("Ok")))
       \/ walk = "get_invite_chain" /\ Inviter
       \/ walk = "invite_chain_ids" /\ ChainIds
       \/ walk = "validate_invite_chain" /\ BanChain

Spec == Init /\ [][Next]_vars /\ WF_vars(Next)

---------------------------------------------------------------------------

(* A walk that is over has computed the fixed point that the other modules  *)
(* put in its place; and the two ways to find whom a ban removes, down from *)
(* the banned member (remove_banned_members) and up from every member       *)
(* (check_banned_members), name the same members.                           *)
WalksAgree ==
    outcome # "running" =>
        \A m \in from :
            CASE walk = "get_downstream_members" ->
                    found = Chain!Reached({m}, held)
              [] walk = "get_invite_chain" ->
                    (outcome = "Ok") = (m \in Chain!Rooted(held \cup {m}))
              [] walk = "invite_chain_ids" ->
                    m \in held => \A banned \in Members :
                        (banned \in found) = (m \in {banned} \cup Chain!Reached({banned}, held))
              [] walk = "post_apply_cleanup" ->
                    found = Chain!Required(from, held)
              [] walk = "validate_invite_chain" ->
                    \A banning \in held : (banning \in found) = Chain!InChainOf(banning, m, held)

(* Every walk ends, whatever invitations people sign one another.           *)
WalksTerminate == <>(outcome # "running")
=============================================================================
