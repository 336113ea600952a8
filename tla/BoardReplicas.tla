---------------------------- MODULE BoardReplicas ----------------------------
(***************************************************************************)
(* The replicas of one board and the people who write to it.               *)
(*                                                                         *)
(* A replica is a copy of ChatBoardStateV1 that is updated only through    *)
(* apply_delta and merge: the state of the board contract on a Freenet     *)
(* node (freetalk-contract/src/lib.rs) or the one a client keeps           *)
(* (ui/src/board_data.rs).  Users compose a signed delta against the       *)
(* replica in front of them; the signature comes from the delegate after   *)
(* an await, and the command line sends the delta to a node, so the delta  *)
(* is applied later and to a replica that may have changed.  Replicas      *)
(* exchange whole states and deltas computed for a summary, which the      *)
(* network may delay, repeat, reorder or lose.                             *)
(***************************************************************************)
EXTENDS BoardState

CONSTANTS
    Nodes,              \* the replicas
    Devices,            \* Devices[p]: the replicas p writes through
    InitialConfiguration,
    Privacies,          \* whether a board may be created private
    BanLimits,          \* values the owner may give to max_user_bans later
    MaxConfigurationVersion,    \* bound on the configurations published
    Sizes, Titles, Nicknames,   \* lengths users choose
    BanIds, MessageIds, \* ids (times) still to be given to bans and messages
    MaxInfoVersion,     \* bound on the versions of a member's nickname
    Upgrades,           \* versions of upgrade pointers the owner may publish
    MaxInflight         \* bound on the updates under way at once

ASSUME DevicesAssumption == Devices \in [Principals -> SUBSET Nodes]
ASSUME ConfigurationAssumption == InitialConfiguration \in Configuration
ASSUME PrivacyAssumption == Privacies \subseteq BOOLEAN
ASSUME LengthsAssumption ==
    /\ Sizes \subseteq Nat /\ Titles \subseteq Nat
    /\ Nicknames \subseteq Nat /\ Nicknames # {}
ASSUME IdsAssumption ==
    /\ BanIds \subseteq Nat /\ MessageIds \subseteq Nat
    /\ Upgrades \subseteq Nat /\ BanLimits \subseteq Nat
ASSUME BoundsAssumption ==
    {MaxConfigurationVersion, MaxInfoVersion, MaxInflight} \subseteq Nat

VARIABLES
    board,          \* board[n]: the state of the board at replica n
    inflight,       \* updates composed or sent and not yet applied
    bansSigned,     \* ids of the bans signed so far
    messagesSigned, \* ids of the messages signed so far
    infosSigned,    \* the MemberInfos signed so far
    stored          \* stored[p]: the invitations p kept on accepting: none
                    \* yet, p's own, or p's own and those above it

vars == <<board, inflight, bansSigned, messagesSigned, infosSigned, stored>>
signed == <<bansSigned, messagesSigned, infosSigned>>

(* What the handler that composed a delta does when it applies it: only    *)
(* that, or add the author's invitations first, or rotate the secret after. *)
Handlers == {"apply", "rejoin", "rotate"}

(* An update on its way to a replica: a delta, or a whole state to merge.  *)
DeltaUpdate == [to : Nodes, delta : ChatBoardStateDelta, handler : Handlers]
StateUpdate == [to : Nodes, state : ChatBoardState]

TypeOK ==
    /\ board \in [Nodes -> ChatBoardState]
    /\ inflight \subseteq DeltaUpdate \cup StateUpdate
    /\ bansSigned \subseteq BanIds
    /\ messagesSigned \subseteq MessageIds
    /\ infosSigned \subseteq MemberInfo
    /\ stored \in [Members -> SUBSET Members]

(* create_new_board_with_name, already replicated everywhere.              *)
InitialSecrets(private) ==
    [current_version |-> 0, versions |-> IF private THEN {0} ELSE {},
     blobs |-> IF private THEN {[version |-> 0, member |-> Owner]} ELSE {}]

FirstInfo(p) == [member_id |-> p, version |-> 0,
                 nickname |-> CHOOSE k \in Nicknames : TRUE]

InitialBoard(private) ==
    [configuration |-> [InitialConfiguration EXCEPT !.private = private],
     admin |-> {}, bans |-> {}, members |-> {},
     member_info |-> {FirstInfo(Owner)}, secrets |-> InitialSecrets(private),
     recent_messages |-> {}, upgrade |-> None]

Init ==
    /\ \E private \in Privacies : board = [n \in Nodes |-> InitialBoard(private)]
    /\ inflight = {}
    /\ bansSigned = {}
    /\ messagesSigned = {}
    /\ infosSigned = {FirstInfo(p) : p \in Principals}
    /\ stored = [p \in Members |-> {}]

---------------------------------------------------------------------------
(* Users.                                                                  *)

Post(u) == /\ Cardinality(inflight) < MaxInflight
           /\ inflight' = inflight \cup {u}
           /\ UNCHANGED board

(* A delta composed at replica n is signed, or travels to the node of the  *)
(* board it was fetched from, before it is applied there.                  *)
Compose(n, d, handler) == Post([to |-> n, delta |-> d, handler |-> handler])

(* Accepting an invitation publishes nothing: it keeps the invitation and, *)
(* if the replica holds everybody above p, their invitations too.          *)
AcceptInvitation(n, p) ==
    LET chain == Required({p}, Members) IN
    /\ n \in Devices[p]
    /\ stored[p] = {}
    /\ stored' = [stored EXCEPT ![p] =
                    IF chain \subseteq Rooted(board[n].members \cup {p})
                    THEN chain ELSE {p}]
    /\ UNCHANGED <<board, inflight, signed>>

(* Deviation (ParticipantsCanPost): the bans are not looked at.             *)
MayParticipateThoughBanned(p, s) ==
    p \notin Participants(s.members) => stored[p] # {}

(* can_participate: not banned, and the owner, a member, or an invitee.    *)
MayParticipate(p, s) ==
    /\ p \notin BannedUsers(s.bans)
    /\ p \notin Participants(s.members) => stored[p] # {}

(* The secret p's client seals with: the one of the current version, if    *)
(* the replica holds a blob for p; otherwise the text goes out unsealed.   *)
SealedWith(p, s) ==
    IF /\ s.configuration.private
       /\ [version |-> s.secrets.current_version, member |-> p] \in s.secrets.blobs
    THEN s.secrets.current_version ELSE None

(* A title is checked only where it can be read.                           *)
ComposedMessage(id, p, s, size, title) ==
    LET sealed == SealedWith(p, s) IN
    [id |-> id, author |-> p, secret_version |-> sealed, size |-> size,
     title |-> IF sealed = None THEN title ELSE 0]

SendMessage(n, p) ==
    LET s == board[n] IN
    /\ n \in Devices[p] /\ MayParticipate(p, s)
    /\ \E id \in MessageIds \ messagesSigned, size \in Sizes, title \in Titles :
        /\ size <= s.configuration.max_message_size
        /\ title <= s.configuration.max_title_size
        /\ messagesSigned' = messagesSigned \cup {id}
        /\ Compose(n, [EmptyDelta EXCEPT !.recent_messages =
                           {ComposedMessage(id, p, s, size, title)}], "rejoin")
    /\ UNCHANGED <<bansSigned, infosSigned, stored>>

(* What a message is sent with: nothing more if its author is a member of  *)
(* the replica at the time it is applied; otherwise the stored invitations *)
(* the replica lacks, and the nickname stored with them.                   *)
Rejoined(d, p, s) ==
    IF p \in Participants(s.members) \/ stored[p] = {} THEN {d}
    ELSE {[d EXCEPT !.members = stored[p] \ s.members, !.member_info = {i}] :
             i \in {j \in infosSigned : j.member_id = p}}

(* The ban button is offered to the owner, to admins and to the people     *)
(* above the member in the chain of invitations.                           *)
MayBan(p, x, s) ==
    /\ x \in Rooted(s.members)
    /\ p \in s.admin \cup {Owner} \/ (p # x /\ InChainOf(p, x, s.members))

(* A ban made on the command line does not rotate the secret.              *)
BanMember(n, p, x) ==
    /\ n \in Devices[p]
    /\ MayBan(p, x, board[n])
    /\ \E id \in BanIds \ bansSigned,
          handler \in IF p = Owner THEN {"apply", "rotate"} ELSE {"apply"} :
        /\ bansSigned' = bansSigned \cup {id}
        /\ Compose(n, [EmptyDelta EXCEPT !.bans =
              {[id |-> id, banned_by |-> p, banned_user |-> x]}], handler)
    /\ UNCHANGED <<messagesSigned, infosSigned, stored>>

AddAdmin(n, x) ==
    /\ n \in Devices[Owner]
    /\ x \in board[n].members \ board[n].admin
    /\ Compose(n, [EmptyDelta EXCEPT !.admin = {x}], "apply")
    /\ UNCHANGED <<signed, stored>>

(* The owner renames the board or, on the command line, gives it another   *)
(* max_user_bans: the next version of the configuration.                   *)
UpdateConfiguration(n, limit) ==
    LET c == board[n].configuration IN
    /\ n \in Devices[Owner]
    /\ c.configuration_version < MaxConfigurationVersion
    /\ Compose(n, [EmptyDelta EXCEPT !.configuration =
          [c EXCEPT !.configuration_version = @ + 1, !.max_user_bans = limit]], "apply")
    /\ UNCHANGED <<signed, stored>>

Update(s, d) == IF Accepts(s, d) THEN Apply(s, d) ELSE s

(* Signed and applied in the handler itself, with no await in between.     *)
SetNickname(n, p, nickname) ==
    /\ n \in Devices[p]
    /\ \E i \in board[n].member_info :
        LET j == [i EXCEPT !.version = @ + 1, !.nickname = nickname] IN
        /\ i.member_id = p /\ i.version < MaxInfoVersion
        /\ infosSigned' = infosSigned \cup {j}
        /\ board' = [board EXCEPT ![n] =
                        Update(@, [EmptyDelta EXCEPT !.member_info = {j}])]
    /\ UNCHANGED <<inflight, bansSigned, messagesSigned, stored>>

(* rotate_secret: a new version, sealed for every member who is not banned *)
(* (and not for the owner); refused when there is nobody to seal it for.   *)
MayRotate(s) == s.configuration.private /\ s.members \ BannedUsers(s.bans) # {}

Rotation(s) ==
    LET v == s.secrets.current_version + 1 IN
    [EmptyDelta EXCEPT !.secrets =
        [current_version |-> v, versions |-> {v},
         blobs |-> {[version |-> v, member |-> m] :
                        m \in s.members \ BannedUsers(s.bans)}]]

Rotated(s) == IF MayRotate(s) THEN Update(s, Rotation(s)) ELSE s

(* The button is offered in a private board.                               *)
RotateSecret(n) ==
    /\ n \in Devices[Owner]
    /\ board[n].configuration.private
    /\ board' = [board EXCEPT ![n] = Rotated(@)]
    /\ UNCHANGED <<inflight, signed, stored>>

(* The owner's client points an old contract at its replacement: it sends  *)
(* a default state with nothing but the upgrade set.                       *)
PublishUpgrade(k, v) ==
    /\ Post([to |-> k, state |-> [InitialBoard(FALSE) EXCEPT
                !.member_info = {}, !.upgrade = v]])
    /\ UNCHANGED <<signed, stored>>

---------------------------------------------------------------------------
(* The network.                                                            *)

SendDelta(n, k) ==
    /\ n # k
    /\ Delta(board[n], board[k]) # EmptyDelta
    /\ Compose(k, Delta(board[n], board[k]), "apply")
    /\ UNCHANGED <<signed, stored>>

SendState(n, k) ==
    /\ n # k
    /\ board[n] # board[k]
    /\ Post([to |-> k, state |-> board[n]])
    /\ UNCHANGED <<signed, stored>>

(* The states replica s may be left in by u.  A refused update changes     *)
(* nothing; the secret is rotated only after the ban was accepted.         *)
Outcomes(s, u) ==
    IF "state" \in DOMAIN u
    THEN {IF MergeAccepts(s, u.state) THEN Merge(s, u.state) ELSE s}
    ELSE CASE u.handler = "apply"  -> {Update(s, u.delta)}
           [] u.handler = "rotate" ->
                {IF Accepts(s, u.delta) THEN Rotated(Apply(s, u.delta)) ELSE s}
           [] u.handler = "rejoin" ->
                {Update(s, d) : d \in UNION {Rejoined(u.delta, m.author, s) :
                                                m \in u.delta.recent_messages}}

Receive(u) ==
    /\ \E s \in Outcomes(board[u.to], u) : board' = [board EXCEPT ![u.to] = s]
    /\ UNCHANGED <<signed, stored>>

Deliver(u) == Receive(u) /\ inflight' = inflight \ {u}

(* Only what travels between nodes is repeated.                            *)
DeliverCopy(u) == "state" \in DOMAIN u /\ Receive(u) /\ UNCHANGED inflight

Lose(u) == /\ inflight' = inflight \ {u}
           /\ UNCHANGED <<board, signed, stored>>

(* Two replicas compare summaries and n gets what it lacks, undisturbed.   *)
Sync(n, k) ==
    /\ n # k
    /\ MergeAccepts(board[n], board[k])
    /\ board' = [board EXCEPT ![n] = Merge(board[n], board[k])]
    /\ UNCHANGED <<inflight, signed, stored>>

---------------------------------------------------------------------------

Write(n) ==
    \/ \E p \in Principals :
        \/ SendMessage(n, p)
        \/ \E x \in Members : BanMember(n, p, x)
        \/ \E nickname \in Nicknames : SetNickname(n, p, nickname)
    \/ \E p \in Members : AcceptInvitation(n, p)
    \/ \E x \in Members : AddAdmin(n, x)
    \/ \E limit \in BanLimits : UpdateConfiguration(n, limit)
    \/ RotateSecret(n)
    \/ \E v \in Upgrades : PublishUpgrade(n, v)

Exchange(n, k) == SendDelta(n, k) \/ SendState(n, k) \/ Sync(n, k)

Next ==
    \/ \E n \in Nodes : Write(n)
    \/ \E n, k \in Nodes : Exchange(n, k)
    \/ \E u \in inflight : Deliver(u) \/ DeliverCopy(u) \/ Lose(u)

Spec == Init /\ [][Next]_vars

(* Replicas that differ are compared again and again.                      *)
FairSpec == Spec /\ \A n, k \in Nodes : WF_vars(Sync(n, k))

---------------------------------------------------------------------------
(* Properties.                                                             *)

(* Whatever updates a replica accepts, and in whatever order, validate_state *)
(* accepts the result: board_state.rs applies nine fields one after the      *)
(* other and then cleans up, and verify relates them to one another.         *)
BoardsVerify == \A n \in Nodes : Verify(board[n])

(* An accepted update leaves nothing for the next one to clean up: applying  *)
(* a delta with no field set, which still runs every field's apply_delta and *)
(* post_apply_cleanup, is accepted and changes nothing.                      *)
BoardsSettled ==
    \A n \in Nodes : Accepts(board[n], EmptyDelta)
                      /\ Apply(board[n], EmptyDelta) = board[n]

(* In a private board no message is readable without a secret, and every     *)
(* message is sealed with a secret the board has: no replica, no client with *)
(* an older secret and no rejoining member gets one in otherwise.            *)
PrivateMessagesSealed ==
    \A n \in Nodes : board[n].configuration.private =>
        \A m \in board[n].recent_messages :
            m.secret_version \in board[n].secrets.versions

(* Two replicas that merge one another's state end up with the same board.   *)
MergesCommute ==
    \A n, k \in Nodes : Merge(board[n], board[k]) = Merge(board[k], board[n])

(* No replica holds anything that makes another refuse its whole state.      *)
ReplicasMergeable == \A n, k \in Nodes : MergeAccepts(board[n], board[k])

(* Whoever the client lets write (can_participate) can write: a message of   *)
(* theirs, applied to the replica they see, is accepted and kept.            *)
ParticipantsCanPost ==
    \A p \in Principals : \A n \in Devices[p] : MayParticipate(p, board[n]) =>
        LET s == board[n]
            m == ComposedMessage(0, p, s, 0, 0)
        IN  \A d \in Rejoined([EmptyDelta EXCEPT !.recent_messages = {m}], p, s) :
                Accepts(s, d) /\ m \in Apply(s, d).recent_messages

(* No order of updates takes a replica back: not to an older configuration,  *)
(* to fewer admins, to an older secret, nor a member who stays to an older   *)
(* nickname.                                                                 *)
Forward(s, t) ==
    /\ t.configuration # s.configuration =>
            t.configuration.configuration_version > s.configuration.configuration_version
    /\ s.admin \subseteq t.admin
    /\ s.secrets.versions \subseteq t.secrets.versions
    /\ t.secrets.current_version >= s.secrets.current_version
    /\ \A i \in s.member_info, j \in t.member_info :
            i.member_id = j.member_id => i = j \/ j.version > i.version

NothingRollsBack == [][\A n \in Nodes : Forward(board[n], board'[n])]_board

(* However updates were delayed, repeated, reordered or lost, once users     *)
(* stop writing the replicas come to hold the same board.                    *)
Agreement == \A n, k \in Nodes : board[n] = board[k]
EventualAgreement == <>[]Agreement
=============================================================================
