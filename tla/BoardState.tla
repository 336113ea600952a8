----------------------------- MODULE BoardState -----------------------------
(***************************************************************************)
(* The replicated state of a board, ChatBoardStateV1                       *)
(* (common/src/board_state.rs and common/src/board_state/*.rs): what       *)
(* verify accepts, the delta one replica computes for another, and what   *)
(* apply_delta makes of it, field by field in the order of the composable *)
(* struct, with post_apply_cleanup at the end.                             *)
(*                                                                         *)
(* Records that are signed once and never change are values here: a       *)
(* member is its MemberId, a ban or a message a record with its id.  The  *)
(* vectors of the code are kept sorted by id with no duplicates, so they   *)
(* are sets.  Signatures are taken to be valid: the model has no one who   *)
(* signs for somebody else.                                                *)
(*                                                                         *)
(* A definition whose comment begins with "Deviation" is no part of the    *)
(* model: it is what the definition after it would be with a bug, and the  *)
(* property it names is known to fail with it.                             *)
(***************************************************************************)
EXTENDS InviteChain

CONSTANT None       \* Option::None, and a field a delta leaves alone

(* A ban: ids are ordered as the code sorts bans, by (banned_at, BanId).   *)
Ban == [id : Nat, banned_by : Principals, banned_user : Principals]

(* A message.  secret_version is None for BoardMessageBody::Public.  size  *)
(* stands for content_len() and title for the length of its title.         *)
Message == [id : Nat, author : Principals, secret_version : Nat \cup {None},
            size : Nat, title : Nat]

(* A MemberInfo; the nickname is represented by its declared length.       *)
MemberInfo == [member_id : Principals, version : Nat, nickname : Nat]

(* The display name and description, and their limits, are left out.        *)
Configuration ==
    [configuration_version : Nat, private : BOOLEAN, max_user_bans : Nat,
     max_admins : Nat, max_message_size : Nat, max_title_size : Nat,
     max_nickname_size : Nat]

ASSUME NoneAssumption == None \notin Nat \cup Configuration

(* Who holds the secret of which version: EncryptedSecretForMemberV1.      *)
Blob == [version : Nat, member : Principals]

Secrets == [current_version : Nat, versions : SUBSET Nat, blobs : SUBSET Blob]

SecretsDelta == [current_version : Nat \cup {None}, versions : SUBSET Nat,
                 blobs : SUBSET Blob]

(* StateVersion never changes once written and is left out.                *)
ChatBoardState ==
    [configuration : Configuration, admin : SUBSET Members, bans : SUBSET Ban,
     members : SUBSET Members, member_info : SUBSET MemberInfo,
     secrets : Secrets, recent_messages : SUBSET Message,
     upgrade : Nat \cup {None}]

(* The empty set stands for None in the fields that are lists.             *)
ChatBoardStateDelta ==
    [configuration : Configuration \cup {None}, admin : SUBSET Principals,
     bans : SUBSET Ban, members : SUBSET Members,
     member_info : SUBSET MemberInfo, secrets : SecretsDelta \cup {None},
     recent_messages : SUBSET Message, upgrade : Nat \cup {None}]

EmptyDelta ==
    [configuration |-> None, admin |-> {}, bans |-> {}, members |-> {},
     member_info |-> {}, secrets |-> None, recent_messages |-> {},
     upgrade |-> None]

Participants(members) == members \cup {Owner}

BannedUsers(bans) == {b.banned_user : b \in bans}

---------------------------------------------------------------------------
(* verify: what validate_state asks of a board.                            *)

(* A ban counts if the banned user is gone, or the banner is the owner, an *)
(* admin, somebody above the banned user, or a member who was pruned       *)
(* rather than banned.                                                     *)
BanJustified(b, bans, admin, members) ==
    \/ b.banned_user \notin members
    \/ b.banned_by \in admin \cup {Owner}
    \/ b.banned_by \in members /\ InChainOf(b.banned_by, b.banned_user, members)
    \/ b.banned_by \notin members \cup BannedUsers(bans)

BansValid(bans, config, admin, members) ==
    /\ \A b \in bans : BanJustified(b, bans, admin, members)
    /\ Cardinality(bans) <= config.max_user_bans

VerifyAdmin(s) ==
    Cardinality(s.admin) <= s.configuration.max_admins /\ Owner \notin s.admin

VerifyBans(s) == BansValid(s.bans, s.configuration, s.admin, s.members)

VerifyMembers(s) == Owner \notin s.members /\ ChainsValid(s.members)

VerifyMemberInfo(s) ==
    \A i \in s.member_info : i.member_id \in Participants(s.members)

VerifySecrets(s) ==
    IF s.secrets.versions = {}
    THEN s.secrets.current_version = 0
    ELSE /\ s.secrets.current_version \in s.secrets.versions
         /\ \A v \in s.secrets.versions : v <= s.secrets.current_version

VerifyMessages(s) ==
    \A m \in s.recent_messages : m.author \in Participants(s.members)

Verify(s) ==
    /\ VerifyAdmin(s) /\ VerifyBans(s) /\ VerifyMembers(s)
    /\ VerifyMemberInfo(s) /\ VerifySecrets(s) /\ VerifyMessages(s)

---------------------------------------------------------------------------
(* delta: what `other` has that the summary of `base` does not show.       *)

DeltaConfiguration(other, base) ==
    IF other.configuration.configuration_version
         > base.configuration.configuration_version
    THEN other.configuration ELSE None

(* Deviation (EventualAgreement): the infos of members the other side does *)
(* not know yet are left out.                                              *)
DeltaMemberInfoOfKnown(other, base) ==
    {i \in other.member_info :
        \E j \in base.member_info : j.member_id = i.member_id /\ i.version > j.version}

DeltaMemberInfo(other, base) ==
    {i \in other.member_info :
        \A j \in base.member_info :
            j.member_id = i.member_id => i.version > j.version}

DeltaSecrets(other, base) ==
    LET new == [current_version |->
                    IF other.secrets.current_version > base.secrets.current_version
                    THEN other.secrets.current_version ELSE None,
                versions |-> other.secrets.versions \ base.secrets.versions,
                blobs |-> other.secrets.blobs \ base.secrets.blobs]
    IN  IF /\ new.versions = {} /\ new.blobs = {}
           /\ other.secrets.current_version = base.secrets.current_version
        THEN None ELSE new

DeltaUpgrade(other, base) ==
    IF /\ other.upgrade # None
       /\ base.upgrade = None \/ other.upgrade > base.upgrade
    THEN other.upgrade ELSE None

Delta(other, base) ==
    [configuration   |-> DeltaConfiguration(other, base),
     admin           |-> other.admin \ base.admin,
     bans            |-> other.bans \ base.bans,
     members         |-> other.members \ base.members,
     member_info     |-> DeltaMemberInfo(other, base),
     secrets         |-> DeltaSecrets(other, base),
     recent_messages |-> other.recent_messages \ base.recent_messages,
     upgrade         |-> DeltaUpgrade(other, base)]

---------------------------------------------------------------------------
(* apply_delta, one field at a time: when a field's delta is refused the   *)
(* whole update fails, and what the field becomes when it is not.          *)

(* Deviation (ConfigurationsInOrder): the version may be the one held.      *)
ConfigurationAcceptedAgain(config, new) ==
    new # None =>
        /\ new.configuration_version >= config.configuration_version
        /\ new.max_user_bans > 0 /\ new.max_admins > 0
        /\ new.max_message_size > 0 /\ new.max_title_size > 0
        /\ new.max_nickname_size > 0

ConfigurationAccepted(config, new) ==
    new # None =>
        /\ new.configuration_version > config.configuration_version
        /\ new.max_user_bans > 0 /\ new.max_admins > 0
        /\ new.max_message_size > 0 /\ new.max_title_size > 0
        /\ new.max_nickname_size > 0

ConfigurationAfter(config, new) == IF new = None THEN config ELSE new

AdminAccepted(admin, new, config) ==
    new # {} => /\ Cardinality(admin \cup new) <= config.max_admins
                /\ Owner \notin new

(* What is left of bans when the oldest beyond the limit are drained.      *)
NewestBans(bans, limit) ==
    {b \in bans : Cardinality({c \in bans : c.id > b.id}) < limit}

BansAfter(bans, new, config) ==
    IF new = {} THEN bans ELSE NewestBans(bans \cup new, config.max_user_bans)

(* The bans are checked against the members held before this delta's own   *)
(* members are added, but with its configuration and admins in force.      *)
BansAccepted(bans, new, config, admin, members) ==
    new # {} =>
        /\ bans \cap new = {}
        /\ BansValid(BansAfter(bans, new, config), config, admin, members)

MembersAccepted(members, new) == new \subseteq Rooted(members \cup new)

(* Deviation (BoardsVerify): the people a banned member invited stay.       *)
MembersAfterKeepingInvitees(members, new, bans) ==
    (members \cup new) \ BannedUsers(bans)

(* remove_banned_members runs whether or not members were added.           *)
MembersAfter(members, new, bans) ==
    LET all == members \cup new
        banned == BannedUsers(bans)
    IN  all \ (banned \cup Reached(banned, all))

MemberInfoAccepted(new, config) ==
    \A i \in new : i.nickname <= config.max_nickname_size

(* Deviation (NothingRollsBack): an info replaces whichever is held.        *)
MemberInfoAfterReplacing(infos, new, members) ==
    {i \in {j \in infos : \A k \in new : k.member_id # j.member_id} \cup new :
        i.member_id \in Participants(members)}

MemberInfoAfter(infos, new, members) ==
    LET Newer(i, js) == \A j \in js : j.member_id = i.member_id => i.version > j.version
        replaced == {j \in infos : \E i \in new :
                        i.member_id = j.member_id /\ i.version > j.version}
    IN  {i \in (infos \ replaced) \cup {i \in new : Newer(i, infos)} :
            i.member_id \in Participants(members)}

(* Blobs for people who are not members are skipped, not refused.          *)
SecretsAccepted(secrets, new, members) ==
    new # None =>
        LET versions == secrets.versions \cup new.versions IN
        /\ secrets.versions \cap new.versions = {}
        /\ \A b \in new.blobs : b.member \in Participants(members) =>
                b.version \in versions /\ b \notin secrets.blobs
        /\ new.current_version # None =>
                /\ new.current_version > secrets.current_version
                /\ new.current_version \in versions

SecretsAfter(secrets, new, members) ==
    IF new = None THEN secrets
    ELSE [current_version |-> IF new.current_version = None
                              THEN secrets.current_version
                              ELSE new.current_version,
          versions |-> secrets.versions \cup new.versions,
          blobs |-> {b \in secrets.blobs \cup new.blobs :
                        b.member \in Participants(members)}]

(* has_complete_distribution: nobody is left without the current secret.   *)
CompleteDistribution(secrets, members) ==
    \/ secrets.current_version = 0
    \/ \A m \in members :
            [version |-> secrets.current_version, member |-> m] \in secrets.blobs

(* Deviation (PrivateMessagesSealed): public messages are taken anywhere.   *)
MessageAcceptedUnsealed(m, config, secrets, members) ==
    /\ m.title <= config.max_title_size
    /\ m.secret_version # None => CompleteDistribution(secrets, members)

MessageAccepted(m, config, secrets, members) ==
    /\ m.title <= config.max_title_size
    /\ m.secret_version = None => ~config.private
    /\ m.secret_version # None =>
            /\ config.private => m.secret_version = secrets.current_version
            /\ CompleteDistribution(secrets, members)

(* Deviation (BoardsSettled, MergesCommute): new messages are not filtered. *)
MessagesAfterUnfiltered(messages, new, config, members) ==
    {m \in messages : m.author \in Participants(members)} \cup new

MessagesAfter(messages, new, config, members) ==
    {m \in messages \cup new :
        m.size <= config.max_message_size /\ m.author \in Participants(members)}

---------------------------------------------------------------------------
(* The whole update.                                                       *)

(* Deviation (TypeOK): the owner is not left out of the authors to keep.    *)
CleanupKeepingOwner(s) ==
    [s EXCEPT !.members = Required({m.author : m \in s.recent_messages}, @)
                            \cup ({Owner} \cap {m.author : m \in s.recent_messages})]

(* post_apply_cleanup: keep the members who authored a message and their   *)
(* inviters, the infos of those, and the bans that are not orphaned (whose *)
(* banner was not banned in turn).                                         *)
Cleanup(s) ==
    LET authors == {m.author : m \in s.recent_messages}
        kept == Required(authors, s.members)
    IN  [s EXCEPT
            !.members = kept,
            !.member_info = {i \in s.member_info : i.member_id \in Participants(kept)},
            !.bans = {b \in s.bans : \/ b.banned_by \in Participants(kept)
                                     \/ b.banned_by \notin BannedUsers(s.bans)}]

Applied(s, d) ==
    LET config  == ConfigurationAfter(s.configuration, d.configuration)
        bans    == BansAfter(s.bans, d.bans, config)
        members == MembersAfter(s.members, d.members, bans)
    IN  [configuration |-> config,
         admin         |-> s.admin \cup d.admin,
         bans          |-> bans,
         members       |-> members,
         member_info   |-> MemberInfoAfter(s.member_info, d.member_info, members),
         secrets       |-> SecretsAfter(s.secrets, d.secrets, members),
         recent_messages |->
            MessagesAfter(s.recent_messages, d.recent_messages, config, members),
         upgrade       |-> IF d.upgrade = None THEN s.upgrade ELSE d.upgrade]

(* Deviation (ReplicasMergeable): the bans are applied before the admins.   *)
AcceptsBansFirst(s, d) ==
    LET t == Applied(s, d) IN
    /\ ConfigurationAccepted(s.configuration, d.configuration)
    /\ BansAccepted(s.bans, d.bans, t.configuration, s.admin, s.members)
    /\ AdminAccepted(s.admin, d.admin, t.configuration)
    /\ MembersAccepted(s.members, d.members)
    /\ MemberInfoAccepted(d.member_info, t.configuration)
    /\ SecretsAccepted(s.secrets, d.secrets, t.members)
    /\ \A m \in d.recent_messages :
            MessageAccepted(m, t.configuration, t.secrets, t.members)

Accepts(s, d) ==
    LET t == Applied(s, d) IN
    /\ ConfigurationAccepted(s.configuration, d.configuration)
    /\ AdminAccepted(s.admin, d.admin, t.configuration)
    /\ BansAccepted(s.bans, d.bans, t.configuration, t.admin, s.members)
    /\ MembersAccepted(s.members, d.members)
    /\ MemberInfoAccepted(d.member_info, t.configuration)
    /\ SecretsAccepted(s.secrets, d.secrets, t.members)
    /\ \A m \in d.recent_messages :
            MessageAccepted(m, t.configuration, t.secrets, t.members)

(* apply_delta on a delta that Accepts lets through.                       *)
Apply(s, d) == Cleanup(Applied(s, d))

(* merge: the delta the other state holds for this one, applied.  A delta  *)
(* with no field set is None, and applying None changes nothing.           *)
MergeAccepts(s, other) == Accepts(s, Delta(other, s))

Merge(s, other) ==
    IF Delta(other, s) = EmptyDelta THEN s ELSE Apply(s, Delta(other, s))
=============================================================================
