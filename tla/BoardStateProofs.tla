-------------------------- MODULE BoardStateProofs --------------------------
(***************************************************************************)
(* What one update does to one board, for every board and every update:    *)
(* apply_delta yields a board, and a board that verify accepts when the    *)
(* board it started from was one.                                          *)
(*                                                                         *)
(* First what removing and pruning members does to the chains of           *)
(* invitations, for every invitation graph: none of the steps an update    *)
(* takes leaves a member whose chain does not reach the owner.             *)
(***************************************************************************)
EXTENDS BoardState, FiniteSetTheorems, TLAPS

(* Reached is closed under the step that defines it: whoever was invited   *)
(* by somebody reached is reached.                                         *)
LEMMA ReachedClosed ==
    ASSUME NEW R, NEW S
    PROVE  ClosedUnder(R, S, Reached(R, S))
  BY DEF ClosedUnder, Reached

(* Reached is the smallest such set.                                       *)
LEMMA ReachedLeast ==
    ASSUME NEW R, NEW S, NEW D \in SUBSET S, ClosedUnder(R, S, D)
    PROVE  Reached(R, S) \subseteq D
  BY DEF Reached

(* A chain that reaches the owner still does when more records are held.   *)
LEMMA RootedMonotonic ==
    ASSUME NEW S, NEW T, S \subseteq T
    PROVE  Rooted(S) \subseteq Rooted(T)
  <1>. SUFFICES ASSUME NEW m \in Rooted(S),
                       NEW D \in SUBSET T, ClosedUnder({Owner}, T, D)
                PROVE  m \in D
    BY DEF Rooted, Reached
  <1>1. ClosedUnder({Owner}, S, D \cap S)
    BY DEF ClosedUnder
  <1>. QED
    BY <1>1, ReachedLeast DEF Rooted

(* apply_delta of the members: when every new record's chain is complete,  *)
(* all chains are.                                                         *)
LEMMA ChainsValidAdding ==
    ASSUME NEW S, NEW new, ChainsValid(S), new \subseteq Rooted(S \cup new)
    PROVE  ChainsValid(S \cup new)
  <1>1. S \subseteq Rooted(S \cup new)
    BY RootedMonotonic DEF ChainsValid
  <1>2. Rooted(S \cup new) \subseteq S \cup new
    BY DEF Rooted, Reached
  <1>. QED
    BY <1>1, <1>2 DEF ChainsValid

(* A part of a set of complete chains that holds the inviter of each of    *)
(* its members, where the whole set does, has complete chains too.         *)
LEMMA ChainsValidPart ==
    ASSUME NEW S, NEW T \in SUBSET S, ChainsValid(S),
           \A m \in T : Inviter[m] \in S => Inviter[m] \in T
    PROVE  ChainsValid(T)
  <1>. SUFFICES ASSUME NEW D \in SUBSET T, ClosedUnder({Owner}, T, D)
                PROVE  T \subseteq D
    BY DEF ChainsValid, Rooted, Reached
  <1>. DEFINE E == D \cup (S \ T)
  <1>1. ClosedUnder({Owner}, S, E)
    BY DEF ClosedUnder
  <1>2. S \subseteq E
    BY <1>1, ReachedLeast, E \in SUBSET S DEF ChainsValid, Rooted
  <1>. QED
    BY <1>2

(* remove_banned_members: without the banned members and everybody below   *)
(* them, the chains of the others are complete.                            *)
LEMMA ChainsValidRemoving ==
    ASSUME NEW S, NEW B, ChainsValid(S)
    PROVE  ChainsValid(S \ (B \cup Reached(B, S)))
  <1>. DEFINE T == S \ (B \cup Reached(B, S))
  <1>1. ASSUME NEW m \in T, Inviter[m] \in S
        PROVE  Inviter[m] \in T
    BY <1>1, ReachedClosed DEF ClosedUnder
  <1>. QED
    BY <1>1, ChainsValidPart

(* More records held, and more people to start from, reach more.           *)
LEMMA ReachedMonotonic ==
    ASSUME NEW R, NEW S, NEW Q, NEW T, R \subseteq Q, S \subseteq T
    PROVE  Reached(R, S) \subseteq Reached(Q, T)
  <1>. SUFFICES ASSUME NEW m \in Reached(R, S),
                       NEW D \in SUBSET T, ClosedUnder(Q, T, D)
                PROVE  m \in D
    BY DEF Reached
  <1>1. ClosedUnder(R, S, D \cap S)
    BY DEF ClosedUnder
  <1>. QED
    BY <1>1, ReachedLeast

(* What Required keeps is some of the records held, with every record of   *)
(* the people asked for and the inviter of each record kept.               *)
LEMMA RequiredFacts ==
    ASSUME NEW A, NEW S
    PROVE  /\ Required(A, S) \subseteq S
           /\ A \cap S \subseteq Required(A, S)
           /\ ClosedUpwards(S, Required(A, S))
  BY DEF Required, ClosedUpwards

(* post_apply_cleanup: when those who wrote nothing and invited nobody who *)
(* did are pruned, the chains of the others are complete.                  *)
LEMMA ChainsValidPruning ==
    ASSUME NEW A, NEW S, ChainsValid(S)
    PROVE  ChainsValid(Required(A, S))
  BY RequiredFacts, ChainsValidPart DEF ClosedUpwards

(* Pruning once is enough: what is kept would be kept again.               *)
LEMMA RequiredAgain ==
    ASSUME NEW A, NEW S
    PROVE  Required(A, Required(A, S)) = Required(A, S)
  <1>. DEFINE K == Required(A, S)
  <1>1. /\ K \subseteq S /\ A \cap S \subseteq K
        /\ \A m \in K : Inviter[m] \in S => Inviter[m] \in K
    BY RequiredFacts DEF ClosedUpwards
  <1>. SUFFICES ASSUME NEW m \in K, NEW D \in SUBSET K,
                       A \cap K \subseteq D, ClosedUpwards(K, D)
                PROVE  m \in D
    BY RequiredFacts DEF Required
  <1>2. A \cap S \subseteq D /\ ClosedUpwards(S, D)
    BY <1>1 DEF ClosedUpwards
  <1>. QED
    BY <1>1, <1>2 DEF Required

---------------------------------------------------------------------------
(* One update of one board.                                                *)

(* delta yields a delta.                                                   *)
LEMMA DeltaType ==
    ASSUME NEW s \in ChatBoardState, NEW other \in ChatBoardState
    PROVE  Delta(other, s) \in ChatBoardStateDelta
  <1>1. DeltaConfiguration(other, s) \in Configuration \cup {None}
    BY DEF DeltaConfiguration, ChatBoardState
  <1>2. DeltaMemberInfo(other, s) \in SUBSET MemberInfo
    BY DEF DeltaMemberInfo, ChatBoardState
  <1>3. DeltaSecrets(other, s) \in SecretsDelta \cup {None}
    BY DEF DeltaSecrets, ChatBoardState, Secrets, SecretsDelta
  <1>4. DeltaUpgrade(other, s) \in Nat \cup {None}
    BY DEF DeltaUpgrade, ChatBoardState
  <1>. QED
    BY <1>1, <1>2, <1>3, <1>4
    DEF Delta, ChatBoardState, ChatBoardStateDelta, Principals

(* The fields together, before the cleanup.                                *)
LEMMA AppliedType ==
    ASSUME NEW s \in ChatBoardState, NEW d \in ChatBoardStateDelta,
           NEW config, AdminAccepted(s.admin, d.admin, config)
    PROVE  Applied(s, d) \in ChatBoardState
  <1>. DEFINE t == Applied(s, d)
  <1>1. t.configuration \in Configuration
    BY DEF Applied, ConfigurationAfter, ChatBoardState, ChatBoardStateDelta
  <1>2. t.admin \in SUBSET Members
    BY DEF Applied, AdminAccepted, ChatBoardState, ChatBoardStateDelta, Principals
  <1>3. t.bans \in SUBSET Ban
    BY DEF Applied, BansAfter, NewestBans, ChatBoardState, ChatBoardStateDelta
  <1>4. t.members \in SUBSET Members
    BY DEF Applied, MembersAfter, ChatBoardState, ChatBoardStateDelta
  <1>5. t.member_info \in SUBSET MemberInfo
    BY DEF Applied, MemberInfoAfter, ChatBoardState, ChatBoardStateDelta
  <1>6. t.secrets \in Secrets
    BY DEF Applied, SecretsAfter, ChatBoardState, ChatBoardStateDelta, Secrets,
           SecretsDelta
  <1>7. t.recent_messages \in SUBSET Message
    BY DEF Applied, MessagesAfter, ChatBoardState, ChatBoardStateDelta
  <1>8. t.upgrade \in Nat \cup {None}
    BY DEF Applied, ChatBoardState, ChatBoardStateDelta
  <1>. QED
    BY <1>1, <1>2, <1>3, <1>4, <1>5, <1>6, <1>7, <1>8 DEF Applied, ChatBoardState

LEMMA CleanupType ==
    ASSUME NEW s \in ChatBoardState
    PROVE  Cleanup(s) \in ChatBoardState
  BY RequiredFacts DEF Cleanup, ChatBoardState

(* apply_delta and merge yield a board.                                    *)
LEMMA ApplyType ==
    ASSUME NEW s \in ChatBoardState, NEW d \in ChatBoardStateDelta, Accepts(s, d)
    PROVE  Apply(s, d) \in ChatBoardState
  BY AppliedType, CleanupType DEF Apply, Accepts

LEMMA MergeType ==
    ASSUME NEW s \in ChatBoardState, NEW other \in ChatBoardState,
           MergeAccepts(s, other)
    PROVE  Merge(s, other) \in ChatBoardState
  BY DeltaType, ApplyType DEF Merge, MergeAccepts
---------------------------------------------------------------------------
(* verify, of the result.                                                  *)

(* A board verify accepts as far as the limits on the numbers of admins    *)
(* and bans are not concerned, from which the banned are gone, with one    *)
(* info a member.                                                          *)
OneInfoEach(infos) ==
    \A i, j \in infos : i.member_id = j.member_id => i = j

Sound(s) ==
    /\ s \in ChatBoardState
    /\ ChainsValid(s.members)
    /\ VerifyMemberInfo(s) /\ VerifySecrets(s) /\ VerifyMessages(s)
    /\ BannedUsers(s.bans) \cap s.members = {}
    /\ IsFiniteSet(s.bans) /\ OneInfoEach(s.member_info)

WithinLimits(s) ==
    /\ Cardinality(s.admin) <= s.configuration.max_admins
    /\ Cardinality(s.bans) <= s.configuration.max_user_bans

(* What a delta must be like for the result to be sound, beyond what       *)
(* apply_delta checks: it brings no secret newer than the version that is  *)
(* current afterwards, and one info a member.                              *)
OrderedSecrets(s, d) ==
    d.secrets # None =>
        \A v \in d.secrets.versions :
            IF d.secrets.current_version = None
            THEN v <= s.secrets.current_version
            ELSE v <= d.secrets.current_version

SoundDelta(s, d) ==
    /\ d \in ChatBoardStateDelta
    /\ OrderedSecrets(s, d)
    /\ IsFiniteSet(d.bans) /\ OneInfoEach(d.member_info)

KeepsLimits(s, d) ==
    d.configuration # None =>
        /\ d.configuration.max_admins >= s.configuration.max_admins
        /\ d.configuration.max_user_bans >= s.configuration.max_user_bans

(* No ban is left to justify when the banned are gone.                     *)
LEMMA SoundVerifies ==
    ASSUME NEW s, Sound(s), WithinLimits(s)
    PROVE  Verify(s)
  <1>1. Owner \notin s.admin /\ Owner \notin s.members
    BY OwnerAssumption DEF Sound, ChatBoardState
  <1>2. VerifyBans(s)
    BY DEF Sound, WithinLimits, BannedUsers, VerifyBans, BansValid, BanJustified
  <1>. QED
    BY <1>1, <1>2 DEF Sound, WithinLimits, Verify, VerifyAdmin, VerifyMembers

LEMMA AppliedChains ==
    ASSUME NEW s, NEW d, ChainsValid(s.members), Accepts(s, d)
    PROVE  ChainsValid(Applied(s, d).members)
  <1>1. ChainsValid(s.members \cup d.members)
    BY ChainsValidAdding DEF Accepts, MembersAccepted
  <1>. QED
    BY <1>1, ChainsValidRemoving DEF Applied, MembersAfter

LEMMA AppliedSecrets ==
    ASSUME NEW s \in ChatBoardState, NEW d \in ChatBoardStateDelta,
           VerifySecrets(s), Accepts(s, d), OrderedSecrets(s, d)
    PROVE  VerifySecrets(Applied(s, d))
  <1>. DEFINE t == Applied(s, d)
  <1>1. t.secrets = SecretsAfter(s.secrets, d.secrets, t.members)
    BY DEF Applied
  <1>2. SecretsAccepted(s.secrets, d.secrets, t.members)
    BY DEF Accepts
  <1>3. s.secrets \in Secrets /\ d.secrets \in SecretsDelta \cup {None}
    BY DEF ChatBoardState, ChatBoardStateDelta
  <1>4. CASE d.secrets = None
    BY <1>1, <1>4 DEF SecretsAfter, VerifySecrets
  <1>5. CASE d.secrets # None /\ d.secrets.current_version = None
    BY <1>1, <1>2, <1>3, <1>5
    DEF SecretsAfter, SecretsAccepted, VerifySecrets, Secrets, SecretsDelta,
        OrderedSecrets
  <1>6. CASE d.secrets # None /\ d.secrets.current_version # None
    BY <1>1, <1>2, <1>3, <1>6
    DEF SecretsAfter, SecretsAccepted, VerifySecrets, Secrets, SecretsDelta,
        OrderedSecrets
  <1>. QED
    BY <1>4, <1>5, <1>6

LEMMA AppliedInfos ==
    ASSUME NEW s \in ChatBoardState, NEW d \in ChatBoardStateDelta,
           OneInfoEach(s.member_info), OneInfoEach(d.member_info)
    PROVE  OneInfoEach(Applied(s, d).member_info)
  <1>. SUFFICES ASSUME NEW i \in Applied(s, d).member_info,
                       NEW j \in Applied(s, d).member_info,
                       i.member_id = j.member_id
                PROVE  i = j
    BY DEF OneInfoEach
  <1>1. s.member_info \subseteq MemberInfo /\ d.member_info \subseteq MemberInfo
    BY DEF ChatBoardState, ChatBoardStateDelta
  <1>. QED
    BY <1>1 DEF Applied, MemberInfoAfter, OneInfoEach

(* The fields together leave a sound board.                                *)
LEMMA AppliedSound ==
    ASSUME NEW s, NEW d, Sound(s), SoundDelta(s, d), Accepts(s, d)
    PROVE  Sound(Applied(s, d))
  <1>. DEFINE t == Applied(s, d)
  <1>. USE DEF Sound, SoundDelta
  <1>1. t \in ChatBoardState
    BY AppliedType DEF Accepts
  <1>2. IsFiniteSet(t.bans)
    <2>1. t.bans \subseteq s.bans \cup d.bans
      BY DEF Applied, BansAfter, NewestBans
    <2>. QED
      BY <2>1, FS_Union, FS_Subset
  <1>3. VerifySecrets(t)
    BY AppliedSecrets
  <1>4. ChainsValid(t.members)
    BY AppliedChains
  <1>5. OneInfoEach(t.member_info)
    BY AppliedInfos
  <1>6. VerifyMemberInfo(t) /\ VerifyMessages(t)
    BY DEF Applied, MemberInfoAfter, MessagesAfter, VerifyMemberInfo, VerifyMessages
  <1>7. BannedUsers(t.bans) \cap t.members = {}
    BY DEF Applied, MembersAfter
  <1>. QED
    BY <1>1, <1>2, <1>3, <1>4, <1>5, <1>6, <1>7

(* What the cleanup leaves as it is, and what it makes smaller.            *)
LEMMA CleanupFacts ==
    ASSUME NEW t \in ChatBoardState
    PROVE  LET c == Cleanup(t)
               A == {m.author : m \in t.recent_messages}
           IN  /\ c.configuration = t.configuration /\ c.admin = t.admin
               /\ c.secrets = t.secrets /\ c.recent_messages = t.recent_messages
               /\ c.members = Required(A, t.members)
               /\ c.members \subseteq t.members /\ A \cap t.members \subseteq c.members
               /\ c.bans \subseteq t.bans
               /\ c.member_info \subseteq t.member_info
               /\ \A i \in c.member_info : i.member_id \in Participants(c.members)
  BY RequiredFacts DEF Cleanup, ChatBoardState

(* post_apply_cleanup keeps a board sound.                                 *)
LEMMA CleanupSound ==
    ASSUME NEW t, Sound(t)
    PROVE  Sound(Cleanup(t))
  <1>. DEFINE c == Cleanup(t)
              A == {m.author : m \in t.recent_messages}
  <1>1. t \in ChatBoardState
    BY DEF Sound
  <1>2. /\ c.secrets = t.secrets /\ c.recent_messages = t.recent_messages
        /\ c.members = Required(A, t.members)
        /\ c.members \subseteq t.members /\ A \cap t.members \subseteq c.members
        /\ c.bans \subseteq t.bans /\ c.member_info \subseteq t.member_info
        /\ \A i \in c.member_info : i.member_id \in Participants(c.members)
    BY <1>1, CleanupFacts
  <1>3. ChainsValid(c.members)
    BY <1>2, ChainsValidPruning DEF Sound
  <1>4. VerifyMessages(c)
    BY <1>2 DEF Sound, VerifyMessages, Participants
  <1>5. VerifyMemberInfo(c) /\ VerifySecrets(c) /\ OneInfoEach(c.member_info)
    BY <1>2 DEF Sound, VerifyMemberInfo, VerifySecrets, OneInfoEach
  <1>6. IsFiniteSet(c.bans)
    BY <1>2, FS_Subset DEF Sound
  <1>7. BannedUsers(c.bans) \cap c.members = {}
    BY <1>2 DEF Sound, BannedUsers
  <1>. QED
    BY <1>1, <1>3, <1>4, <1>5, <1>6, <1>7, CleanupType DEF Sound

(* An accepted update leaves a sound board.                                *)
LEMMA ApplySound ==
    ASSUME NEW s, NEW d, Sound(s), SoundDelta(s, d), Accepts(s, d)
    PROVE  Sound(Apply(s, d))
  BY AppliedSound, CleanupSound DEF Apply

(* The delta between two sound boards is one.                              *)
LEMMA DeltaSound ==
    ASSUME NEW s, NEW other, Sound(s), Sound(other)
    PROVE  SoundDelta(s, Delta(other, s))
  <1>. DEFINE d == Delta(other, s)
  <1>1. s \in ChatBoardState /\ other \in ChatBoardState
    BY DEF Sound
  <1>2. OrderedSecrets(s, d)
    <2>1. SUFFICES ASSUME d.secrets # None, NEW v \in d.secrets.versions
                   PROVE  IF d.secrets.current_version = None
                          THEN v <= s.secrets.current_version
                          ELSE v <= d.secrets.current_version
      BY DEF OrderedSecrets
    <2>2. d.secrets = DeltaSecrets(other, s)
      BY DEF Delta
    <2>3. /\ v \in other.secrets.versions
          /\ d.secrets.current_version =
                  IF other.secrets.current_version > s.secrets.current_version
                  THEN other.secrets.current_version ELSE None
      BY <2>1, <2>2 DEF DeltaSecrets
    <2>4. v <= other.secrets.current_version
      BY <2>3 DEF VerifySecrets, Sound
    <2>5. /\ v \in Nat /\ other.secrets.current_version \in Nat
          /\ s.secrets.current_version \in Nat
      BY <1>1, <2>3 DEF ChatBoardState, Secrets
    <2>. QED
      BY <2>3, <2>4, <2>5, NoneAssumption
  <1>3. IsFiniteSet(d.bans)
    BY FS_Subset DEF Delta, Sound
  <1>4. OneInfoEach(d.member_info)
    BY DEF Delta, DeltaMemberInfo, Sound, OneInfoEach
  <1>. QED
    BY <1>1, <1>2, <1>3, <1>4, DeltaType DEF SoundDelta

(* merge leaves a sound board.                                             *)
LEMMA MergeSound ==
    ASSUME NEW s, NEW other, Sound(s), Sound(other), MergeAccepts(s, other)
    PROVE  Sound(Merge(s, other))
  BY DeltaSound, ApplySound DEF Merge, MergeAccepts

---------------------------------------------------------------------------
(* The limits on the numbers of admins and bans.                           *)

(* An accepted update that does not lower the limits keeps to them.        *)
LEMMA ApplyWithinLimits ==
    ASSUME NEW s, NEW d, Sound(s), SoundDelta(s, d), Accepts(s, d),
           WithinLimits(s), KeepsLimits(s, d)
    PROVE  WithinLimits(Apply(s, d))
  <1>. DEFINE t == Applied(s, d)
              c == Apply(s, d)
  <1>1. s \in ChatBoardState /\ t \in ChatBoardState /\ c \in ChatBoardState
    BY AppliedSound, ApplySound DEF Sound
  <1>2. /\ t.configuration.max_admins >= s.configuration.max_admins
        /\ t.configuration.max_user_bans >= s.configuration.max_user_bans
    BY <1>1 DEF Applied, ConfigurationAfter, KeepsLimits, ChatBoardState, Configuration
  <1>3. /\ s.configuration.max_admins \in Nat /\ s.configuration.max_user_bans \in Nat
        /\ t.configuration.max_admins \in Nat /\ t.configuration.max_user_bans \in Nat
    BY <1>1 DEF ChatBoardState, Configuration
  <1>4. /\ Cardinality(s.admin) \in Nat /\ Cardinality(s.bans) \in Nat
        /\ Cardinality(t.bans) \in Nat /\ Cardinality(c.bans) \in Nat
    <2>1. IsFiniteSet(s.admin)
      BY <1>1, MembersAssumption, FS_Subset DEF ChatBoardState
    <2>2. IsFiniteSet(s.bans) /\ IsFiniteSet(t.bans) /\ IsFiniteSet(c.bans)
      BY AppliedSound, ApplySound DEF Sound
    <2>. QED
      BY <2>1, <2>2, FS_CardinalityType
  <1>5. Cardinality(t.admin) <= t.configuration.max_admins
    <2>1. CASE d.admin = {}
      BY <2>1, <1>2, <1>3, <1>4 DEF Applied, WithinLimits
    <2>2. CASE d.admin # {}
      BY <2>2 DEF Accepts, AdminAccepted, Applied
    <2>. QED
      BY <2>1, <2>2
  <1>6. Cardinality(t.bans) <= t.configuration.max_user_bans
    <2>1. CASE d.bans = {}
      BY <2>1, <1>2, <1>3, <1>4 DEF Applied, BansAfter, WithinLimits
    <2>2. CASE d.bans # {}
      BY <2>2 DEF Accepts, BansAccepted, BansValid, Applied
    <2>. QED
      BY <2>1, <2>2
  <1>7. /\ c.configuration = t.configuration /\ c.admin = t.admin
        /\ c.bans \subseteq t.bans
    BY <1>1, CleanupFacts DEF Apply
  <1>8. Cardinality(c.bans) <= Cardinality(t.bans)
    BY <1>7, AppliedSound, FS_Subset DEF Sound
  <1>. QED
    BY <1>3, <1>4, <1>5, <1>6, <1>7, <1>8 DEF WithinLimits

---------------------------------------------------------------------------
(* What one update leaves for the next one to clean up: nothing.           *)

Authors(s) == {m.author : m \in s.recent_messages}

(* Each part is what one of the fields' apply_delta or the cleanup removes. *)
Tidy(s) ==
    /\ \A m \in s.recent_messages :
            m.size <= s.configuration.max_message_size /\ m.author \in Participants(s.members)
    /\ Required(Authors(s), s.members) = s.members
    /\ VerifyMemberInfo(s)
    /\ \A b \in s.bans : \/ b.banned_by \in Participants(s.members)
                          \/ b.banned_by \notin BannedUsers(s.bans)
    /\ BannedUsers(s.bans) \cap s.members = {}
    /\ Reached(BannedUsers(s.bans), s.members) = {}

(* A delta with no field set is accepted by a tidy board and changes nothing. *)
LEMMA TidySettled ==
    ASSUME NEW s \in ChatBoardState, Tidy(s)
    PROVE  Accepts(s, EmptyDelta) /\ Apply(s, EmptyDelta) = s
  <1>. DEFINE t == Applied(s, EmptyDelta)
  <1>1. MembersAfter(s.members, {}, s.bans) = s.members
    BY DEF MembersAfter, Tidy
  <1>2. MemberInfoAfter(s.member_info, {}, s.members) = s.member_info
    BY DEF MemberInfoAfter, Tidy, VerifyMemberInfo
  <1>3. MessagesAfter(s.recent_messages, {}, s.configuration, s.members) = s.recent_messages
    BY DEF MessagesAfter, Tidy
  <1>4. t = s
    BY <1>1, <1>2, <1>3
    DEF Applied, EmptyDelta, ConfigurationAfter, BansAfter, SecretsAfter, ChatBoardState
  <1>5. Accepts(s, EmptyDelta)
    BY DEF Accepts, EmptyDelta, ConfigurationAccepted, AdminAccepted, BansAccepted,
           MembersAccepted, MemberInfoAccepted, SecretsAccepted
  <1>6. Cleanup(s) = s
    <2>1. {i \in s.member_info : i.member_id \in Participants(s.members)} = s.member_info
      BY DEF Tidy, VerifyMemberInfo
    <2>2. {b \in s.bans : \/ b.banned_by \in Participants(s.members)
                         \/ b.banned_by \notin BannedUsers(s.bans)} = s.bans
      BY DEF Tidy
    <2>. QED
      BY <2>1, <2>2 DEF Cleanup, Tidy, Authors, ChatBoardState
  <1>. QED
    BY <1>4, <1>5, <1>6 DEF Apply

(* Whatever an update brings, post_apply_cleanup leaves a tidy board.      *)
LEMMA ApplyTidy ==
    ASSUME NEW s \in ChatBoardState, NEW d \in ChatBoardStateDelta, Accepts(s, d)
    PROVE  Tidy(Apply(s, d))
  <1>. DEFINE t == Applied(s, d)
              c == Cleanup(t)
              all == s.members \cup d.members
  <1>1. t \in ChatBoardState
    BY AppliedType DEF Accepts
  <1>2. /\ c.configuration = t.configuration /\ c.recent_messages = t.recent_messages
        /\ c.members = Required(Authors(t), t.members)
        /\ c.members \subseteq t.members /\ Authors(t) \cap t.members \subseteq c.members
        /\ c.bans \subseteq t.bans
        /\ \A i \in c.member_info : i.member_id \in Participants(c.members)
    BY <1>1, CleanupFacts DEF Authors
  <1>3. \A m \in c.recent_messages :
            /\ m.size <= c.configuration.max_message_size
            /\ m.author \in Participants(c.members)
    <2>1. \A m \in t.recent_messages :
            /\ m.size <= t.configuration.max_message_size
            /\ m.author \in Participants(t.members)
      BY DEF Applied, MessagesAfter
    <2>. QED
      BY <1>2, <2>1 DEF Authors, Participants
  <1>4. Required(Authors(c), c.members) = c.members
    BY <1>2, RequiredAgain DEF Authors
  <1>5. BannedUsers(c.bans) \subseteq BannedUsers(t.bans)
    BY <1>2 DEF BannedUsers
  <1>6. \A b \in c.bans : \/ b.banned_by \in Participants(c.members)
                         \/ b.banned_by \notin BannedUsers(c.bans)
    BY <1>1, <1>5 DEF Cleanup, ChatBoardState
  <1>7. t.members = all \ (BannedUsers(t.bans) \cup Reached(BannedUsers(t.bans), all))
    BY DEF Applied, MembersAfter
  <1>8. Reached(BannedUsers(c.bans), c.members) \subseteq Reached(BannedUsers(t.bans), all)
    <2>1. c.members \subseteq all
      BY <1>2, <1>7
    <2>. HIDE DEF c, t, all
    <2>. QED
      BY <2>1, <1>5, ReachedMonotonic
  <1>9. Reached(BannedUsers(c.bans), c.members) \subseteq c.members
    BY DEF Reached
  <1>. QED
    BY <1>2, <1>3, <1>4, <1>5, <1>6, <1>7, <1>8, <1>9 DEF Apply, Tidy, VerifyMemberInfo

---------------------------------------------------------------------------
(* Who is above whom in the graph of invitations.                           *)

(* A ban by the owner or somebody above the banned in the graph of         *)
(* invitations, such as ban_member composes.                               *)
FromAbove(b) ==
    /\ b.banned_user \in Members
    /\ \/ b.banned_by = Owner
       \/ /\ b.banned_by # b.banned_user
          /\ b.banned_by \in Required({b.banned_user}, Members)

BansFromAbove(bans) == \A b \in bans : FromAbove(b)

(* Those above m, and m.                                                   *)
LEMMA AboveIs ==
    ASSUME NEW m \in Members
    PROVE  /\ m \in Required({m}, Members)
           /\ Inviter[m] \in Members =>
                Required({m}, Members) = {m} \cup Required({Inviter[m]}, Members)
           /\ Inviter[m] \notin Members => Required({m}, Members) = {m}
  <1>1. /\ m \in Required({m}, Members)
        /\ Inviter[m] \in Members => Inviter[m] \in Required({m}, Members)
        /\ ClosedUpwards(Members, Required({m}, Members))
    BY RequiredFacts DEF ClosedUpwards
  <1>2. CASE Inviter[m] \in Members
    <2>. DEFINE above == Required({Inviter[m]}, Members)
                D == {m} \cup above
    <2>1. /\ above \subseteq Members /\ Inviter[m] \in above
          /\ \A k \in above : Inviter[k] \in Members => Inviter[k] \in above
      BY <1>2, RequiredFacts DEF ClosedUpwards
    <2>2. D \in SUBSET Members /\ {m} \cap Members \subseteq D /\ ClosedUpwards(Members, D)
      BY <2>1 DEF ClosedUpwards
    <2>3. Required({m}, Members) \subseteq D
      BY <2>2 DEF Required
    <2>4. {Inviter[m]} \cap Members \subseteq Required({m}, Members)
      BY <1>1, <1>2
    <2>5. above \subseteq Required({m}, Members)
      BY <1>1, <2>4, RequiredFacts DEF Required
    <2>. QED
      BY <1>1, <1>2, <2>3, <2>5
  <1>3. CASE Inviter[m] \notin Members
    <2>1. {m} \in SUBSET Members /\ {m} \cap Members \subseteq {m} /\ ClosedUpwards(Members, {m})
      BY <1>3 DEF ClosedUpwards
    <2>2. Required({m}, Members) \subseteq {m}
      BY <2>1 DEF Required
    <2>. QED
      BY <1>1, <1>3, <2>2
  <1>. QED
    BY <1>1, <1>2, <1>3

(* More records held leave more above.                                     *)
LEMMA AboveMonotonic ==
    ASSUME NEW S \in SUBSET Members, NEW m \in S
    PROVE  Required({m}, S) \subseteq Required({m}, Members)
  <1>. SUFFICES ASSUME NEW x \in Required({m}, S), NEW D \in SUBSET Members,
                       {m} \cap Members \subseteq D, ClosedUpwards(Members, D)
                PROVE  x \in D
    BY RequiredFacts DEF Required
  <1>1. D \cap S \in SUBSET S /\ {m} \cap S \subseteq D \cap S /\ ClosedUpwards(S, D \cap S)
    BY DEF ClosedUpwards
  <1>. QED
    BY <1>1 DEF Required

(* Complete chains hold everybody above their members.                     *)
LEMMA AboveHeld ==
    ASSUME NEW S \in SUBSET Members, ChainsValid(S), NEW m \in S
    PROVE  Required({m}, Members) \subseteq Required({m}, S)
  <1>. DEFINE R == Required({m}, S)
  <1>1. R \subseteq S /\ m \in R /\ ClosedUpwards(S, R)
    BY RequiredFacts
  <1>2. \A k \in S : Inviter[k] \in S \cup {Owner}
    <2>. DEFINE D == {k \in S : Inviter[k] \in S \cup {Owner}}
    <2>1. ClosedUnder({Owner}, S, D)
      BY DEF ClosedUnder
    <2>. QED
      BY <2>1, ReachedLeast DEF ChainsValid, Rooted
  <1>3. R \in SUBSET Members /\ {m} \cap Members \subseteq R /\ ClosedUpwards(Members, R)
    BY <1>1, <1>2, OwnerAssumption DEF ClosedUpwards
  <1>. QED
    BY <1>3 DEF Required

=============================================================================
