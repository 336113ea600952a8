------------------------ MODULE BoardReplicasProofs ------------------------
(***************************************************************************)
(* What holds of the replicas of a board for any number of replicas and    *)
(* users, any graph of invitations and any number of updates under way.    *)
(*                                                                         *)
(* TypeOK and the soundness of every board are proved together: an update  *)
(* under way is sound for the board it will be applied to, and stays so    *)
(* while that board moves forward.                                         *)
(*                                                                         *)
(* Then: accepted updates leave valid boards, private boards hold nothing  *)
(* readable, replicas merge, participants can write, merges commute where  *)
(* nothing is in dispute, and the loops of InviteWalk find the fixed       *)
(* points the board's checks are stated with.                              *)
(***************************************************************************)
EXTENDS BoardReplicas, BoardStateProofs, WellFoundedInduction

---------------------------------------------------------------------------
(* One update.                                                             *)

(* An accepted update takes a board forward.                               *)
LEMMA ApplyForward ==
    ASSUME NEW s, NEW d, Sound(s), SoundDelta(s, d), Accepts(s, d)
    PROVE  Forward(s, Apply(s, d))
  <1>. DEFINE t == Applied(s, d)
              c == Apply(s, d)
  <1>1. /\ s \in ChatBoardState /\ t \in ChatBoardState
        /\ d \in ChatBoardStateDelta
    BY AppliedSound DEF Sound, SoundDelta
  <1>2. /\ c.configuration = t.configuration /\ c.admin = t.admin
        /\ c.secrets = t.secrets /\ c.member_info \subseteq t.member_info
    BY <1>1, CleanupFacts DEF Apply
  <1>3. t.configuration # s.configuration =>
            t.configuration.configuration_version > s.configuration.configuration_version
    BY DEF Applied, ConfigurationAfter, Accepts, ConfigurationAccepted
  <1>4. s.admin \subseteq t.admin
    BY DEF Applied
  <1>5. s.secrets.versions \subseteq t.secrets.versions
    BY DEF Applied, SecretsAfter
  <1>6. t.secrets.current_version >= s.secrets.current_version
    <2>1. s.secrets.current_version \in Nat /\ t.secrets.current_version \in Nat
      BY <1>1 DEF ChatBoardState, Secrets
    <2>2. t.secrets = SecretsAfter(s.secrets, d.secrets, t.members)
      BY DEF Applied
    <2>3. SecretsAccepted(s.secrets, d.secrets, t.members)
      BY DEF Accepts
    <2>. QED
      BY <2>1, <2>2, <2>3 DEF SecretsAfter, SecretsAccepted
  <1>7. ASSUME NEW i \in s.member_info, NEW j \in t.member_info,
               i.member_id = j.member_id
        PROVE  i = j \/ j.version > i.version
    BY <1>7 DEF Applied, MemberInfoAfter, Sound, OneInfoEach
  <1>. QED
    BY <1>2, <1>3, <1>4, <1>5, <1>6, <1>7 DEF Forward

LEMMA ForwardReflexive ==
    ASSUME NEW s, Sound(s)
    PROVE  Forward(s, s)
  BY DEF Forward, Sound, OneInfoEach, ChatBoardState, Secrets

(* A refused update leaves a board as it is, an accepted one takes it      *)
(* forward; either way it is sound.                                        *)
LEMMA UpdateSteps ==
    ASSUME NEW s, NEW d, Sound(s), SoundDelta(s, d)
    PROVE  Sound(Update(s, d)) /\ Forward(s, Update(s, d))
  BY ApplySound, ApplyForward, ForwardReflexive DEF Update

LEMMA MergeSteps ==
    ASSUME NEW s, NEW other, Sound(s), Sound(other), MergeAccepts(s, other)
    PROVE  Sound(Merge(s, other)) /\ Forward(s, Merge(s, other))
  BY MergeSound, DeltaSound, ApplyForward, ForwardReflexive DEF Merge, MergeAccepts

(* An update that was sound for a board is sound for a later one.          *)
LEMMA SoundDeltaLater ==
    ASSUME NEW s, NEW t, NEW d, Sound(s), Sound(t), Forward(s, t), SoundDelta(s, d)
    PROVE  SoundDelta(t, d)
  <1>1. s.secrets.current_version \in Nat /\ t.secrets.current_version \in Nat
    BY DEF Sound, ChatBoardState, Secrets
  <1>2. t.secrets.current_version >= s.secrets.current_version
    BY DEF Forward
  <1>3. ASSUME d.secrets # None, NEW v \in d.secrets.versions
        PROVE  v \in Nat
    BY <1>3 DEF SoundDelta, ChatBoardStateDelta, SecretsDelta
  <1>. QED
    BY <1>1, <1>2, <1>3 DEF SoundDelta, OrderedSecrets

(* A delta with no field set is sound, and stays so with a field of a kind *)
(* users write.                                                            *)
LEMMA EmptyDeltaType == EmptyDelta \in ChatBoardStateDelta
  BY DEF EmptyDelta, ChatBoardStateDelta

LEMMA EmptySecretsSound ==
    ASSUME NEW s, NEW d \in ChatBoardStateDelta, d.secrets = None,
           IsFiniteSet(d.bans), OneInfoEach(d.member_info)
    PROVE  SoundDelta(s, d)
  BY DEF SoundDelta, OrderedSecrets

LEMMA OneInfo == OneInfoEach({}) /\ \A i : OneInfoEach({i})
  BY DEF OneInfoEach

(* rotate_secret.                                                          *)
LEMMA RotationSound ==
    ASSUME NEW s, Sound(s)
    PROVE  SoundDelta(s, Rotation(s))
  <1>. DEFINE v == s.secrets.current_version + 1
              d == Rotation(s)
  <1>1. s \in ChatBoardState /\ v \in Nat
    BY DEF Sound, ChatBoardState, Secrets
  <1>2. d.secrets \in SecretsDelta
    BY <1>1 DEF Rotation, EmptyDelta, SecretsDelta, Blob, ChatBoardState, Principals
  <1>3. d \in ChatBoardStateDelta
    BY <1>2, EmptyDeltaType DEF Rotation, EmptyDelta, ChatBoardStateDelta
  <1>4. OrderedSecrets(s, d)
    BY <1>1, NoneAssumption DEF Rotation, EmptyDelta, OrderedSecrets
  <1>5. IsFiniteSet(d.bans) /\ OneInfoEach(d.member_info)
    BY FS_EmptySet DEF Rotation, EmptyDelta, OneInfoEach
  <1>. QED
    BY <1>3, <1>4, <1>5 DEF SoundDelta

LEMMA RotatedSteps ==
    ASSUME NEW s, Sound(s)
    PROVE  /\ Sound(Rotated(s)) /\ Forward(s, Rotated(s))
           /\ Rotated(s).member_info \subseteq s.member_info
  <1>1. Sound(Rotated(s)) /\ Forward(s, Rotated(s))
    BY RotationSound, UpdateSteps, ForwardReflexive DEF Rotated
  <1>2. ASSUME Accepts(s, Rotation(s))
        PROVE  Apply(s, Rotation(s)).member_info \subseteq s.member_info
    <2>. DEFINE t == Applied(s, Rotation(s))
    <2>1. t \in ChatBoardState
      BY <1>2, RotationSound, AppliedSound DEF Sound
    <2>2. Rotation(s).member_info = {}
      BY DEF Rotation, EmptyDelta
    <2>3. t.member_info \subseteq s.member_info
      BY <2>2 DEF Applied, MemberInfoAfter
    <2>. QED
      BY <2>1, <2>3, CleanupFacts DEF Apply
  <1>. QED
    BY <1>1, <1>2 DEF Rotated, Update

(* A ban and the rotation after it are one step forward.                   *)
LEMMA ForwardTwice ==
    ASSUME NEW s, NEW t, NEW r, Sound(s), Sound(t), Sound(r),
           Forward(s, t), Forward(t, r), r.member_info \subseteq t.member_info
    PROVE  Forward(s, r)
  <1>1. /\ s.configuration.configuration_version \in Nat
        /\ t.configuration.configuration_version \in Nat
        /\ r.configuration.configuration_version \in Nat
        /\ s.secrets.current_version \in Nat /\ t.secrets.current_version \in Nat
        /\ r.secrets.current_version \in Nat
    BY DEF Sound, ChatBoardState, Secrets, Configuration
  <1>. QED
    BY <1>1 DEF Forward

---------------------------------------------------------------------------
(* The invariant.                                                          *)

(* What is under way is sound for the board it is meant for.               *)
UnderwaySound ==
    \A u \in inflight :
        IF "state" \in DOMAIN u THEN Sound(u.state)
        ELSE SoundDelta(board[u.to], u.delta)

IInv ==
    /\ TypeOK
    /\ \A n \in Nodes : Sound(board[n])
    /\ UnderwaySound

LEMMA UpdateTypes ==
    ASSUME NEW u \in DeltaUpdate \cup StateUpdate
    PROVE  /\ u.to \in Nodes
           /\ "state" \in DOMAIN u => u \in StateUpdate
           /\ "state" \notin DOMAIN u => u \in DeltaUpdate
  BY DEF DeltaUpdate, StateUpdate

(* What the author's invitations add to a message is sound.                *)
LEMMA RejoinedSound ==
    ASSUME IInv, NEW s, NEW d, SoundDelta(s, d), s \in ChatBoardState,
           NEW p \in Principals, NEW e \in Rejoined(d, p, s)
    PROVE  SoundDelta(s, e)
  <1>1. CASE p \in Participants(s.members) \/ stored[p] = {}
    BY <1>1 DEF Rejoined
  <1>2. CASE p \notin Participants(s.members) /\ stored[p] # {}
    <2>1. p \in Members
      BY <1>2 DEF Principals, Participants
    <2>2. PICK i \in infosSigned :
            e = [d EXCEPT !.members = stored[p] \ s.members, !.member_info = {i}]
      BY <1>2 DEF Rejoined
    <2>3. stored[p] \ s.members \in SUBSET Members /\ {i} \in SUBSET MemberInfo
      BY <2>1 DEF IInv, TypeOK
    <2>4. e \in ChatBoardStateDelta
      BY <2>2, <2>3 DEF SoundDelta, ChatBoardStateDelta
    <2>5. /\ e.secrets = d.secrets /\ e.bans = d.bans /\ e.member_info = {i}
      BY <2>2 DEF SoundDelta, ChatBoardStateDelta
    <2>. QED
      BY <2>4, <2>5 DEF SoundDelta, OrderedSecrets, OneInfoEach
  <1>. QED
    BY <1>1, <1>2

(* Whatever is delivered takes the board it is meant for forward.          *)
LEMMA OutcomeSteps ==
    ASSUME IInv, NEW u \in inflight, NEW t \in Outcomes(board[u.to], u)
    PROVE  Sound(t) /\ Forward(board[u.to], t)
  <1>. DEFINE s == board[u.to]
  <1>1. /\ u.to \in Nodes
        /\ "state" \notin DOMAIN u => u \in DeltaUpdate
    BY UpdateTypes DEF IInv, TypeOK
  <1>2. Sound(s)
    BY <1>1 DEF IInv
  <1>3. CASE "state" \in DOMAIN u
    BY <1>2, <1>3, MergeSteps, ForwardReflexive DEF Outcomes, IInv, UnderwaySound
  <1>4. CASE "state" \notin DOMAIN u
    <2>1. SoundDelta(s, u.delta)
      BY <1>4 DEF IInv, UnderwaySound
    <2>2. u.handler \in Handlers
      BY <1>1, <1>4 DEF DeltaUpdate
    <2>3. CASE u.handler = "apply"
      BY <1>2, <1>4, <2>1, <2>3, UpdateSteps DEF Outcomes
    <2>4. CASE u.handler = "rotate"
      <3>1. CASE Accepts(s, u.delta)
        <4>. DEFINE r == Apply(s, u.delta)
        <4>1. Sound(r) /\ Forward(s, r)
          BY <1>2, <2>1, <3>1, ApplySound, ApplyForward
        <4>2. t = Rotated(r)
          BY <1>4, <2>4, <3>1 DEF Outcomes
        <4>. QED
          BY <1>2, <4>1, <4>2, RotatedSteps, ForwardTwice
      <3>2. CASE ~Accepts(s, u.delta)
        BY <1>2, <1>4, <2>4, <3>2, ForwardReflexive DEF Outcomes
      <3>. QED
        BY <3>1, <3>2
    <2>5. CASE u.handler = "rejoin"
      <3>1. PICK m \in u.delta.recent_messages :
                \E d \in Rejoined(u.delta, m.author, s) : t = Update(s, d)
        BY <1>4, <2>5 DEF Outcomes
      <3>2. m.author \in Principals
        BY <1>1, <1>4 DEF DeltaUpdate, ChatBoardStateDelta, Message
      <3>3. PICK d \in Rejoined(u.delta, m.author, s) : t = Update(s, d)
        BY <3>1
      <3>4. SoundDelta(s, d)
        BY <1>2, <2>1, <3>2, RejoinedSound DEF Sound
      <3>. QED
        BY <1>2, <3>3, <3>4, UpdateSteps
    <2>. QED
      BY <2>2, <2>3, <2>4, <2>5 DEF Handlers
  <1>. QED
    BY <1>3, <1>4

---------------------------------------------------------------------------
(* The steps.                                                              *)

LEMMA InitialBoardSound ==
    ASSUME NEW private \in BOOLEAN
    PROVE  /\ InitialBoard(private) \in ChatBoardState /\ Sound(InitialBoard(private))
           /\ \A p \in Principals : FirstInfo(p) \in MemberInfo
  <1>. DEFINE b == InitialBoard(private)
  <1>1. \A p \in Principals : FirstInfo(p) \in MemberInfo
    BY LengthsAssumption DEF FirstInfo, MemberInfo
  <1>2. InitialSecrets(private) \in Secrets
    BY DEF InitialSecrets, Secrets, Blob, Principals
  <1>3. b \in ChatBoardState
    <2>1. [InitialConfiguration EXCEPT !.private = private] \in Configuration
      BY ConfigurationAssumption DEF Configuration
    <2>. QED
      BY <1>1, <1>2, <2>1 DEF InitialBoard, ChatBoardState, Principals
  <1>4. ChainsValid({})
    BY DEF ChainsValid, Rooted, Reached
  <1>5. VerifySecrets(b)
    BY ConfigurationAssumption DEF InitialBoard, InitialSecrets, VerifySecrets, Configuration
  <1>6. /\ b.members = {} /\ b.bans = {} /\ b.recent_messages = {}
        /\ b.member_info = {FirstInfo(Owner)}
    BY DEF InitialBoard
  <1>7. FirstInfo(Owner).member_id = Owner
    BY DEF FirstInfo
  <1>8. /\ VerifyMemberInfo(b) /\ VerifyMessages(b) /\ OneInfoEach(b.member_info)
    BY <1>6, <1>7 DEF VerifyMemberInfo, VerifyMessages, OneInfoEach, Participants
  <1>. QED
    BY <1>1, <1>3, <1>4, <1>5, <1>6, <1>8, FS_EmptySet DEF Sound

LEMMA InitIInv == Init => IInv
  <1>. SUFFICES ASSUME Init
                PROVE  IInv
    OBVIOUS
  <1>1. PICK private \in Privacies : board = [n \in Nodes |-> InitialBoard(private)]
    BY DEF Init
  <1>. QED
    BY <1>1, PrivacyAssumption, InitialBoardSound DEF Init, IInv, TypeOK, UnderwaySound

(* What every step shows: the invariant again, and every board forward.    *)
BoardsForward == \A n \in Nodes : Forward(board[n], board'[n])

(* A step that changes one board, and adds nothing to what is under way.   *)
LEMMA BoardStep ==
    ASSUME IInv, NEW n \in Nodes, NEW t, Sound(t), Forward(board[n], t),
           board' = [board EXCEPT ![n] = t], inflight' \subseteq inflight,
           infosSigned' \subseteq MemberInfo,
           UNCHANGED <<bansSigned, messagesSigned, stored>>
    PROVE  IInv' /\ BoardsForward
  <1>1. t \in ChatBoardState
    BY DEF Sound
  <1>2. TypeOK'
    BY <1>1 DEF IInv, TypeOK
  <1>3. \A k \in Nodes : board'[k] = IF k = n THEN t ELSE board[k]
    BY DEF IInv, TypeOK
  <1>4. \A k \in Nodes : Sound(board'[k]) /\ Forward(board[k], board'[k])
    BY <1>3, ForwardReflexive DEF IInv
  <1>5. UnderwaySound'
    <2>. SUFFICES ASSUME NEW u \in inflight'
                  PROVE  IF "state" \in DOMAIN u THEN Sound(u.state)
                         ELSE SoundDelta(board'[u.to], u.delta)
      BY DEF UnderwaySound
    <2>1. u \in inflight /\ u.to \in Nodes
      BY UpdateTypes DEF IInv, TypeOK
    <2>2. CASE "state" \in DOMAIN u
      BY <2>1, <2>2 DEF IInv, UnderwaySound
    <2>3. CASE "state" \notin DOMAIN u
      <3>1. SoundDelta(board[u.to], u.delta)
        BY <2>1, <2>3 DEF IInv, UnderwaySound
      <3>2. Sound(board[u.to])
        BY <2>1 DEF IInv
      <3>. QED
        BY <1>4, <2>1, <2>3, <3>1, <3>2, SoundDeltaLater
    <2>. QED
      BY <2>2, <2>3
  <1>. QED
    BY <1>2, <1>4, <1>5 DEF IInv, BoardsForward

(* A step that changes no board, and may put one sound update under way.   *)
LEMMA SendStep ==
    ASSUME IInv, board' = board,
           \A u \in inflight' \ inflight :
                /\ u \in DeltaUpdate \cup StateUpdate
                /\ IF "state" \in DOMAIN u THEN Sound(u.state)
                   ELSE SoundDelta(board[u.to], u.delta),
           bansSigned' \subseteq BanIds, messagesSigned' \subseteq MessageIds,
           infosSigned' = infosSigned, stored' \in [Members -> SUBSET Members]
    PROVE  IInv' /\ BoardsForward
  <1>1. TypeOK'
    BY DEF IInv, TypeOK
  <1>2. UnderwaySound'
    BY DEF IInv, UnderwaySound
  <1>3. BoardsForward
    BY ForwardReflexive DEF IInv, BoardsForward
  <1>. QED
    BY <1>1, <1>2, <1>3 DEF IInv

LEMMA DeltaUpdateFacts ==
    ASSUME NEW n \in Nodes, NEW d \in ChatBoardStateDelta, NEW h \in Handlers
    PROVE  LET u == [to |-> n, delta |-> d, handler |-> h]
           IN  u \in DeltaUpdate /\ "state" \notin DOMAIN u
  BY DEF DeltaUpdate

LEMMA StateUpdateFacts ==
    ASSUME NEW n \in Nodes, NEW s \in ChatBoardState
    PROVE  LET u == [to |-> n, state |-> s]
           IN  u \in StateUpdate /\ "state" \in DOMAIN u
  BY DEF StateUpdate

(* A delta composed by a handler.                                          *)
LEMMA ComposeStep ==
    ASSUME IInv, NEW n \in Nodes, NEW d, NEW h \in Handlers, Compose(n, d, h),
           SoundDelta(board[n], d),
           bansSigned' \subseteq BanIds, messagesSigned' \subseteq MessageIds,
           infosSigned' = infosSigned, stored' = stored
    PROVE  IInv' /\ BoardsForward
  <1>. DEFINE u == [to |-> n, delta |-> d, handler |-> h]
  <1>1. d \in ChatBoardStateDelta
    BY DEF SoundDelta
  <1>2. inflight' = inflight \cup {u} /\ board' = board
    BY DEF Compose, Post
  <1>3. u \in DeltaUpdate /\ "state" \notin DOMAIN u
    BY <1>1, DeltaUpdateFacts
  <1>4. stored' \in [Members -> SUBSET Members]
    BY DEF IInv, TypeOK
  <1>. QED
    BY <1>2, <1>3, <1>4, SendStep

LEMMA PostStep ==
    ASSUME IInv, NEW n \in Nodes, NEW s, Post([to |-> n, state |-> s]), Sound(s),
           UNCHANGED <<bansSigned, messagesSigned, infosSigned, stored>>
    PROVE  IInv' /\ BoardsForward
  <1>. DEFINE u == [to |-> n, state |-> s]
  <1>1. s \in ChatBoardState
    BY DEF Sound
  <1>2. inflight' = inflight \cup {u} /\ board' = board
    BY DEF Post
  <1>3. u \in StateUpdate /\ "state" \in DOMAIN u
    BY <1>1, StateUpdateFacts
  <1>4. /\ bansSigned' \subseteq BanIds /\ messagesSigned' \subseteq MessageIds
        /\ stored' \in [Members -> SUBSET Members] /\ infosSigned' = infosSigned
    BY DEF IInv, TypeOK
  <1>. QED
    BY <1>2, <1>3, <1>4, SendStep

---------------------------------------------------------------------------
(* The actions of the users.                                               *)

LEMMA AcceptInvitationStep ==
    ASSUME IInv, NEW n \in Nodes, NEW p \in Members, AcceptInvitation(n, p)
    PROVE  IInv' /\ BoardsForward
  <1>1. Required({p}, Members) \subseteq Members
    BY RequiredFacts
  <1>2. stored' \in [Members -> SUBSET Members]
    BY <1>1 DEF AcceptInvitation, IInv, TypeOK
  <1>. QED
    BY <1>2, SendStep DEF AcceptInvitation, signed, IInv, TypeOK

LEMMA ComposedMessageType ==
    ASSUME NEW s \in ChatBoardState, NEW id \in Nat, NEW p \in Principals,
           NEW size \in Nat, NEW title \in Nat
    PROVE  ComposedMessage(id, p, s, size, title) \in Message
  <1>1. SealedWith(p, s) \in Nat \cup {None}
    BY DEF SealedWith, ChatBoardState, Secrets
  <1>. QED
    BY <1>1 DEF ComposedMessage, Message

LEMMA SendMessageStep ==
    ASSUME IInv, NEW n \in Nodes, NEW p \in Principals, SendMessage(n, p)
    PROVE  IInv' /\ BoardsForward
  <1>. DEFINE s == board[n]
  <1>1. PICK id \in MessageIds \ messagesSigned, size \in Sizes, title \in Titles :
            /\ messagesSigned' = messagesSigned \cup {id}
            /\ Compose(n, [EmptyDelta EXCEPT !.recent_messages =
                               {ComposedMessage(id, p, s, size, title)}], "rejoin")
    BY DEF SendMessage
  <1>. DEFINE d == [EmptyDelta EXCEPT !.recent_messages =
                        {ComposedMessage(id, p, s, size, title)}]
  <1>2. id \in Nat /\ size \in Nat /\ title \in Nat /\ s \in ChatBoardState
    BY IdsAssumption, LengthsAssumption DEF IInv, Sound
  <1>3. {ComposedMessage(id, p, s, size, title)} \in SUBSET Message
    BY <1>2, ComposedMessageType
  <1>4. d \in ChatBoardStateDelta
    BY <1>3, EmptyDeltaType DEF ChatBoardStateDelta
  <1>5. d.secrets = None /\ d.bans = {} /\ d.member_info = {}
    BY DEF EmptyDelta
  <1>6. SoundDelta(s, d)
    BY <1>4, <1>5, FS_EmptySet, OneInfo, EmptySecretsSound
  <1>7. /\ bansSigned' \subseteq BanIds /\ messagesSigned' \subseteq MessageIds
        /\ infosSigned' = infosSigned /\ stored' = stored
    BY <1>1 DEF SendMessage, IInv, TypeOK
  <1>. QED
    BY <1>1, <1>6, <1>7, ComposeStep DEF Handlers

LEMMA BanMemberStep ==
    ASSUME IInv, NEW n \in Nodes, NEW p \in Principals, NEW x \in Members,
           BanMember(n, p, x)
    PROVE  IInv' /\ BoardsForward
  <1>. DEFINE ban(id) == [id |-> id, banned_by |-> p, banned_user |-> x]
              d(id) == [EmptyDelta EXCEPT !.bans = {ban(id)}]
  <1>1. PICK id \in BanIds \ bansSigned, h \in Handlers :
            bansSigned' = bansSigned \cup {id} /\ Compose(n, d(id), h)
    BY DEF BanMember, Handlers
  <1>2. {ban(id)} \in SUBSET Ban
    BY IdsAssumption DEF Ban, Principals
  <1>3. d(id) \in ChatBoardStateDelta
    BY <1>2, EmptyDeltaType DEF ChatBoardStateDelta
  <1>4. d(id).secrets = None /\ d(id).bans = {ban(id)} /\ d(id).member_info = {}
    BY DEF EmptyDelta
  <1>5. IsFiniteSet({ban(id)})
    BY FS_Singleton
  <1>6. SoundDelta(board[n], d(id))
    BY <1>3, <1>4, <1>5, OneInfo, EmptySecretsSound
  <1>7. /\ bansSigned' \subseteq BanIds /\ messagesSigned' \subseteq MessageIds
        /\ infosSigned' = infosSigned /\ stored' = stored
    BY <1>1 DEF BanMember, IInv, TypeOK
  <1>. QED
    BY <1>1, <1>6, <1>7, ComposeStep

LEMMA AddAdminStep ==
    ASSUME IInv, NEW n \in Nodes, NEW x \in Members, AddAdmin(n, x)
    PROVE  IInv' /\ BoardsForward
  <1>. DEFINE d == [EmptyDelta EXCEPT !.admin = {x}]
  <1>1. d \in ChatBoardStateDelta
    BY EmptyDeltaType DEF ChatBoardStateDelta, Principals
  <1>2. d.secrets = None /\ d.bans = {} /\ d.member_info = {}
    BY DEF EmptyDelta
  <1>3. SoundDelta(board[n], d)
    BY <1>1, <1>2, FS_EmptySet, OneInfo, EmptySecretsSound
  <1>. QED
    BY <1>3, ComposeStep DEF AddAdmin, Handlers, signed, IInv, TypeOK

LEMMA UpdateConfigurationStep ==
    ASSUME IInv, NEW n \in Nodes, NEW limit \in BanLimits,
           UpdateConfiguration(n, limit)
    PROVE  IInv' /\ BoardsForward
  <1>. DEFINE c == board[n].configuration
              new == [c EXCEPT !.configuration_version = @ + 1,
                               !.max_user_bans = limit]
              d == [EmptyDelta EXCEPT !.configuration = new]
  <1>0. c \in Configuration /\ limit \in Nat
    BY IdsAssumption DEF IInv, Sound, ChatBoardState
  <1>1. new \in Configuration
    <2>. DEFINE next == [c EXCEPT !.configuration_version = @ + 1]
    <2>1. next \in Configuration
      BY <1>0 DEF Configuration
    <2>2. [next EXCEPT !.max_user_bans = limit] \in Configuration
      BY <1>0, <2>1 DEF Configuration
    <2>. QED
      BY <2>2
  <1>2. d \in ChatBoardStateDelta
    BY <1>1, EmptyDeltaType DEF ChatBoardStateDelta
  <1>3. d.secrets = None /\ d.bans = {} /\ d.member_info = {}
    BY DEF EmptyDelta
  <1>4. SoundDelta(board[n], d)
    BY <1>2, <1>3, FS_EmptySet, OneInfo, EmptySecretsSound
  <1>. QED
    BY <1>4, ComposeStep DEF UpdateConfiguration, Handlers, signed, IInv, TypeOK

(* The nickname's delta is sound, and the replica is updated with it.      *)
LEMMA SetNicknameDelta ==
    ASSUME IInv, NEW n \in Nodes, NEW p \in Principals, NEW nickname \in Nicknames,
           SetNickname(n, p, nickname)
    PROVE  /\ \E d : /\ SoundDelta(board[n], d) /\ d.configuration = None
                     /\ d.bans = {} /\ d.secrets = None
                     /\ d.member_info \subseteq infosSigned'
                     /\ board' = [board EXCEPT ![n] = Update(board[n], d)]
           /\ infosSigned \subseteq infosSigned' /\ infosSigned' \subseteq MemberInfo
  <1>. DEFINE next(i) == [i EXCEPT !.version = @ + 1, !.nickname = nickname]
              d(i) == [EmptyDelta EXCEPT !.member_info = {next(i)}]
  <1>1. PICK i \in board[n].member_info :
            /\ infosSigned' = infosSigned \cup {next(i)}
            /\ board' = [board EXCEPT ![n] = Update(@, d(i))]
    BY DEF SetNickname
  <1>2. Sound(board[n])
    BY DEF IInv
  <1>3. next(i) \in MemberInfo
    <2>. DEFINE newer == [i EXCEPT !.version = @ + 1]
    <2>1. i \in MemberInfo /\ nickname \in Nat
      BY <1>2, LengthsAssumption DEF Sound, ChatBoardState
    <2>2. newer \in MemberInfo
      BY <2>1 DEF MemberInfo
    <2>3. [newer EXCEPT !.nickname = nickname] \in MemberInfo
      BY <2>1, <2>2 DEF MemberInfo
    <2>. QED
      BY <2>3
  <1>4. d(i) \in ChatBoardStateDelta
    BY <1>3, EmptyDeltaType DEF ChatBoardStateDelta
  <1>5. d(i).secrets = None /\ d(i).bans = {} /\ d(i).member_info = {next(i)}
    BY DEF EmptyDelta
  <1>6. SoundDelta(board[n], d(i))
    <2>1. IsFiniteSet(d(i).bans) /\ OneInfoEach(d(i).member_info)
      BY <1>5, FS_EmptySet, OneInfo
    <2>. QED
      BY <1>4, <1>5, <2>1, EmptySecretsSound
  <1>7. d(i).configuration = None
    BY DEF EmptyDelta
  <1>8. infosSigned' \subseteq MemberInfo
    BY <1>1, <1>3 DEF IInv, TypeOK
  <1>9. board' = [board EXCEPT ![n] = Update(board[n], d(i))]
    BY <1>1
  <1>10. d(i).member_info \subseteq infosSigned' /\ infosSigned \subseteq infosSigned'
    BY <1>1, <1>5
  <1>. QED
    BY <1>5, <1>6, <1>7, <1>8, <1>9, <1>10

LEMMA SetNicknameStep ==
    ASSUME IInv, NEW n \in Nodes, NEW p \in Principals, NEW nickname \in Nicknames,
           SetNickname(n, p, nickname)
    PROVE  IInv' /\ BoardsForward
  <1>1. PICK d : /\ SoundDelta(board[n], d)
                 /\ board' = [board EXCEPT ![n] = Update(board[n], d)]
    BY SetNicknameDelta
  <1>2. /\ Sound(Update(board[n], d)) /\ Forward(board[n], Update(board[n], d))
    BY <1>1, UpdateSteps DEF IInv
  <1>. QED
    BY <1>1, <1>2, SetNicknameDelta, BoardStep DEF SetNickname

LEMMA RotateSecretStep ==
    ASSUME IInv, NEW n \in Nodes, RotateSecret(n)
    PROVE  IInv' /\ BoardsForward
  <1>1. /\ Sound(Rotated(board[n])) /\ Forward(board[n], Rotated(board[n]))
    BY RotatedSteps DEF IInv
  <1>2. board' = [board EXCEPT ![n] = Rotated(board[n])]
    BY DEF RotateSecret
  <1>. QED
    BY <1>1, <1>2, BoardStep DEF RotateSecret, signed, IInv, TypeOK

LEMMA PublishUpgradeStep ==
    ASSUME IInv, NEW n \in Nodes, NEW v \in Upgrades, PublishUpgrade(n, v)
    PROVE  IInv' /\ BoardsForward
  <1>. DEFINE none == [current_version |-> 0, versions |-> {}, blobs |-> {}]
              s == [InitialBoard(FALSE) EXCEPT !.member_info = {}, !.upgrade = v]
  <1>1. InitialBoard(FALSE).secrets = none /\ none \in Secrets
    BY DEF InitialBoard, InitialSecrets, Secrets
  <1>2. s \in ChatBoardState
    BY <1>1, IdsAssumption, InitialBoardSound DEF ChatBoardState
  <1>3. /\ s.members = {} /\ s.bans = {} /\ s.recent_messages = {}
        /\ s.member_info = {} /\ s.secrets = none
    BY <1>1 DEF InitialBoard
  <1>4. ChainsValid(s.members)
    BY <1>3 DEF ChainsValid, Rooted, Reached
  <1>5. VerifyMemberInfo(s) /\ VerifyMessages(s) /\ OneInfoEach(s.member_info)
    BY <1>3 DEF VerifyMemberInfo, VerifyMessages, OneInfoEach
  <1>. HIDE DEF s
  <1>6. VerifySecrets(s)
    <2>1. s.secrets.versions = {} /\ s.secrets.current_version = 0
      BY <1>3
    <2>. QED
      BY <2>1 DEF VerifySecrets
  <1>7. Sound(s)
    BY <1>2, <1>3, <1>4, <1>5, <1>6, FS_EmptySet DEF Sound
  <1>. QED
    BY <1>7, PostStep DEF PublishUpgrade, signed, s

---------------------------------------------------------------------------
(* The actions of the network.                                             *)

LEMMA SendDeltaStep ==
    ASSUME IInv, NEW n \in Nodes, NEW k \in Nodes, SendDelta(n, k)
    PROVE  IInv' /\ BoardsForward
  <1>1. SoundDelta(board[k], Delta(board[n], board[k]))
    BY DeltaSound DEF IInv
  <1>. QED
    BY <1>1, ComposeStep DEF SendDelta, Handlers, signed, IInv, TypeOK

LEMMA SendStateStep ==
    ASSUME IInv, NEW n \in Nodes, NEW k \in Nodes, SendState(n, k)
    PROVE  IInv' /\ BoardsForward
  BY PostStep DEF SendState, signed, IInv

LEMMA ReceiveStep ==
    ASSUME IInv, NEW u \in inflight, Receive(u), inflight' \subseteq inflight
    PROVE  IInv' /\ BoardsForward
  <1>1. PICK t \in Outcomes(board[u.to], u) : board' = [board EXCEPT ![u.to] = t]
    BY DEF Receive
  <1>2. Sound(t) /\ Forward(board[u.to], t)
    BY OutcomeSteps
  <1>3. u.to \in Nodes
    BY UpdateTypes DEF IInv, TypeOK
  <1>4. /\ infosSigned' \subseteq MemberInfo
        /\ UNCHANGED <<bansSigned, messagesSigned, stored>>
    BY DEF Receive, signed, IInv, TypeOK
  <1>. QED
    BY <1>1, <1>2, <1>3, <1>4, BoardStep

LEMMA LoseStep ==
    ASSUME IInv, NEW u \in inflight, Lose(u)
    PROVE  IInv' /\ BoardsForward
  BY SendStep DEF Lose, signed, IInv, TypeOK

LEMMA SyncStep ==
    ASSUME IInv, NEW n \in Nodes, NEW k \in Nodes, Sync(n, k)
    PROVE  IInv' /\ BoardsForward
  <1>. DEFINE t == Merge(board[n], board[k])
  <1>1. Sound(t) /\ Forward(board[n], t)
    BY MergeSteps DEF Sync, IInv
  <1>2. board' = [board EXCEPT ![n] = t] /\ inflight' = inflight
    BY DEF Sync
  <1>3. /\ infosSigned' \subseteq MemberInfo
        /\ UNCHANGED <<bansSigned, messagesSigned, stored>>
    BY DEF Sync, signed, IInv, TypeOK
  <1>. QED
    BY <1>1, <1>2, <1>3, BoardStep

---------------------------------------------------------------------------
(* The theorems.                                                           *)

LEMMA NextIInv ==
    ASSUME IInv, [Next]_vars
    PROVE  IInv' /\ BoardsForward
  <1>1. ASSUME NEW n \in Nodes, Write(n)
        PROVE  IInv' /\ BoardsForward
    BY <1>1, SendMessageStep, BanMemberStep, SetNicknameStep, AcceptInvitationStep,
       AddAdminStep, UpdateConfigurationStep, RotateSecretStep, PublishUpgradeStep
    DEF Write
  <1>2. ASSUME NEW n \in Nodes, NEW k \in Nodes, Exchange(n, k)
        PROVE  IInv' /\ BoardsForward
    BY <1>2, SendDeltaStep, SendStateStep, SyncStep DEF Exchange
  <1>3. ASSUME NEW u \in inflight, Deliver(u) \/ DeliverCopy(u) \/ Lose(u)
        PROVE  IInv' /\ BoardsForward
    BY <1>3, ReceiveStep, LoseStep DEF Deliver, DeliverCopy
  <1>4. CASE UNCHANGED vars
    BY <1>4, SendStep DEF vars, IInv, TypeOK
  <1>. QED
    BY <1>1, <1>2, <1>3, <1>4 DEF Next

(* Every board is sound at all times: its members' invitations lead to the *)
(* owner, everything it holds is by a participant, the banned are gone.    *)
THEOREM BoardsSound == Spec => []IInv
  BY InitIInv, NextIInv, PTL DEF Spec

(* The variables have their types.                                         *)
THEOREM TypeCorrect == Spec => []TypeOK
  <1>1. IInv => TypeOK
    BY DEF IInv
  <1>. QED
    BY <1>1, BoardsSound, PTL

(* No order of updates takes a replica back (apply_delta of the versioned  *)
(* fields).                                                                *)
THEOREM NoRollback == Spec => NothingRollsBack
  <1>1. IInv /\ [Next]_vars => [\A n \in Nodes : Forward(board[n], board'[n])]_board
    BY NextIInv DEF BoardsForward
  <1>. QED
    BY <1>1, BoardsSound, PTL DEF Spec, NothingRollsBack

---------------------------------------------------------------------------
(* verify, while the owner does not change max_user_bans.                  *)

SameLimits(config) ==
    /\ config.max_admins = InitialConfiguration.max_admins
    /\ config.max_user_bans = InitialConfiguration.max_user_bans

Limited(s) == SameLimits(s.configuration) /\ WithinLimits(s)

LimitedDelta(d) == d.configuration # None => SameLimits(d.configuration)

UnderwayLimited ==
    \A u \in inflight :
        IF "state" \in DOMAIN u THEN SameLimits(u.state.configuration)
        ELSE LimitedDelta(u.delta)

LInv == (\A n \in Nodes : Limited(board[n])) /\ UnderwayLimited

LEMMA ApplyLimited ==
    ASSUME NEW s, NEW d, Sound(s), SoundDelta(s, d), Accepts(s, d),
           Limited(s), LimitedDelta(d)
    PROVE  Limited(Apply(s, d))
  <1>1. InitialConfiguration.max_admins \in Nat /\ InitialConfiguration.max_user_bans \in Nat
    BY ConfigurationAssumption DEF Configuration
  <1>2. KeepsLimits(s, d)
    BY <1>1 DEF KeepsLimits, Limited, LimitedDelta, SameLimits
  <1>3. Apply(s, d).configuration = ConfigurationAfter(s.configuration, d.configuration)
    <2>1. Applied(s, d) \in ChatBoardState
      BY AppliedSound DEF Sound
    <2>. QED
      BY <2>1, CleanupFacts DEF Apply, Applied
  <1>. QED
    BY <1>2, <1>3, ApplyWithinLimits DEF Limited, LimitedDelta, ConfigurationAfter

LEMMA UpdateLimited ==
    ASSUME NEW s, NEW d, Sound(s), SoundDelta(s, d), Limited(s), LimitedDelta(d)
    PROVE  Limited(Update(s, d))
  BY ApplyLimited DEF Update

LEMMA MergeLimited ==
    ASSUME NEW s, NEW other, Sound(s), Sound(other), MergeAccepts(s, other),
           Limited(s), SameLimits(other.configuration)
    PROVE  Limited(Merge(s, other))
  <1>1. LimitedDelta(Delta(other, s))
    BY DEF LimitedDelta, Delta, DeltaConfiguration
  <1>. QED
    BY <1>1, DeltaSound, ApplyLimited DEF Merge, MergeAccepts

LEMMA RotatedLimited ==
    ASSUME NEW s, Sound(s), Limited(s)
    PROVE  Limited(Rotated(s))
  <1>1. LimitedDelta(Rotation(s))
    BY DEF LimitedDelta, Rotation, EmptyDelta
  <1>. QED
    BY <1>1, RotationSound, UpdateLimited DEF Rotated

LEMMA RejoinedLimited ==
    ASSUME NEW d \in ChatBoardStateDelta, LimitedDelta(d), NEW p, NEW s,
           NEW e \in Rejoined(d, p, s)
    PROVE  LimitedDelta(e)
  <1>1. e.configuration = d.configuration
    BY DEF Rejoined, ChatBoardStateDelta
  <1>. QED
    BY <1>1 DEF LimitedDelta

LEMMA OutcomeLimited ==
    ASSUME IInv, LInv, NEW u \in inflight, NEW t \in Outcomes(board[u.to], u)
    PROVE  Limited(t)
  <1>. DEFINE s == board[u.to]
  <1>1. /\ u.to \in Nodes
        /\ "state" \notin DOMAIN u => u \in DeltaUpdate
    BY UpdateTypes DEF IInv, TypeOK
  <1>2. Sound(s) /\ Limited(s)
    BY <1>1 DEF IInv, LInv
  <1>3. CASE "state" \in DOMAIN u
    BY <1>2, <1>3, MergeLimited DEF Outcomes, IInv, LInv, UnderwaySound, UnderwayLimited
  <1>4. CASE "state" \notin DOMAIN u
    <2>1. SoundDelta(s, u.delta) /\ LimitedDelta(u.delta)
      BY <1>4 DEF IInv, LInv, UnderwaySound, UnderwayLimited
    <2>2. u.handler \in Handlers
      BY <1>1, <1>4 DEF DeltaUpdate
    <2>3. CASE u.handler = "apply"
      BY <1>2, <1>4, <2>1, <2>3, UpdateLimited DEF Outcomes
    <2>4. CASE u.handler = "rotate"
      <3>1. CASE Accepts(s, u.delta)
        <4>1. Sound(Apply(s, u.delta)) /\ Limited(Apply(s, u.delta))
          BY <1>2, <2>1, <3>1, ApplySound, ApplyLimited
        <4>2. t = Rotated(Apply(s, u.delta))
          BY <1>4, <2>4, <3>1 DEF Outcomes
        <4>. QED
          BY <4>1, <4>2, RotatedLimited
      <3>2. CASE ~Accepts(s, u.delta)
        BY <1>2, <1>4, <2>4, <3>2 DEF Outcomes
      <3>. QED
        BY <3>1, <3>2
    <2>5. CASE u.handler = "rejoin"
      <3>1. PICK m \in u.delta.recent_messages :
                \E d \in Rejoined(u.delta, m.author, s) : t = Update(s, d)
        BY <1>4, <2>5 DEF Outcomes
      <3>2. u.delta \in ChatBoardStateDelta /\ m.author \in Principals
        BY <1>1, <1>4 DEF DeltaUpdate, ChatBoardStateDelta, Message
      <3>3. PICK d \in Rejoined(u.delta, m.author, s) : t = Update(s, d)
        BY <3>1
      <3>4. SoundDelta(s, d) /\ LimitedDelta(d)
        BY <1>2, <2>1, <3>2, RejoinedSound, RejoinedLimited DEF Sound
      <3>. QED
        BY <1>2, <3>3, <3>4, UpdateLimited
    <2>. QED
      BY <2>2, <2>3, <2>4, <2>5 DEF Handlers
  <1>. QED
    BY <1>3, <1>4

(* A step that changes one board, or puts one update under way.            *)
LEMMA LimitedBoardStep ==
    ASSUME TypeOK, LInv, NEW n \in Nodes, NEW t, Limited(t),
           board' = [board EXCEPT ![n] = t], inflight' \subseteq inflight
    PROVE  LInv'
  BY DEF LInv, UnderwayLimited, TypeOK

LEMMA LimitedSendStep ==
    ASSUME LInv, board' = board,
           \A u \in inflight' \ inflight :
                IF "state" \in DOMAIN u THEN SameLimits(u.state.configuration)
                ELSE LimitedDelta(u.delta)
    PROVE  LInv'
  BY DEF LInv, UnderwayLimited

LEMMA LimitedComposeStep ==
    ASSUME LInv, NEW n, NEW d, NEW h, Compose(n, d, h), LimitedDelta(d)
    PROVE  LInv'
  <1>. DEFINE u == [to |-> n, delta |-> d, handler |-> h]
  <1>1. "state" \notin DOMAIN u /\ u.delta = d
    OBVIOUS
  <1>2. inflight' = inflight \cup {u} /\ board' = board
    BY DEF Compose, Post
  <1>. QED
    BY <1>1, <1>2, LimitedSendStep

LEMMA LimitedPostStep ==
    ASSUME LInv, NEW n, NEW s, Post([to |-> n, state |-> s]),
           SameLimits(s.configuration)
    PROVE  LInv'
  <1>. DEFINE u == [to |-> n, state |-> s]
  <1>1. "state" \in DOMAIN u /\ u.state = s
    OBVIOUS
  <1>2. inflight' = inflight \cup {u} /\ board' = board
    BY DEF Post
  <1>. QED
    BY <1>1, <1>2, LimitedSendStep

LEMMA InitLInv == Init => LInv
  <1>1. InitialConfiguration.max_admins \in Nat /\ InitialConfiguration.max_user_bans \in Nat
    BY ConfigurationAssumption DEF Configuration
  <1>2. ASSUME NEW private \in BOOLEAN
        PROVE  Limited(InitialBoard(private))
    <2>1. SameLimits([InitialConfiguration EXCEPT !.private = private])
      BY ConfigurationAssumption DEF SameLimits, Configuration
    <2>. DEFINE s == InitialBoard(private)
    <2>2. /\ s.configuration = [InitialConfiguration EXCEPT !.private = private]
          /\ s.admin = {} /\ s.bans = {}
      BY DEF InitialBoard
    <2>. HIDE DEF s
    <2>3. Cardinality(s.admin) = 0 /\ Cardinality(s.bans) = 0
      BY <2>2, FS_EmptySet
    <2>4. SameLimits(s.configuration)
      BY <2>1, <2>2
    <2>. QED
      BY <1>1, <2>3, <2>4 DEF Limited, SameLimits, WithinLimits, s
  <1>. QED
    BY <1>2, PrivacyAssumption DEF Init, LInv, UnderwayLimited

LEMMA WriteLInv ==
    ASSUME BanLimits \subseteq {InitialConfiguration.max_user_bans},
           IInv, LInv, NEW n \in Nodes, Write(n)
    PROVE  LInv'
  <1>1. ASSUME NEW p \in Principals, SendMessage(n, p)
        PROVE  LInv'
    <2>1. PICK d, h : Compose(n, d, h) /\ d.configuration = None
      BY <1>1 DEF SendMessage, EmptyDelta
    <2>. QED
      BY <2>1, LimitedComposeStep DEF LimitedDelta
  <1>2. ASSUME NEW p \in Principals, NEW x \in Members, BanMember(n, p, x)
        PROVE  LInv'
    <2>1. PICK d, h : Compose(n, d, h) /\ d.configuration = None
      BY <1>2 DEF BanMember, EmptyDelta
    <2>. QED
      BY <2>1, LimitedComposeStep DEF LimitedDelta
  <1>3. ASSUME NEW p \in Principals, NEW nickname \in Nicknames,
               SetNickname(n, p, nickname)
        PROVE  LInv'
    <2>1. PICK d : /\ SoundDelta(board[n], d) /\ d.configuration = None
                   /\ board' = [board EXCEPT ![n] = Update(board[n], d)]
      BY <1>3, SetNicknameDelta
    <2>2. Limited(Update(board[n], d))
      BY <2>1, UpdateLimited DEF IInv, LInv, LimitedDelta
    <2>. QED
      BY <1>3, <2>1, <2>2, LimitedBoardStep DEF IInv, SetNickname
  <1>4. ASSUME NEW p \in Members, AcceptInvitation(n, p)
        PROVE  LInv'
    BY <1>4, LimitedSendStep DEF AcceptInvitation
  <1>5. ASSUME NEW x \in Members, AddAdmin(n, x)
        PROVE  LInv'
    <2>1. [EmptyDelta EXCEPT !.admin = {x}].configuration = None
      BY DEF EmptyDelta
    <2>2. LimitedDelta([EmptyDelta EXCEPT !.admin = {x}])
      BY <2>1 DEF LimitedDelta
    <2>. QED
      BY <1>5, <2>2, LimitedComposeStep DEF AddAdmin
  <1>6. ASSUME NEW limit \in BanLimits, UpdateConfiguration(n, limit)
        PROVE  LInv'
    <2>. DEFINE c == board[n].configuration
                next == [c EXCEPT !.configuration_version = @ + 1]
                new == [next EXCEPT !.max_user_bans = limit]
                d == [EmptyDelta EXCEPT !.configuration = new]
    <2>1. c \in Configuration /\ SameLimits(c)
      BY DEF IInv, LInv, Limited, Sound, ChatBoardState
    <2>2. next \in Configuration /\ SameLimits(next)
      BY <2>1 DEF Configuration, SameLimits
    <2>3. SameLimits(new)
      BY <2>2 DEF Configuration, SameLimits
    <2>4. d.configuration = new
      BY DEF EmptyDelta
    <2>5. LimitedDelta(d)
      BY <2>3, <2>4 DEF LimitedDelta
    <2>6. Compose(n, d, "apply")
      BY <1>6 DEF UpdateConfiguration
    <2>. QED
      BY <2>5, <2>6, LimitedComposeStep
  <1>7. CASE RotateSecret(n)
    <2>1. Limited(Rotated(board[n]))
      BY RotatedLimited DEF IInv, LInv
    <2>2. board' = [board EXCEPT ![n] = Rotated(board[n])]
      BY <1>7 DEF RotateSecret
    <2>. QED
      BY <1>7, <2>1, <2>2, LimitedBoardStep DEF RotateSecret, IInv
  <1>8. ASSUME NEW v \in Upgrades, PublishUpgrade(n, v)
        PROVE  LInv'
    <2>. DEFINE s == [InitialBoard(FALSE) EXCEPT !.member_info = {}, !.upgrade = v]
    <2>1. SameLimits(s.configuration)
      BY ConfigurationAssumption DEF InitialBoard, SameLimits, Configuration
    <2>2. Post([to |-> n, state |-> s])
      BY <1>8 DEF PublishUpgrade
    <2>. QED
      BY <2>1, <2>2, LimitedPostStep DEF SameLimits
  <1>. QED
    BY <1>1, <1>2, <1>3, <1>4, <1>5, <1>6, <1>7, <1>8 DEF Write

LEMMA NextLInv ==
    ASSUME BanLimits \subseteq {InitialConfiguration.max_user_bans},
           IInv, LInv, [Next]_vars
    PROVE  LInv'
  <1>1. ASSUME NEW n \in Nodes, NEW k \in Nodes, SendDelta(n, k)
        PROVE  LInv'
    <2>1. LimitedDelta(Delta(board[n], board[k]))
      BY DEF LInv, Limited, LimitedDelta, Delta, DeltaConfiguration
    <2>. QED
      BY <1>1, <2>1, LimitedComposeStep DEF SendDelta
  <1>2. ASSUME NEW n \in Nodes, NEW k \in Nodes, SendState(n, k)
        PROVE  LInv'
    BY <1>2, LimitedPostStep DEF SendState, LInv, Limited
  <1>3. ASSUME NEW n \in Nodes, NEW k \in Nodes, Sync(n, k)
        PROVE  LInv'
    <2>1. Limited(Merge(board[n], board[k]))
      BY <1>3, MergeLimited DEF Sync, IInv, LInv, Limited
    <2>. QED
      BY <1>3, <2>1, LimitedBoardStep DEF Sync, IInv
  <1>4. ASSUME NEW u \in inflight, Receive(u), inflight' \subseteq inflight
        PROVE  LInv'
    <2>1. PICK t \in Outcomes(board[u.to], u) : board' = [board EXCEPT ![u.to] = t]
      BY <1>4 DEF Receive
    <2>2. Limited(t) /\ u.to \in Nodes
      BY OutcomeLimited, UpdateTypes DEF IInv, TypeOK
    <2>. QED
      BY <1>4, <2>1, <2>2, LimitedBoardStep DEF IInv
  <1>5. ASSUME NEW u \in inflight, Lose(u)
        PROVE  LInv'
    BY <1>5, LimitedSendStep DEF Lose
  <1>6. CASE UNCHANGED vars
    BY <1>6, LimitedSendStep DEF vars
  <1>. QED
    BY <1>1, <1>2, <1>3, <1>4, <1>5, <1>6, WriteLInv
    DEF Next, Exchange, Deliver, DeliverCopy

(* validate_state accepts every board at all times, unless the owner gives *)
(* the board another max_user_bans.                                        *)
THEOREM BoardsStayValid ==
    ASSUME BanLimits \subseteq {InitialConfiguration.max_user_bans}
    PROVE  Spec => []BoardsVerify
  <1>1. IInv /\ LInv => BoardsVerify
    BY SoundVerifies DEF IInv, LInv, Limited, BoardsVerify
  <1>2. IInv /\ LInv /\ [Next]_vars => LInv'
    BY NextLInv
  <1>. QED
    BY <1>1, <1>2, InitLInv, BoardsSound, PTL DEF Spec

---------------------------------------------------------------------------
(* What is in a private board is sealed, and every board is settled.       *)

(* A board never changes between public and private: the owner's           *)
(* configurations copy it, and the state that carries an upgrade pointer   *)
(* is never newer than the first configuration.                            *)
Sealed(s, private) ==
    /\ s.configuration.private = private
    /\ s.configuration.configuration_version >= InitialConfiguration.configuration_version
    /\ private => /\ s.secrets.versions # {}
                  /\ \A m \in s.recent_messages : m.secret_version \in s.secrets.versions

SealedDelta(d, private) == d.configuration # None => d.configuration.private = private

SealedState(s, private) ==
    \/ s.configuration.private = private
    \/ s.configuration.configuration_version <= InitialConfiguration.configuration_version

UnderwaySealed(private) ==
    \A u \in inflight :
        IF "state" \in DOMAIN u THEN SealedState(u.state, private)
        ELSE SealedDelta(u.delta, private)

SInv(private) ==
    /\ \A n \in Nodes : Tidy(board[n]) /\ Sealed(board[n], private)
    /\ UnderwaySealed(private)

(* A new message is sealed with the version that is current afterwards,    *)
(* which is one the board has, since a private board has one.              *)
LEMMA ApplySealed ==
    ASSUME NEW private \in BOOLEAN, NEW s, NEW d, Sound(s), SoundDelta(s, d),
           Accepts(s, d), Sealed(s, private), SealedDelta(d, private)
    PROVE  Tidy(Apply(s, d)) /\ Sealed(Apply(s, d), private)
  <1>. DEFINE t == Applied(s, d)
              c == Apply(s, d)
  <1>1. /\ s \in ChatBoardState /\ d \in ChatBoardStateDelta
        /\ t \in ChatBoardState /\ Sound(t)
    BY AppliedSound DEF Sound, SoundDelta
  <1>2. /\ c.configuration = t.configuration /\ c.secrets = t.secrets
        /\ c.recent_messages = t.recent_messages
    BY <1>1, CleanupFacts DEF Apply
  <1>3. /\ t.configuration.private = private
        /\ t.configuration.configuration_version
                >= InitialConfiguration.configuration_version
    <2>1. t.configuration = ConfigurationAfter(s.configuration, d.configuration)
      BY DEF Applied
    <2>2. CASE d.configuration = None
      BY <2>1, <2>2 DEF ConfigurationAfter, Sealed
    <2>3. CASE d.configuration # None
      <3>1. /\ s.configuration.configuration_version \in Nat
            /\ d.configuration.configuration_version \in Nat
            /\ InitialConfiguration.configuration_version \in Nat
        BY <1>1, <2>3, ConfigurationAssumption
        DEF ChatBoardState, ChatBoardStateDelta, Configuration
      <3>2. d.configuration.configuration_version > s.configuration.configuration_version
        BY <2>3 DEF Accepts, ConfigurationAccepted
      <3>. QED
        BY <2>1, <2>3, <3>1, <3>2 DEF ConfigurationAfter, Sealed, SealedDelta
    <2>. QED
      BY <2>2, <2>3
  <1>4. ASSUME private
        PROVE  /\ t.secrets.versions # {}
               /\ \A m \in t.recent_messages : m.secret_version \in t.secrets.versions
    <2>1. s.secrets.versions \subseteq t.secrets.versions
      BY DEF Applied, SecretsAfter
    <2>2. t.secrets.versions # {}
      BY <1>4, <2>1 DEF Sealed
    <2>3. t.secrets.current_version \in t.secrets.versions
      BY <1>1, <2>2 DEF Sound, VerifySecrets
    <2>4. \A m \in d.recent_messages : m.secret_version = t.secrets.current_version
      BY <1>3, <1>4 DEF Accepts, MessageAccepted
    <2>5. t.recent_messages \subseteq s.recent_messages \cup d.recent_messages
      BY DEF Applied, MessagesAfter
    <2>. QED
      BY <1>4, <2>1, <2>2, <2>3, <2>4, <2>5 DEF Sealed
  <1>. QED
    BY <1>1, <1>2, <1>3, <1>4, ApplyTidy DEF Sealed

LEMMA UpdateSealed ==
    ASSUME NEW private \in BOOLEAN, NEW s, NEW d, Sound(s), SoundDelta(s, d),
           Tidy(s), Sealed(s, private), SealedDelta(d, private)
    PROVE  Tidy(Update(s, d)) /\ Sealed(Update(s, d), private)
  BY ApplySealed DEF Update

LEMMA DeltaSealed ==
    ASSUME NEW private \in BOOLEAN, NEW s, NEW other, Sound(s), Sound(other),
           Sealed(s, private), SealedState(other, private)
    PROVE  SealedDelta(Delta(other, s), private)
  <1>1. /\ s.configuration.configuration_version \in Nat
        /\ other.configuration.configuration_version \in Nat
        /\ InitialConfiguration.configuration_version \in Nat
    BY ConfigurationAssumption DEF Sound, ChatBoardState, Configuration
  <1>. QED
    BY <1>1 DEF SealedDelta, SealedState, Sealed, Delta, DeltaConfiguration

LEMMA MergeSealed ==
    ASSUME NEW private \in BOOLEAN, NEW s, NEW other, Sound(s), Sound(other),
           MergeAccepts(s, other), Tidy(s), Sealed(s, private), SealedState(other, private)
    PROVE  Tidy(Merge(s, other)) /\ Sealed(Merge(s, other), private)
  BY DeltaSound, DeltaSealed, ApplySealed DEF Merge, MergeAccepts

LEMMA RotatedSealed ==
    ASSUME NEW private \in BOOLEAN, NEW s, Sound(s), Tidy(s), Sealed(s, private)
    PROVE  Tidy(Rotated(s)) /\ Sealed(Rotated(s), private)
  <1>1. SealedDelta(Rotation(s), private)
    BY DEF SealedDelta, Rotation, EmptyDelta
  <1>. QED
    BY <1>1, RotationSound, UpdateSealed DEF Rotated

LEMMA OutcomeSealed ==
    ASSUME NEW private \in BOOLEAN, IInv, SInv(private),
           NEW u \in inflight, NEW t \in Outcomes(board[u.to], u)
    PROVE  Tidy(t) /\ Sealed(t, private)
  <1>. DEFINE s == board[u.to]
  <1>1. /\ u.to \in Nodes
        /\ "state" \notin DOMAIN u => u \in DeltaUpdate
    BY UpdateTypes DEF IInv, TypeOK
  <1>2. Sound(s) /\ Tidy(s) /\ Sealed(s, private)
    BY <1>1 DEF IInv, SInv
  <1>3. CASE "state" \in DOMAIN u
    <2>1. Sound(u.state) /\ SealedState(u.state, private)
      BY <1>3 DEF IInv, SInv, UnderwaySound, UnderwaySealed
    <2>. QED
      BY <1>2, <1>3, <2>1, MergeSealed DEF Outcomes
  <1>4. CASE "state" \notin DOMAIN u
    <2>1. SoundDelta(s, u.delta) /\ SealedDelta(u.delta, private)
      BY <1>4 DEF IInv, SInv, UnderwaySound, UnderwaySealed
    <2>2. u.handler \in Handlers
      BY <1>1, <1>4 DEF DeltaUpdate
    <2>3. CASE u.handler = "apply"
      BY <1>2, <1>4, <2>1, <2>3, UpdateSealed DEF Outcomes
    <2>4. CASE u.handler = "rotate"
      <3>1. CASE Accepts(s, u.delta)
        <4>. DEFINE r == Apply(s, u.delta)
        <4>1. Sound(r) /\ Tidy(r) /\ Sealed(r, private)
          BY <1>2, <2>1, <3>1, ApplySound, ApplySealed
        <4>2. t = Rotated(r)
          BY <1>4, <2>4, <3>1 DEF Outcomes
        <4>. QED
          BY <4>1, <4>2, RotatedSealed
      <3>2. CASE ~Accepts(s, u.delta)
        BY <1>2, <1>4, <2>4, <3>2 DEF Outcomes
      <3>. QED
        BY <3>1, <3>2
    <2>5. CASE u.handler = "rejoin"
      <3>1. PICK m \in u.delta.recent_messages :
                \E d \in Rejoined(u.delta, m.author, s) : t = Update(s, d)
        BY <1>4, <2>5 DEF Outcomes
      <3>2. u.delta \in ChatBoardStateDelta /\ m.author \in Principals
        BY <1>1, <1>4 DEF DeltaUpdate, ChatBoardStateDelta, Message
      <3>3. PICK d \in Rejoined(u.delta, m.author, s) : t = Update(s, d)
        BY <3>1
      <3>4. SoundDelta(s, d)
        BY <1>2, <2>1, <3>2, RejoinedSound DEF Sound
      <3>5. d.configuration = u.delta.configuration
        BY <3>2 DEF Rejoined, ChatBoardStateDelta
      <3>6. SealedDelta(d, private)
        BY <2>1, <3>5 DEF SealedDelta
      <3>. QED
        BY <1>2, <3>3, <3>4, <3>6, UpdateSealed
    <2>. QED
      BY <2>2, <2>3, <2>4, <2>5 DEF Handlers
  <1>. QED
    BY <1>3, <1>4

(* A step that changes one board, or puts one update under way.            *)
LEMMA SealedBoardStep ==
    ASSUME NEW private, TypeOK, SInv(private), NEW n \in Nodes, NEW t,
           Tidy(t), Sealed(t, private),
           board' = [board EXCEPT ![n] = t], inflight' \subseteq inflight
    PROVE  SInv(private)'
  BY DEF SInv, UnderwaySealed, TypeOK

LEMMA SealedSendStep ==
    ASSUME NEW private, SInv(private), board' = board,
           \A u \in inflight' \ inflight :
                IF "state" \in DOMAIN u THEN SealedState(u.state, private)
                ELSE SealedDelta(u.delta, private)
    PROVE  SInv(private)'
  BY DEF SInv, UnderwaySealed

LEMMA SealedComposeStep ==
    ASSUME NEW private, SInv(private), NEW n, NEW d, NEW h, Compose(n, d, h),
           SealedDelta(d, private)
    PROVE  SInv(private)'
  <1>. DEFINE u == [to |-> n, delta |-> d, handler |-> h]
  <1>1. "state" \notin DOMAIN u /\ u.delta = d
    OBVIOUS
  <1>2. inflight' = inflight \cup {u} /\ board' = board
    BY DEF Compose, Post
  <1>. QED
    BY <1>1, <1>2, SealedSendStep

LEMMA SealedPostStep ==
    ASSUME NEW private, SInv(private), NEW n, NEW s, Post([to |-> n, state |-> s]),
           SealedState(s, private)
    PROVE  SInv(private)'
  <1>. DEFINE u == [to |-> n, state |-> s]
  <1>1. "state" \in DOMAIN u /\ u.state = s
    OBVIOUS
  <1>2. inflight' = inflight \cup {u} /\ board' = board
    BY DEF Post
  <1>. QED
    BY <1>1, <1>2, SealedSendStep

LEMMA InitSInv ==
    ASSUME NEW private \in BOOLEAN,
           board = [n \in Nodes |-> InitialBoard(private)], inflight = {}
    PROVE  SInv(private)
  <1>. DEFINE s == InitialBoard(private)
  <1>1. /\ s.configuration = [InitialConfiguration EXCEPT !.private = private]
        /\ s.members = {} /\ s.bans = {} /\ s.recent_messages = {}
        /\ s.member_info = {FirstInfo(Owner)} /\ s.secrets = InitialSecrets(private)
    BY DEF InitialBoard
  <1>. HIDE DEF s
  <1>2. Tidy(s)
    <2>1. Required(Authors(s), s.members) = s.members
      BY <1>1 DEF Required
    <2>2. Reached(BannedUsers(s.bans), s.members) = {}
      BY <1>1 DEF Reached
    <2>3. VerifyMemberInfo(s)
      BY <1>1 DEF VerifyMemberInfo, FirstInfo, Participants
    <2>. QED
      BY <1>1, <2>1, <2>2, <2>3 DEF Tidy
  <1>3. Sealed(s, private)
    <2>1. /\ s.configuration.private = private
          /\ s.configuration.configuration_version
                = InitialConfiguration.configuration_version
          /\ InitialConfiguration.configuration_version \in Nat
      BY <1>1, ConfigurationAssumption DEF Configuration
    <2>2. private => s.secrets.versions # {}
      BY <1>1 DEF InitialSecrets
    <2>. QED
      BY <1>1, <2>1, <2>2 DEF Sealed
  <1>. QED
    BY <1>2, <1>3 DEF SInv, UnderwaySealed, s

LEMMA WriteSInv ==
    ASSUME NEW private \in BOOLEAN, IInv, SInv(private), NEW n \in Nodes, Write(n)
    PROVE  SInv(private)'
  <1>1. ASSUME NEW p \in Principals, SendMessage(n, p)
        PROVE  SInv(private)'
    <2>1. PICK d, h : Compose(n, d, h) /\ d.configuration = None
      BY <1>1 DEF SendMessage, EmptyDelta
    <2>. QED
      BY <2>1, SealedComposeStep DEF SealedDelta
  <1>2. ASSUME NEW p \in Principals, NEW x \in Members, BanMember(n, p, x)
        PROVE  SInv(private)'
    <2>1. PICK d, h : Compose(n, d, h) /\ d.configuration = None
      BY <1>2 DEF BanMember, EmptyDelta
    <2>. QED
      BY <2>1, SealedComposeStep DEF SealedDelta
  <1>3. ASSUME NEW p \in Principals, NEW nickname \in Nicknames,
               SetNickname(n, p, nickname)
        PROVE  SInv(private)'
    <2>1. PICK d : /\ SoundDelta(board[n], d) /\ d.configuration = None
                   /\ board' = [board EXCEPT ![n] = Update(board[n], d)]
      BY <1>3, SetNicknameDelta
    <2>2. Tidy(Update(board[n], d)) /\ Sealed(Update(board[n], d), private)
      BY <2>1, UpdateSealed DEF IInv, SInv, SealedDelta
    <2>. QED
      BY <1>3, <2>1, <2>2, SealedBoardStep DEF IInv, SetNickname
  <1>4. ASSUME NEW p \in Members, AcceptInvitation(n, p)
        PROVE  SInv(private)'
    BY <1>4, SealedSendStep DEF AcceptInvitation
  <1>5. ASSUME NEW x \in Members, AddAdmin(n, x)
        PROVE  SInv(private)'
    <2>1. [EmptyDelta EXCEPT !.admin = {x}].configuration = None
      BY DEF EmptyDelta
    <2>2. SealedDelta([EmptyDelta EXCEPT !.admin = {x}], private)
      BY <2>1 DEF SealedDelta
    <2>. QED
      BY <1>5, <2>2, SealedComposeStep DEF AddAdmin
  <1>6. ASSUME NEW limit \in BanLimits, UpdateConfiguration(n, limit)
        PROVE  SInv(private)'
    <2>. DEFINE c == board[n].configuration
                next == [c EXCEPT !.configuration_version = @ + 1]
                new == [next EXCEPT !.max_user_bans = limit]
                d == [EmptyDelta EXCEPT !.configuration = new]
    <2>1. c \in Configuration /\ c.private = private
      BY DEF IInv, SInv, Sealed, Sound, ChatBoardState
    <2>2. next \in Configuration /\ next.private = private
      BY <2>1 DEF Configuration
    <2>3. new.private = private
      BY <2>2 DEF Configuration
    <2>4. d.configuration = new
      BY DEF EmptyDelta
    <2>5. SealedDelta(d, private)
      BY <2>3, <2>4 DEF SealedDelta
    <2>6. Compose(n, d, "apply")
      BY <1>6 DEF UpdateConfiguration
    <2>. QED
      BY <2>5, <2>6, SealedComposeStep
  <1>7. CASE RotateSecret(n)
    <2>1. Tidy(Rotated(board[n])) /\ Sealed(Rotated(board[n]), private)
      BY RotatedSealed DEF IInv, SInv
    <2>2. board' = [board EXCEPT ![n] = Rotated(board[n])]
      BY <1>7 DEF RotateSecret
    <2>. QED
      BY <1>7, <2>1, <2>2, SealedBoardStep DEF RotateSecret, IInv
  <1>8. ASSUME NEW v \in Upgrades, PublishUpgrade(n, v)
        PROVE  SInv(private)'
    <2>. DEFINE s == [InitialBoard(FALSE) EXCEPT !.member_info = {}, !.upgrade = v]
    <2>1. /\ s.configuration.configuration_version
                = InitialConfiguration.configuration_version
          /\ InitialConfiguration.configuration_version \in Nat
      BY ConfigurationAssumption DEF InitialBoard, Configuration
    <2>2. Post([to |-> n, state |-> s])
      BY <1>8 DEF PublishUpgrade
    <2>. HIDE DEF s
    <2>3. SealedState(s, private)
      BY <2>1 DEF SealedState
    <2>. QED
      BY <2>2, <2>3, SealedPostStep
  <1>. QED
    BY <1>1, <1>2, <1>3, <1>4, <1>5, <1>6, <1>7, <1>8 DEF Write

LEMMA NextSInv ==
    ASSUME NEW private \in BOOLEAN, IInv, SInv(private), [Next]_vars
    PROVE  SInv(private)'
  <1>1. ASSUME NEW n \in Nodes, NEW k \in Nodes, SendDelta(n, k)
        PROVE  SInv(private)'
    <2>1. SealedDelta(Delta(board[n], board[k]), private)
      BY DEF SInv, Sealed, SealedDelta, Delta, DeltaConfiguration
    <2>. QED
      BY <1>1, <2>1, SealedComposeStep DEF SendDelta
  <1>2. ASSUME NEW n \in Nodes, NEW k \in Nodes, SendState(n, k)
        PROVE  SInv(private)'
    BY <1>2, SealedPostStep DEF SendState, SInv, Sealed, SealedState
  <1>3. ASSUME NEW n \in Nodes, NEW k \in Nodes, Sync(n, k)
        PROVE  SInv(private)'
    <2>1. SealedState(board[k], private)
      BY DEF SInv, Sealed, SealedState
    <2>2. Tidy(Merge(board[n], board[k])) /\ Sealed(Merge(board[n], board[k]), private)
      BY <1>3, <2>1, MergeSealed DEF Sync, IInv, SInv
    <2>. QED
      BY <1>3, <2>2, SealedBoardStep DEF Sync, IInv
  <1>4. ASSUME NEW u \in inflight, Receive(u), inflight' \subseteq inflight
        PROVE  SInv(private)'
    <2>1. PICK t \in Outcomes(board[u.to], u) : board' = [board EXCEPT ![u.to] = t]
      BY <1>4 DEF Receive
    <2>2. Tidy(t) /\ Sealed(t, private) /\ u.to \in Nodes
      BY OutcomeSealed, UpdateTypes DEF IInv, TypeOK
    <2>. QED
      BY <1>4, <2>1, <2>2, SealedBoardStep DEF IInv
  <1>5. ASSUME NEW u \in inflight, Lose(u)
        PROVE  SInv(private)'
    BY <1>5, SealedSendStep DEF Lose
  <1>6. CASE UNCHANGED vars
    BY <1>6, SealedSendStep DEF vars
  <1>. QED
    BY <1>1, <1>2, <1>3, <1>4, <1>5, <1>6, WriteSInv
    DEF Next, Exchange, Deliver, DeliverCopy

SealedAndTidy == \E private \in BOOLEAN : SInv(private)

LEMMA AlwaysSealed == Spec => []SealedAndTidy
  <1>1. Init => SealedAndTidy
    BY InitSInv, PrivacyAssumption DEF Init, SealedAndTidy
  <1>2. IInv /\ SealedAndTidy /\ [Next]_vars => SealedAndTidy'
    BY NextSInv DEF SealedAndTidy
  <1>. QED
    BY <1>1, <1>2, BoardsSound, PTL DEF Spec

(* In a private board no message is readable without a secret, and every   *)
(* message is sealed with a secret the board has (MessageAccepted).        *)
THEOREM MessagesStaySealed == Spec => []PrivateMessagesSealed
  <1>1. SealedAndTidy => PrivateMessagesSealed
    BY DEF SealedAndTidy, SInv, Sealed, PrivateMessagesSealed
  <1>. QED
    BY <1>1, AlwaysSealed, PTL

(* No board holds anything that post_apply_cleanup would take away: the    *)
(* empty update is accepted and changes nothing.                           *)
THEOREM BoardsStaySettled == Spec => []BoardsSettled
  <1>1. IInv /\ SealedAndTidy => BoardsSettled
    BY TidySettled DEF IInv, Sound, SealedAndTidy, SInv, BoardsSettled
  <1>. QED
    BY <1>1, BoardsSound, AlwaysSealed, PTL

---------------------------------------------------------------------------
(* Who may post.                                                           *)

(* A message of p's is accepted as soon as it can be read by whom it is    *)
(* for, and p's invitations and nickname, if they have to come with it, are *)
(* in order: a member of a private board has the current secret, and so    *)
(* does everybody else; the invitations p kept lead to the owner, nobody   *)
(* among them is banned, and the nickname is not too long.                 *)
Provided(p, s) ==
    /\ s.configuration.private =>
            /\ p \in Participants(s.members)
            /\ [version |-> s.secrets.current_version, member |-> p] \in s.secrets.blobs
            /\ CompleteDistribution(s.secrets, s.members)
    /\ p \notin Participants(s.members) =>
            /\ ChainsValid(stored[p]) /\ stored[p] \cap BannedUsers(s.bans) = {}
            /\ \A i \in infosSigned :
                    i.member_id = p => i.nickname <= s.configuration.max_nickname_size

(* What people keep is their own invitation or those above it too.         *)
OwnInvitations == \A p \in Members : stored[p] \in {{}, {p}, Required({p}, Members)}

(* AcceptInvitation alone stores invitations, and they stay                *)
(* (get_response.rs).                                                      *)
LEMMA InvitationsKept == Spec => []OwnInvitations
  <1>1. Init => OwnInvitations
    BY DEF Init, OwnInvitations
  <1>2. ASSUME TypeOK, OwnInvitations, NEW n \in Nodes, NEW p \in Members, AcceptInvitation(n, p)
        PROVE  OwnInvitations'
    <2>1. PICK own \in {{p}, Required({p}, Members)} : stored' = [stored EXCEPT ![p] = own]
      BY <1>2 DEF AcceptInvitation
    <2>. QED
      BY <1>2, <2>1 DEF OwnInvitations, TypeOK
  <1>3. ASSUME stored' = stored, OwnInvitations
        PROVE  OwnInvitations'
    BY <1>3 DEF OwnInvitations
  <1>4. TypeOK /\ OwnInvitations /\ [Next]_vars => OwnInvitations'
    BY <1>2, <1>3
    DEF Next, Write, Exchange, SendMessage, BanMember, SetNickname, AddAdmin, UpdateConfiguration,
        RotateSecret, PublishUpgrade, SendDelta, SendState, Sync, Deliver, DeliverCopy, Receive,
        Lose, vars
  <1>. QED
    BY <1>1, <1>4, TypeCorrect, PTL DEF Spec

(* A message sent alone or with its author's invitations and nickname.     *)
LEMMA MessageKept ==
    ASSUME NEW s \in ChatBoardState, NEW d \in ChatBoardStateDelta,
           d.configuration = None, d.admin = {}, d.bans = {}, d.secrets = None,
           d.members \subseteq Rooted(s.members \cup d.members),
           MemberInfoAccepted(d.member_info, s.configuration),
           NEW all, all = MembersAfter(s.members, d.members, s.bans),
           NEW m, d.recent_messages = {m}, m.author \in Participants(all),
           m.size <= s.configuration.max_message_size,
           MessageAccepted(m, s.configuration, s.secrets, all)
    PROVE  Accepts(s, d) /\ m \in Apply(s, d).recent_messages
  <1>. DEFINE t == Applied(s, d)
  <1>1. /\ t.configuration = s.configuration /\ t.admin = s.admin \cup d.admin
        /\ t.members = all /\ t.secrets = s.secrets
        /\ t.recent_messages =
              MessagesAfter(s.recent_messages, d.recent_messages, s.configuration, all)
    BY DEF Applied, ConfigurationAfter, BansAfter, SecretsAfter
  <1>2. Accepts(s, d)
    BY <1>1 DEF Accepts, ConfigurationAccepted, AdminAccepted, BansAccepted, MembersAccepted,
                SecretsAccepted
  <1>3. t \in ChatBoardState
    BY <1>2, AppliedType DEF Accepts
  <1>4. m \in t.recent_messages
    BY <1>1 DEF MessagesAfter
  <1>. QED
    BY <1>2, <1>3, <1>4, CleanupFacts DEF Apply

(* Invitations that lead to the owner, nobody of whom is banned, make their *)
(* holders members, whoever else is banned.                                *)
LEMMA InvitedStay ==
    ASSUME NEW own \in SUBSET Members, ChainsValid(own), NEW S \in SUBSET Members,
           NEW bans, own \cap BannedUsers(bans) = {}, Owner \notin BannedUsers(bans)
    PROVE  own \subseteq MembersAfter(S, own \ S, bans)
  <1>. DEFINE all == S \cup (own \ S)
              B == BannedUsers(bans)
  <1>1. \A k \in own : Inviter[k] \in own \cup {Owner}
    <2>. DEFINE D == {k \in own : Inviter[k] \in own \cup {Owner}}
    <2>1. ClosedUnder({Owner}, own, D)
      BY DEF ClosedUnder
    <2>. QED
      BY <2>1, ReachedLeast DEF ChainsValid, Rooted
  <1>2. ClosedUnder(B, all, all \ own)
    BY <1>1, OwnerAssumption DEF ClosedUnder
  <1>3. Reached(B, all) \subseteq all \ own
    <2>. HIDE DEF all, B
    <2>. QED
      BY <1>2, ReachedLeast
  <1>. QED
    BY <1>3 DEF MembersAfter

---------------------------------------------------------------------------
(* What replicas take from one another.                                    *)

(* The limits no command changes (board.rs of the command line client).    *)
SameSizes(config) ==
    /\ config.max_admins = InitialConfiguration.max_admins
    /\ config.max_message_size = InitialConfiguration.max_message_size
    /\ config.max_title_size = InitialConfiguration.max_title_size
    /\ config.max_nickname_size = InitialConfiguration.max_nickname_size

(* What a configuration is refused without, once its version is above 0.   *)
Positive(config) ==
    /\ config.max_user_bans > 0 /\ config.max_admins > 0
    /\ config.max_message_size > 0 /\ config.max_title_size > 0
    /\ config.max_nickname_size > 0

(* Whoever banned is the owner, an admin, or above the banned.             *)
Justified(bans, admin) ==
    \A b \in bans : b.banned_user \in Members /\ (FromAbove(b) \/ b.banned_by \in admin)

(* A board with limits and bans others take, and no secrets if it is       *)
(* public.                                                                 *)
Founded(s, private) ==
    /\ SameSizes(s.configuration)
    /\ Justified(s.bans, s.admin)
    /\ private \/ (s.secrets.versions = {} /\ s.secrets.blobs = {})

(* Such contents of an update, for a board with these admins.              *)
FoundedDelta(d, admin, private) ==
    /\ d.configuration # None => SameSizes(d.configuration)
    /\ Justified(d.bans, admin \cup d.admin)
    /\ private \/ d.secrets = None

(* The owner's first nickname is not checked by anybody, and need not be,  *)
(* for everybody has it.                                                   *)
NicknameFits(i) ==
    i.nickname <= InitialConfiguration.max_nickname_size \/ (i.member_id = Owner /\ i.version = 0)

(* A board whose contents others take.                                     *)
Passable(s, private) ==
    /\ Founded(s, private)
    /\ \/ s.configuration.configuration_version = InitialConfiguration.configuration_version
       \/ Positive(s.configuration)
    /\ \E i \in s.member_info : i.member_id = Owner
    /\ \A i \in s.member_info : NicknameFits(i)
    /\ \A m \in s.recent_messages : m.title <= InitialConfiguration.max_title_size

(* The updates under way have such contents.                               *)
UnderwayFounded(private) ==
    \A u \in inflight :
        IF "state" \in DOMAIN u THEN Founded(u.state, private)
        ELSE FoundedDelta(u.delta, board[u.to].admin, private)

(* Every replica and every update under way.                               *)
PInv(private) ==
    /\ \A n \in Nodes : Passable(board[n], private)
    /\ UnderwayFounded(private)

(* An accepted update leaves contents others take.                         *)
LEMMA ApplyPassable ==
    ASSUME NEW private \in BOOLEAN, NEW s, NEW d, Sound(s), SoundDelta(s, d),
           Accepts(s, d), Passable(s, private), FoundedDelta(d, s.admin, private)
    PROVE  Passable(Apply(s, d), private)
  <1>. DEFINE t == Applied(s, d)
              c == Apply(s, d)
  <1>1. /\ s \in ChatBoardState /\ d \in ChatBoardStateDelta
        /\ t \in ChatBoardState
    BY AppliedSound DEF Sound, SoundDelta
  <1>2. /\ c.configuration = t.configuration /\ c.secrets = t.secrets
        /\ c.recent_messages = t.recent_messages /\ c.admin = t.admin
        /\ c.bans \subseteq t.bans /\ c.member_info \subseteq t.member_info
    BY <1>1, CleanupFacts DEF Apply
  <1>3. /\ SameSizes(t.configuration)
        /\ \/ t.configuration.configuration_version = InitialConfiguration.configuration_version
           \/ Positive(t.configuration)
    BY DEF Applied, ConfigurationAfter, Accepts, ConfigurationAccepted, Passable, Founded,
           FoundedDelta, Positive
  <1>4. Justified(t.bans, t.admin)
    <2>1. t.bans \subseteq s.bans \cup d.bans /\ t.admin = s.admin \cup d.admin
      BY DEF Applied, BansAfter, NewestBans
    <2>. QED
      BY <2>1 DEF Justified, Passable, Founded, FoundedDelta
  <1>5. private \/ (t.secrets.versions = {} /\ t.secrets.blobs = {})
    BY DEF Applied, SecretsAfter, Passable, Founded, FoundedDelta
  <1>6. \E i \in c.member_info : i.member_id = Owner
    <2>1. PICK i \in s.member_info : i.member_id = Owner
      BY DEF Passable
    <2>2. \A j \in s.member_info : j.member_id = Owner => j = i
      BY <2>1 DEF Sound, OneInfoEach
    <2>3. t.member_info = MemberInfoAfter(s.member_info, d.member_info, t.members)
      BY DEF Applied
    <2>4. \E j \in t.member_info : j.member_id = Owner
      BY <2>1, <2>2, <2>3 DEF MemberInfoAfter, Participants
    <2>. QED
      BY <1>1, <2>4 DEF Apply, Cleanup, Participants, ChatBoardState
  <1>7. \A i \in t.member_info : NicknameFits(i)
    <2>1. \A i \in d.member_info : i.nickname <= InitialConfiguration.max_nickname_size
      BY <1>3 DEF Accepts, MemberInfoAccepted, SameSizes
    <2>2. t.member_info \subseteq s.member_info \cup d.member_info
      BY DEF Applied, MemberInfoAfter
    <2>. QED
      BY <2>1, <2>2 DEF Passable, NicknameFits
  <1>8. \A m \in t.recent_messages : m.title <= InitialConfiguration.max_title_size
    <2>1. \A m \in d.recent_messages : m.title <= InitialConfiguration.max_title_size
      BY <1>3 DEF Accepts, MessageAccepted, SameSizes
    <2>2. t.recent_messages \subseteq s.recent_messages \cup d.recent_messages
      BY DEF Applied, MessagesAfter
    <2>. QED
      BY <2>1, <2>2 DEF Passable
  <1>9. Passable(c, private)
    <2>. HIDE DEF t, c
    <2>. QED
      BY <1>2, <1>3, <1>4, <1>5, <1>6, <1>7, <1>8 DEF Passable, Founded, Justified
  <1>. QED
    BY <1>9

(* A refused update changes nothing.                                       *)
LEMMA UpdatePassable ==
    ASSUME NEW private \in BOOLEAN, NEW s, NEW d, Sound(s), SoundDelta(s, d),
           Passable(s, private), FoundedDelta(d, s.admin, private)
    PROVE  Passable(Update(s, d), private)
  BY ApplyPassable DEF Update

(* What a board has and another lacks, the other takes.                    *)
LEMMA DeltaFounded ==
    ASSUME NEW private \in BOOLEAN, NEW s, NEW other, Sound(s), Sound(other),
           Founded(s, private), Founded(other, private)
    PROVE  FoundedDelta(Delta(other, s), s.admin, private)
  <1>. DEFINE d == Delta(other, s)
  <1>1. d.configuration # None => SameSizes(d.configuration)
    BY DEF Delta, DeltaConfiguration, Founded
  <1>2. d.bans \subseteq other.bans /\ s.admin \cup d.admin = s.admin \cup other.admin
    BY DEF Delta
  <1>3. Justified(d.bans, s.admin \cup d.admin)
    BY <1>2 DEF Justified, Founded
  <1>4. ASSUME ~private
        PROVE  d.secrets = None
    <2>1. /\ s.secrets.versions = {} /\ other.secrets.versions = {} /\ other.secrets.blobs = {}
          /\ s.secrets.current_version = 0 /\ other.secrets.current_version = 0
      BY <1>4 DEF Founded, Sound, VerifySecrets
    <2>2. d.secrets = DeltaSecrets(other, s)
      BY DEF Delta
    <2>. QED
      BY <2>1, <2>2 DEF DeltaSecrets
  <1>. QED
    BY <1>1, <1>3, <1>4 DEF FoundedDelta

(* merge applies what the other replica has more.                          *)
LEMMA MergePassable ==
    ASSUME NEW private \in BOOLEAN, NEW s, NEW other, Sound(s), Sound(other),
           MergeAccepts(s, other), Passable(s, private), Founded(other, private)
    PROVE  Passable(Merge(s, other), private)
  BY DeltaSound, DeltaFounded, ApplyPassable DEF Merge, MergeAccepts, Passable

(* A new secret leaves the rest of the board.                              *)
LEMMA RotatedPassable ==
    ASSUME NEW private \in BOOLEAN, NEW s, Sound(s), Passable(s, private),
           s.configuration.private = private
    PROVE  Passable(Rotated(s), private)
  <1>1. CASE MayRotate(s)
    <2>1. private
      BY <1>1 DEF MayRotate
    <2>2. FoundedDelta(Rotation(s), s.admin, private)
      BY <2>1 DEF FoundedDelta, Rotation, EmptyDelta, Justified
    <2>. QED
      BY <2>2, RotationSound, UpdatePassable DEF Rotated
  <1>2. CASE ~MayRotate(s)
    BY <1>2 DEF Rotated
  <1>. QED
    BY <1>1, <1>2

(* Whatever becomes of an update, applied, merged or dropped.              *)
LEMMA OutcomePassable ==
    ASSUME NEW private \in BOOLEAN, IInv, SInv(private), PInv(private),
           NEW u \in inflight, NEW t \in Outcomes(board[u.to], u)
    PROVE  Passable(t, private)
  <1>. DEFINE s == board[u.to]
  <1>1. /\ u.to \in Nodes
        /\ "state" \notin DOMAIN u => u \in DeltaUpdate
    BY UpdateTypes DEF IInv, TypeOK
  <1>2. Sound(s) /\ Sealed(s, private) /\ Passable(s, private)
    BY <1>1 DEF IInv, SInv, PInv
  <1>3. CASE "state" \in DOMAIN u
    <2>1. Sound(u.state) /\ Founded(u.state, private)
      BY <1>3 DEF IInv, PInv, UnderwaySound, UnderwayFounded
    <2>. QED
      BY <1>2, <1>3, <2>1, MergePassable DEF Outcomes
  <1>4. CASE "state" \notin DOMAIN u
    <2>1. /\ SoundDelta(s, u.delta) /\ SealedDelta(u.delta, private)
          /\ FoundedDelta(u.delta, s.admin, private)
      BY <1>4 DEF IInv, SInv, PInv, UnderwaySound, UnderwaySealed, UnderwayFounded
    <2>2. u.handler \in Handlers
      BY <1>1, <1>4 DEF DeltaUpdate
    <2>3. CASE u.handler = "apply"
      BY <1>2, <1>4, <2>1, <2>3, UpdatePassable DEF Outcomes
    <2>4. CASE u.handler = "rotate"
      <3>1. CASE Accepts(s, u.delta)
        <4>. DEFINE r == Apply(s, u.delta)
        <4>1. Sound(r) /\ Sealed(r, private) /\ Passable(r, private)
          BY <1>2, <2>1, <3>1, ApplySound, ApplySealed, ApplyPassable
        <4>2. t = Rotated(r)
          BY <1>4, <2>4, <3>1 DEF Outcomes
        <4>3. r.configuration.private = private
          BY <4>1 DEF Sealed
        <4>. QED
          BY <4>1, <4>2, <4>3, RotatedPassable
      <3>2. CASE ~Accepts(s, u.delta)
        BY <1>2, <1>4, <2>4, <3>2 DEF Outcomes
      <3>. QED
        BY <3>1, <3>2
    <2>5. CASE u.handler = "rejoin"
      <3>1. PICK m \in u.delta.recent_messages :
                \E d \in Rejoined(u.delta, m.author, s) : t = Update(s, d)
        BY <1>4, <2>5 DEF Outcomes
      <3>2. u.delta \in ChatBoardStateDelta /\ m.author \in Principals
        BY <1>1, <1>4 DEF DeltaUpdate, ChatBoardStateDelta, Message
      <3>3. PICK d \in Rejoined(u.delta, m.author, s) : t = Update(s, d)
        BY <3>1
      <3>4. SoundDelta(s, d)
        BY <1>2, <2>1, <3>2, RejoinedSound DEF Sound
      <3>5. /\ d.configuration = u.delta.configuration /\ d.bans = u.delta.bans
            /\ d.admin = u.delta.admin /\ d.secrets = u.delta.secrets
        BY <3>2 DEF Rejoined, ChatBoardStateDelta
      <3>6. FoundedDelta(d, s.admin, private)
        BY <2>1, <3>5 DEF FoundedDelta
      <3>. QED
        BY <1>2, <3>3, <3>4, <3>6, UpdatePassable
    <2>. QED
      BY <2>2, <2>3, <2>4, <2>5 DEF Handlers
  <1>. QED
    BY <1>3, <1>4

(* A step that changes one board, or puts one update under way.            *)
LEMMA PassableBoardStep ==
    ASSUME NEW private, TypeOK, PInv(private), NEW n \in Nodes, NEW t,
           Passable(t, private), board[n].admin \subseteq t.admin,
           board' = [board EXCEPT ![n] = t], inflight' \subseteq inflight
    PROVE  PInv(private)'
  <1>1. \A k \in Nodes : Passable(board'[k], private) /\ board[k].admin \subseteq board'[k].admin
    BY DEF PInv, TypeOK
  <1>2. ASSUME NEW u \in inflight', "state" \notin DOMAIN u
        PROVE  FoundedDelta(u.delta, board'[u.to].admin, private)
    <2>1. FoundedDelta(u.delta, board[u.to].admin, private) /\ u.to \in Nodes
      BY <1>2, UpdateTypes DEF PInv, UnderwayFounded, TypeOK
    <2>. QED
      BY <1>1, <2>1 DEF FoundedDelta, Justified
  <1>3. ASSUME NEW u \in inflight', "state" \in DOMAIN u
        PROVE  Founded(u.state, private)
    BY <1>3 DEF PInv, UnderwayFounded
  <1>. QED
    BY <1>1, <1>2, <1>3 DEF PInv, UnderwayFounded

(* A step that leaves the boards and sends contents others take.           *)
LEMMA PassableSendStep ==
    ASSUME NEW private, PInv(private), board' = board,
           \A u \in inflight' \ inflight :
                IF "state" \in DOMAIN u THEN Founded(u.state, private)
                ELSE FoundedDelta(u.delta, board[u.to].admin, private)
    PROVE  PInv(private)'
  BY DEF PInv, UnderwayFounded

(* An update composed from a replica and sent.                             *)
LEMMA PassableComposeStep ==
    ASSUME NEW private, PInv(private), NEW n, NEW d, NEW h, Compose(n, d, h),
           FoundedDelta(d, board[n].admin, private)
    PROVE  PInv(private)'
  <1>. DEFINE u == [to |-> n, delta |-> d, handler |-> h]
  <1>1. "state" \notin DOMAIN u /\ u.delta = d /\ u.to = n
    OBVIOUS
  <1>2. inflight' = inflight \cup {u} /\ board' = board
    BY DEF Compose, Post
  <1>. QED
    BY <1>1, <1>2, PassableSendStep

(* A whole board sent.                                                     *)
LEMMA PassablePostStep ==
    ASSUME NEW private, PInv(private), NEW n, NEW s, Post([to |-> n, state |-> s]),
           Founded(s, private)
    PROVE  PInv(private)'
  <1>. DEFINE u == [to |-> n, state |-> s]
  <1>1. "state" \in DOMAIN u /\ u.state = s
    OBVIOUS
  <1>2. inflight' = inflight \cup {u} /\ board' = board
    BY DEF Post
  <1>. QED
    BY <1>1, <1>2, PassableSendStep

(* A delta without bans, configuration and secrets is one others take.     *)
LEMMA PlainFounded ==
    ASSUME NEW d, d.configuration = None, d.bans = {}, d.secrets = None,
           NEW admin, NEW private
    PROVE  FoundedDelta(d, admin, private)
  BY DEF FoundedDelta, Justified

(* The board its owner creates.                                            *)
LEMMA InitPassable ==
    ASSUME NEW private \in BOOLEAN
    PROVE  Passable(InitialBoard(private), private)
  <1>. DEFINE s == InitialBoard(private)
  <1>1. /\ s.configuration = [InitialConfiguration EXCEPT !.private = private]
        /\ s.bans = {} /\ s.recent_messages = {}
        /\ s.member_info = {FirstInfo(Owner)} /\ s.secrets = InitialSecrets(private)
    BY DEF InitialBoard
  <1>. HIDE DEF s
  <1>2. /\ SameSizes(s.configuration)
        /\ s.configuration.configuration_version = InitialConfiguration.configuration_version
    BY <1>1, ConfigurationAssumption DEF SameSizes, Configuration
  <1>3. private \/ (s.secrets.versions = {} /\ s.secrets.blobs = {})
    BY <1>1 DEF InitialSecrets
  <1>4. /\ \E i \in s.member_info : i.member_id = Owner
        /\ \A i \in s.member_info : NicknameFits(i)
    BY <1>1 DEF FirstInfo, NicknameFits
  <1>5. Passable(s, private)
    BY <1>1, <1>2, <1>3, <1>4 DEF Passable, Founded, Justified
  <1>. QED
    BY <1>5 DEF s

(* What users do keeps contents others take.                               *)
LEMMA WritePInv ==
    ASSUME NEW private \in BOOLEAN, IInv, SInv(private), PInv(private),
           NEW n \in Nodes, Write(n)
    PROVE  PInv(private)'
  <1>1. ASSUME NEW p \in Principals, SendMessage(n, p)
        PROVE  PInv(private)'
    <2>1. PICK d, h : Compose(n, d, h) /\ d.configuration = None /\ d.bans = {} /\ d.secrets = None
      BY <1>1 DEF SendMessage, EmptyDelta
    <2>. QED
      BY <2>1, PassableComposeStep, PlainFounded
  <1>2. ASSUME NEW p \in Principals, NEW x \in Members, BanMember(n, p, x)
        PROVE  PInv(private)'
    <2>. DEFINE s == board[n]
    <2>1. PICK id, h :
            Compose(n, [EmptyDelta EXCEPT !.bans =
                          {[id |-> id, banned_by |-> p, banned_user |-> x]}], h)
      BY <1>2 DEF BanMember
    <2>2. FromAbove([id |-> id, banned_by |-> p, banned_user |-> x]) \/ p \in s.admin
      <3>1. s.members \in SUBSET Members /\ Rooted(s.members) \subseteq s.members
        BY DEF IInv, Sound, ChatBoardState, Rooted, Reached
      <3>2. x \in s.members /\ (p \in s.admin \cup {Owner} \/ (p # x /\ p \in Required({x}, s.members)))
        BY <1>2, <3>1 DEF BanMember, MayBan, InChainOf
      <3>3. Required({x}, s.members) \subseteq Required({x}, Members)
        BY <3>1, <3>2, AboveMonotonic
      <3>. QED
        BY <3>2, <3>3 DEF FromAbove
    <2>. DEFINE d == [EmptyDelta EXCEPT !.bans =
                        {[id |-> id, banned_by |-> p, banned_user |-> x]}]
    <2>3. /\ d.configuration = None /\ d.secrets = None /\ d.admin = {}
          /\ d.bans = {[id |-> id, banned_by |-> p, banned_user |-> x]}
      BY DEF EmptyDelta
    <2>. HIDE DEF d
    <2>4. FoundedDelta(d, s.admin, private)
      BY <2>2, <2>3 DEF FoundedDelta, Justified
    <2>. QED
      BY <2>1, <2>4, PassableComposeStep DEF d
  <1>3. ASSUME NEW p \in Principals, NEW nickname \in Nicknames,
               SetNickname(n, p, nickname)
        PROVE  PInv(private)'
    <2>1. PICK d : /\ SoundDelta(board[n], d) /\ d.configuration = None
                   /\ d.bans = {} /\ d.secrets = None
                   /\ board' = [board EXCEPT ![n] = Update(board[n], d)]
      BY <1>3, SetNicknameDelta
    <2>2. Passable(Update(board[n], d), private) /\ board[n].admin \subseteq Update(board[n], d).admin
      BY <2>1, UpdatePassable, PlainFounded, UpdateSteps DEF IInv, PInv, Forward
    <2>. QED
      BY <1>3, <2>1, <2>2, PassableBoardStep DEF IInv, SetNickname
  <1>4. ASSUME NEW p \in Members, AcceptInvitation(n, p)
        PROVE  PInv(private)'
    BY <1>4, PassableSendStep DEF AcceptInvitation
  <1>5. ASSUME NEW x \in Members, AddAdmin(n, x)
        PROVE  PInv(private)'
    <2>. DEFINE d == [EmptyDelta EXCEPT !.admin = {x}]
    <2>1. d.configuration = None /\ d.bans = {} /\ d.secrets = None
      BY DEF EmptyDelta
    <2>2. Compose(n, d, "apply")
      BY <1>5 DEF AddAdmin
    <2>. HIDE DEF d
    <2>. QED
      BY <2>1, <2>2, PassableComposeStep, PlainFounded
  <1>6. ASSUME NEW limit \in BanLimits, UpdateConfiguration(n, limit)
        PROVE  PInv(private)'
    <2>. DEFINE c == board[n].configuration
                next == [c EXCEPT !.configuration_version = @ + 1]
                new == [next EXCEPT !.max_user_bans = limit]
                d == [EmptyDelta EXCEPT !.configuration = new]
    <2>1. c \in Configuration /\ SameSizes(c)
      BY DEF IInv, PInv, Passable, Founded, Sound, ChatBoardState
    <2>2. next \in Configuration /\ SameSizes(next)
      BY <2>1 DEF Configuration, SameSizes
    <2>3. SameSizes(new)
      BY <2>2 DEF Configuration, SameSizes
    <2>4. d.configuration = new /\ d.bans = {} /\ d.secrets = None
      BY DEF EmptyDelta
    <2>5. Compose(n, d, "apply")
      BY <1>6 DEF UpdateConfiguration
    <2>. HIDE DEF d, new
    <2>6. FoundedDelta(d, board[n].admin, private)
      BY <2>3, <2>4 DEF FoundedDelta, Justified
    <2>. QED
      BY <2>5, <2>6, PassableComposeStep
  <1>7. CASE RotateSecret(n)
    <2>1. /\ Passable(Rotated(board[n]), private)
          /\ board[n].admin \subseteq Rotated(board[n]).admin
      BY RotatedPassable, RotatedSteps DEF IInv, SInv, PInv, Sealed, Forward
    <2>2. board' = [board EXCEPT ![n] = Rotated(board[n])]
      BY <1>7 DEF RotateSecret
    <2>. QED
      BY <1>7, <2>1, <2>2, PassableBoardStep DEF RotateSecret, IInv
  <1>8. ASSUME NEW v \in Upgrades, PublishUpgrade(n, v)
        PROVE  PInv(private)'
    <2>. DEFINE s == [InitialBoard(FALSE) EXCEPT !.member_info = {}, !.upgrade = v]
    <2>1. /\ s.configuration = InitialBoard(FALSE).configuration
          /\ s.bans = InitialBoard(FALSE).bans /\ s.admin = InitialBoard(FALSE).admin
          /\ s.secrets = InitialBoard(FALSE).secrets
      BY DEF InitialBoard
    <2>2. Founded(InitialBoard(FALSE), FALSE)
      BY InitPassable DEF Passable
    <2>3. Post([to |-> n, state |-> s])
      BY <1>8 DEF PublishUpgrade
    <2>. HIDE DEF s
    <2>4. Founded(s, private)
      BY <2>1, <2>2 DEF Founded
    <2>. QED
      BY <2>3, <2>4, PassablePostStep
  <1>. QED
    BY <1>1, <1>2, <1>3, <1>4, <1>5, <1>6, <1>7, <1>8 DEF Write

(* Every step does.                                                        *)
LEMMA NextPInv ==
    ASSUME NEW private \in BOOLEAN, IInv, SInv(private), PInv(private), [Next]_vars
    PROVE  PInv(private)'
  <1>1. ASSUME NEW n \in Nodes, NEW k \in Nodes, SendDelta(n, k)
        PROVE  PInv(private)'
    <2>1. FoundedDelta(Delta(board[n], board[k]), board[k].admin, private)
      BY DeltaFounded DEF IInv, PInv, Passable
    <2>. QED
      BY <1>1, <2>1, PassableComposeStep DEF SendDelta
  <1>2. ASSUME NEW n \in Nodes, NEW k \in Nodes, SendState(n, k)
        PROVE  PInv(private)'
    BY <1>2, PassablePostStep DEF SendState, PInv, Passable
  <1>3. ASSUME NEW n \in Nodes, NEW k \in Nodes, Sync(n, k)
        PROVE  PInv(private)'
    <2>1. /\ Passable(Merge(board[n], board[k]), private)
          /\ board[n].admin \subseteq Merge(board[n], board[k]).admin
      BY <1>3, MergePassable, MergeSteps DEF Sync, IInv, PInv, Passable, Forward
    <2>. QED
      BY <1>3, <2>1, PassableBoardStep DEF Sync, IInv
  <1>4. ASSUME NEW u \in inflight, Receive(u), inflight' \subseteq inflight
        PROVE  PInv(private)'
    <2>1. PICK t \in Outcomes(board[u.to], u) : board' = [board EXCEPT ![u.to] = t]
      BY <1>4 DEF Receive
    <2>2. Passable(t, private) /\ u.to \in Nodes /\ board[u.to].admin \subseteq t.admin
      BY OutcomePassable, OutcomeSteps, UpdateTypes DEF IInv, TypeOK, Forward
    <2>. QED
      BY <1>4, <2>1, <2>2, PassableBoardStep DEF IInv
  <1>5. ASSUME NEW u \in inflight, Lose(u)
        PROVE  PInv(private)'
    BY <1>5, PassableSendStep DEF Lose
  <1>6. CASE UNCHANGED vars
    BY <1>6, PassableSendStep DEF vars
  <1>. QED
    BY <1>1, <1>2, <1>3, <1>4, <1>5, <1>6, WritePInv
    DEF Next, Exchange, Deliver, DeliverCopy

(* A board that is public or private and whose contents others take.       *)
Exchangeable == \E private \in BOOLEAN : SInv(private) /\ PInv(private)

(* Every replica is always one whose contents others take.                 *)
LEMMA AlwaysExchangeable == Spec => []Exchangeable
  <1>1. Init => Exchangeable
    BY InitSInv, InitPassable, PrivacyAssumption DEF Init, Exchangeable, PInv, UnderwayFounded
  <1>2. IInv /\ Exchangeable /\ [Next]_vars => Exchangeable'
    BY NextSInv, NextPInv DEF Exchangeable
  <1>. QED
    BY <1>1, <1>2, BoardsSound, PTL DEF Spec

---------------------------------------------------------------------------
(* The bans there are, on boards and under way: each was signed once.      *)

(* The bans an update brings.                                              *)
UpdateBans(u) == IF "state" \in DOMAIN u THEN u.state.bans ELSE u.delta.bans

(* The bans there are.                                                     *)
AllBans == UNION ({board[n].bans : n \in Nodes} \cup {UpdateBans(u) : u \in inflight})

(* Two bans differ in their ids, and each id was signed.                   *)
BansApart ==
    /\ \A b, c \in AllBans : b.id = c.id => b = c
    /\ \A b \in AllBans : b.id \in bansSigned

(* No update adds a ban but those it brings.                               *)
LEMMA ApplyBans ==
    ASSUME NEW s, NEW d, Sound(s), SoundDelta(s, d), Accepts(s, d)
    PROVE  Apply(s, d).bans \subseteq s.bans \cup d.bans
  <1>1. Applied(s, d) \in ChatBoardState
    BY AppliedSound DEF Sound
  <1>2. Applied(s, d).bans \subseteq s.bans \cup d.bans
    BY DEF Applied, BansAfter, NewestBans
  <1>. QED
    BY <1>1, <1>2, CleanupFacts DEF Apply

(* A refused update adds none.                                             *)
LEMMA UpdateAddsBans ==
    ASSUME NEW s, NEW d, Sound(s), SoundDelta(s, d)
    PROVE  Update(s, d).bans \subseteq s.bans \cup d.bans
  BY ApplyBans DEF Update

(* merge adds those of the other replica.                                  *)
LEMMA MergeAddsBans ==
    ASSUME NEW s, NEW other, Sound(s), Sound(other), MergeAccepts(s, other)
    PROVE  Merge(s, other).bans \subseteq s.bans \cup other.bans
  <1>1. Delta(other, s).bans \subseteq other.bans
    BY DEF Delta
  <1>. QED
    BY <1>1, DeltaSound, ApplyBans DEF Merge, MergeAccepts

(* A new secret adds none.                                                 *)
LEMMA RotatedAddsNone ==
    ASSUME NEW s, Sound(s)
    PROVE  Rotated(s).bans \subseteq s.bans
  <1>1. Rotation(s).bans = {}
    BY DEF Rotation, EmptyDelta
  <1>. QED
    BY <1>1, RotationSound, UpdateAddsBans DEF Rotated

(* Nor does an update, whatever becomes of it, but those it brings.        *)
LEMMA OutcomeBans ==
    ASSUME IInv, NEW u \in inflight, NEW t \in Outcomes(board[u.to], u)
    PROVE  t.bans \subseteq AllBans
  <1>. DEFINE s == board[u.to]
  <1>1. /\ u.to \in Nodes
        /\ "state" \notin DOMAIN u => u \in DeltaUpdate
    BY UpdateTypes DEF IInv, TypeOK
  <1>2. Sound(s)
    BY <1>1 DEF IInv
  <1>3. s.bans \cup UpdateBans(u) \subseteq AllBans
    BY <1>1 DEF AllBans
  <1>4. CASE "state" \in DOMAIN u
    <2>1. Sound(u.state) /\ UpdateBans(u) = u.state.bans
      BY <1>4 DEF IInv, UnderwaySound, UpdateBans
    <2>2. t = s \/ (MergeAccepts(s, u.state) /\ t = Merge(s, u.state))
      BY <1>4 DEF Outcomes
    <2>. QED
      BY <1>2, <1>3, <2>1, <2>2, MergeAddsBans
  <1>5. CASE "state" \notin DOMAIN u
    <2>1. SoundDelta(s, u.delta) /\ UpdateBans(u) = u.delta.bans
      BY <1>5 DEF IInv, UnderwaySound, UpdateBans
    <2>2. u.handler \in Handlers
      BY <1>1, <1>5 DEF DeltaUpdate
    <2>3. CASE u.handler = "apply"
      <3>1. t = Update(s, u.delta)
        BY <1>5, <2>3 DEF Outcomes
      <3>. QED
        BY <1>2, <1>3, <2>1, <3>1, UpdateAddsBans
    <2>4. CASE u.handler = "rotate"
      <3>1. CASE Accepts(s, u.delta)
        <4>1. Sound(Apply(s, u.delta)) /\ Apply(s, u.delta).bans \subseteq AllBans
          BY <1>2, <1>3, <2>1, <3>1, ApplySound, ApplyBans
        <4>2. t = Rotated(Apply(s, u.delta))
          BY <1>5, <2>4, <3>1 DEF Outcomes
        <4>. QED
          BY <4>1, <4>2, RotatedAddsNone
      <3>2. CASE ~Accepts(s, u.delta)
        BY <1>3, <1>5, <2>4, <3>2 DEF Outcomes
      <3>. QED
        BY <3>1, <3>2
    <2>5. CASE u.handler = "rejoin"
      <3>1. PICK m \in u.delta.recent_messages :
                \E d \in Rejoined(u.delta, m.author, s) : t = Update(s, d)
        BY <1>5, <2>5 DEF Outcomes
      <3>2. u.delta \in ChatBoardStateDelta /\ m.author \in Principals
        BY <1>1, <1>5 DEF DeltaUpdate, ChatBoardStateDelta, Message
      <3>3. PICK d \in Rejoined(u.delta, m.author, s) : t = Update(s, d)
        BY <3>1
      <3>4. SoundDelta(s, d)
        BY <1>2, <2>1, <3>2, RejoinedSound DEF Sound
      <3>5. d.bans = u.delta.bans
        BY <3>2 DEF Rejoined, ChatBoardStateDelta
      <3>. QED
        BY <1>2, <1>3, <2>1, <3>3, <3>4, <3>5, UpdateAddsBans
    <2>. QED
      BY <2>2, <2>3, <2>4, <2>5 DEF Handlers
  <1>. QED
    BY <1>4, <1>5

(* A step after which there are no new bans.                               *)
LEMMA ApartBoardStep ==
    ASSUME TypeOK, BansApart, NEW n \in Nodes, NEW t, t.bans \subseteq AllBans,
           board' = [board EXCEPT ![n] = t], inflight' \subseteq inflight,
           bansSigned' = bansSigned
    PROVE  BansApart'
  <1>1. AllBans' \subseteq AllBans
    BY DEF AllBans, TypeOK
  <1>. QED
    BY <1>1 DEF BansApart

(* A step that signs no ban, leaves the boards and sends none that is      *)
(* new.                                                                    *)
LEMMA ApartSendStep ==
    ASSUME BansApart, board' = board, bansSigned \subseteq bansSigned',
           \A u \in inflight' \ inflight : UpdateBans(u) \subseteq AllBans
    PROVE  BansApart'
  <1>1. AllBans' \subseteq AllBans
    BY DEF AllBans
  <1>. QED
    BY <1>1 DEF BansApart

(* An update sent that brings no new ban.                                  *)
LEMMA ApartComposeStep ==
    ASSUME BansApart, NEW n, NEW d, NEW h, Compose(n, d, h), bansSigned' = bansSigned,
           d.bans \subseteq AllBans
    PROVE  BansApart'
  <1>. DEFINE u == [to |-> n, delta |-> d, handler |-> h]
  <1>1. UpdateBans(u) = d.bans
    BY DEF UpdateBans
  <1>2. inflight' = inflight \cup {u} /\ board' = board
    BY DEF Compose, Post
  <1>. QED
    BY <1>1, <1>2, ApartSendStep

(* A whole board sent with no new ban.                                     *)
LEMMA ApartPostStep ==
    ASSUME BansApart, NEW n, NEW s, Post([to |-> n, state |-> s]), bansSigned' = bansSigned,
           s.bans \subseteq AllBans
    PROVE  BansApart'
  <1>. DEFINE u == [to |-> n, state |-> s]
  <1>1. UpdateBans(u) = s.bans
    BY DEF UpdateBans
  <1>2. inflight' = inflight \cup {u} /\ board' = board
    BY DEF Post
  <1>. QED
    BY <1>1, <1>2, ApartSendStep

(* Only BanMember signs a ban, with an id not signed before.               *)
LEMMA WriteApart ==
    ASSUME IInv, BansApart, NEW n \in Nodes, Write(n)
    PROVE  BansApart'
  <1>1. ASSUME NEW p \in Principals, SendMessage(n, p)
        PROVE  BansApart'
    <2>1. PICK d, h : Compose(n, d, h) /\ d.bans = {}
      BY <1>1 DEF SendMessage, EmptyDelta
    <2>. QED
      BY <1>1, <2>1, ApartComposeStep DEF SendMessage
  <1>2. ASSUME NEW p \in Principals, NEW x \in Members, BanMember(n, p, x)
        PROVE  BansApart'
    <2>1. PICK id, h :
            /\ id \notin bansSigned
            /\ bansSigned' = bansSigned \cup {id}
            /\ Compose(n, [EmptyDelta EXCEPT !.bans =
                             {[id |-> id, banned_by |-> p, banned_user |-> x]}], h)
      BY <1>2 DEF BanMember
    <2>. DEFINE ban == [id |-> id, banned_by |-> p, banned_user |-> x]
                d == [EmptyDelta EXCEPT !.bans = {ban}]
                u == [to |-> n, delta |-> d, handler |-> h]
    <2>2. d.bans = {ban} /\ ban.id = id
      BY DEF EmptyDelta
    <2>. HIDE DEF ban
    <2>3. UpdateBans(u) = {ban}
      BY <2>2 DEF UpdateBans
    <2>4. inflight' = inflight \cup {u} /\ board' = board
      BY <2>1 DEF Compose, Post, ban
    <2>. HIDE DEF u
    <2>5. AllBans' \subseteq AllBans \cup {ban}
      BY <2>3, <2>4 DEF AllBans
    <2>. QED
      BY <2>1, <2>2, <2>5 DEF BansApart
  <1>3. ASSUME NEW p \in Principals, NEW nickname \in Nicknames,
               SetNickname(n, p, nickname)
        PROVE  BansApart'
    <2>1. PICK d : /\ SoundDelta(board[n], d) /\ d.bans = {}
                   /\ board' = [board EXCEPT ![n] = Update(board[n], d)]
      BY <1>3, SetNicknameDelta
    <2>2. Update(board[n], d).bans \subseteq AllBans
      BY <2>1, UpdateAddsBans DEF IInv, AllBans
    <2>. QED
      BY <1>3, <2>1, <2>2, ApartBoardStep DEF IInv, SetNickname
  <1>4. ASSUME NEW p \in Members, AcceptInvitation(n, p)
        PROVE  BansApart'
    BY <1>4, ApartSendStep DEF AcceptInvitation, signed
  <1>5. ASSUME NEW x \in Members, AddAdmin(n, x)
        PROVE  BansApart'
    <2>1. PICK d : Compose(n, d, "apply") /\ d.bans = {}
      BY <1>5 DEF AddAdmin, EmptyDelta
    <2>. QED
      BY <1>5, <2>1, ApartComposeStep DEF AddAdmin, signed
  <1>6. ASSUME NEW limit \in BanLimits, UpdateConfiguration(n, limit)
        PROVE  BansApart'
    <2>1. PICK d : Compose(n, d, "apply") /\ d.bans = {}
      BY <1>6 DEF UpdateConfiguration, EmptyDelta
    <2>. QED
      BY <1>6, <2>1, ApartComposeStep DEF UpdateConfiguration, signed
  <1>7. CASE RotateSecret(n)
    <2>1. Rotated(board[n]).bans \subseteq AllBans
      BY RotatedAddsNone DEF IInv, AllBans
    <2>2. board' = [board EXCEPT ![n] = Rotated(board[n])]
      BY <1>7 DEF RotateSecret
    <2>. QED
      BY <1>7, <2>1, <2>2, ApartBoardStep DEF RotateSecret, IInv, signed
  <1>8. ASSUME NEW v \in Upgrades, PublishUpgrade(n, v)
        PROVE  BansApart'
    <2>. DEFINE s == [InitialBoard(FALSE) EXCEPT !.member_info = {}, !.upgrade = v]
    <2>1. s.bans = {}
      BY DEF InitialBoard
    <2>2. Post([to |-> n, state |-> s])
      BY <1>8 DEF PublishUpgrade
    <2>. HIDE DEF s
    <2>. QED
      BY <1>8, <2>1, <2>2, ApartPostStep DEF PublishUpgrade, signed
  <1>. QED
    BY <1>1, <1>2, <1>3, <1>4, <1>5, <1>6, <1>7, <1>8 DEF Write

(* Every step keeps the bans apart.                                        *)
LEMMA NextApart == IInv /\ BansApart /\ [Next]_vars => BansApart'
  <1>. SUFFICES ASSUME IInv, BansApart, [Next]_vars
                PROVE  BansApart'
    OBVIOUS
  <1>1. ASSUME NEW n \in Nodes, NEW k \in Nodes, SendDelta(n, k)
        PROVE  BansApart'
    <2>1. Delta(board[n], board[k]).bans \subseteq AllBans
      BY DEF Delta, AllBans
    <2>. QED
      BY <1>1, <2>1, ApartComposeStep DEF SendDelta, signed
  <1>2. ASSUME NEW n \in Nodes, NEW k \in Nodes, SendState(n, k)
        PROVE  BansApart'
    BY <1>2, ApartPostStep DEF SendState, AllBans, signed
  <1>3. ASSUME NEW n \in Nodes, NEW k \in Nodes, Sync(n, k)
        PROVE  BansApart'
    <2>1. Merge(board[n], board[k]).bans \subseteq AllBans
      BY <1>3, MergeAddsBans DEF Sync, IInv, AllBans
    <2>. QED
      BY <1>3, <2>1, ApartBoardStep DEF Sync, IInv, signed
  <1>4. ASSUME NEW u \in inflight, Receive(u), inflight' \subseteq inflight
        PROVE  BansApart'
    <2>1. PICK t \in Outcomes(board[u.to], u) : board' = [board EXCEPT ![u.to] = t]
      BY <1>4 DEF Receive
    <2>2. t.bans \subseteq AllBans /\ u.to \in Nodes
      BY OutcomeBans, UpdateTypes DEF IInv, TypeOK
    <2>. QED
      BY <1>4, <2>1, <2>2, ApartBoardStep DEF IInv, Receive, signed
  <1>5. ASSUME NEW u \in inflight, Lose(u)
        PROVE  BansApart'
    BY <1>5, ApartSendStep DEF Lose, signed
  <1>6. CASE UNCHANGED vars
    BY <1>6, ApartSendStep DEF vars
  <1>. QED
    BY <1>1, <1>2, <1>3, <1>4, <1>5, <1>6, WriteApart
    DEF Next, Exchange, Deliver, DeliverCopy

(* So they always are.                                                     *)
LEMMA BansStayApart == Spec => []BansApart
  <1>1. Init => BansApart
    BY DEF Init, BansApart, AllBans, InitialBoard
  <1>. QED
    BY <1>1, NextApart, BoardsSound, PTL DEF Spec

---------------------------------------------------------------------------
(* Replicas that can merge.                                                *)

(* A set of numbers has a least one.                                       *)
LEMMA LeastOf ==
    ASSUME NEW T \in SUBSET Nat, T # {}
    PROVE  \E x \in T : \A y \in T : x <= y
  <1>. DEFINE Less == {ss \in Nat \X Nat : ss[1] < ss[2]}
  <1>1. OpToRel(<, Nat) = Less
    BY Zenon DEF OpToRel
  <1>2. IsWellFoundedOn(Less, Nat)
    BY <1>1, NatLessThanWellFounded, Zenon
  <1>3. PICK x \in T : \A y \in T : <<y, x>> \notin Less
    BY <1>2, WFMin, Zenon
  <1>4. \A m, n \in Nat : m < n => <<m, n>> \in Less
    OBVIOUS
  <1>5. \A y \in T : ~(y < x)
    BY <1>3, <1>4
  <1>. QED
    BY <1>5

(* The oldest of the newest bans has all others after it.                  *)
LEMMA NewestWithin ==
    ASSUME NEW bans \in SUBSET Ban, IsFiniteSet(bans), NEW limit \in Nat,
           \A b, c \in bans : b.id = c.id => b = c
    PROVE  Cardinality(NewestBans(bans, limit)) <= limit
  <1>. DEFINE R == NewestBans(bans, limit)
  <1>1. R \in SUBSET bans /\ IsFiniteSet(R)
    <2>1. R \in SUBSET bans
      BY DEF NewestBans
    <2>. QED
      BY <2>1, FS_Subset
  <1>2. CASE R = {}
    BY <1>2, FS_EmptySet
  <1>3. CASE R # {}
    <2>1. PICK b \in R : \A c \in R : b.id <= c.id
      <3>. DEFINE T == {c.id : c \in R}
      <3>1. T \in SUBSET Nat /\ T # {}
        BY <1>1, <1>3 DEF Ban
      <3>2. PICK x \in T : \A y \in T : x <= y
        BY <3>1, LeastOf
      <3>. QED
        BY <3>2
    <2>. DEFINE Later == {c \in bans : c.id > b.id}
    <2>2. Cardinality(Later) < limit
      BY <2>1 DEF NewestBans
    <2>. HIDE DEF R
    <2>3. R \ {b} \subseteq Later
      BY <1>1, <2>1 DEF Ban
    <2>4. IsFiniteSet(Later) /\ Cardinality(R \ {b}) <= Cardinality(Later)
      <3>1. IsFiniteSet(Later)
        BY FS_Subset
      <3>. HIDE DEF Later
      <3>. QED
        BY <2>3, <3>1, FS_Subset
    <2>5. Cardinality(R \ {b}) = Cardinality(R) - 1 /\ Cardinality(R) \in Nat
      BY <1>1, <2>1, FS_RemoveElement, FS_CardinalityType
    <2>6. Cardinality(Later) \in Nat
      BY <2>4, FS_CardinalityType
    <2>7. Cardinality(R) <= limit
      BY <2>2, <2>4, <2>5, <2>6
    <2>. QED
      BY <2>7 DEF R
  <1>. QED
    BY <1>2, <1>3

(* The bans of two boards whose admins are put together are justified      *)
(* whatever members are held.                                              *)
LEMMA JustifiedValid ==
    ASSUME NEW bans, NEW admin, Justified(bans, admin),
           NEW members \in SUBSET Members, ChainsValid(members), NEW b \in bans
    PROVE  BanJustified(b, bans, admin, members)
  <1>1. CASE b.banned_user \in members /\ FromAbove(b) /\ b.banned_by # Owner
    <2>1. b.banned_by \in Required({b.banned_user}, members)
      BY <1>1, AboveHeld DEF FromAbove
    <2>2. Required({b.banned_user}, members) \subseteq members
      BY RequiredFacts
    <2>. QED
      BY <2>1, <2>2 DEF BanJustified, InChainOf
  <1>. QED
    BY <1>1 DEF Justified, BanJustified

(* merge of two public boards whose contents others take is accepted:      *)
(* each part of what the other has more passes the checks of               *)
(* apply_delta.                                                            *)
LEMMA Mergeable ==
    ASSUME NEW s, NEW other, Sound(s), Sound(other),
           Passable(s, FALSE), Passable(other, FALSE),
           Sealed(s, FALSE), Sealed(other, FALSE),
           \A b, c \in s.bans \cup other.bans : b.id = c.id => b = c,
           \/ other.admin \subseteq s.admin
           \/ Cardinality(s.admin \cup other.admin) <= s.configuration.max_admins
    PROVE  MergeAccepts(s, other)
  <1>. DEFINE d == Delta(other, s)
              t == Applied(s, d)
  <1>1. /\ s \in ChatBoardState /\ other \in ChatBoardState
        /\ s.configuration \in Configuration /\ other.configuration \in Configuration
    BY DEF Sound, ChatBoardState
  <1>2. /\ d.configuration = DeltaConfiguration(other, s) /\ d.admin = other.admin \ s.admin
        /\ d.bans = other.bans \ s.bans /\ d.members = other.members \ s.members
        /\ d.member_info = DeltaMemberInfo(other, s)
        /\ d.recent_messages = other.recent_messages \ s.recent_messages
    BY DEF Delta
  <1>3. FoundedDelta(d, s.admin, FALSE)
    BY DeltaFounded DEF Passable
  <1>. DEFINE config == ConfigurationAfter(s.configuration, d.configuration)
              admin == s.admin \cup d.admin
              bans == BansAfter(s.bans, d.bans, config)
  <1>4. /\ t.configuration = config /\ t.admin = admin /\ t.bans = bans
        /\ t.secrets = s.secrets
    BY <1>3 DEF Applied, SecretsAfter, FoundedDelta
  <1>. HIDE DEF d, t
  <1>5. ConfigurationAccepted(s.configuration, d.configuration)
    <2>. SUFFICES ASSUME d.configuration # None
                  PROVE  ConfigurationAccepted(s.configuration, d.configuration)
      BY DEF ConfigurationAccepted
    <2>1. /\ d.configuration = other.configuration
          /\ other.configuration.configuration_version > s.configuration.configuration_version
      BY <1>2 DEF DeltaConfiguration
    <2>2. other.configuration.configuration_version # InitialConfiguration.configuration_version
      BY <1>1, <2>1, ConfigurationAssumption DEF Sealed, Configuration
    <2>. QED
      BY <2>1, <2>2 DEF Passable, Positive, ConfigurationAccepted
  <1>6. config \in Configuration /\ SameSizes(config) /\ config.private = FALSE
    BY <1>1, <1>2, <1>3
    DEF ConfigurationAfter, DeltaConfiguration, FoundedDelta, Passable, Founded, Sealed
  <1>. HIDE DEF config
  <1>7. AdminAccepted(s.admin, d.admin, config)
    <2>1. Owner \notin d.admin
      BY <1>1, <1>2, OwnerAssumption DEF ChatBoardState
    <2>2. d.admin # {} => Cardinality(s.admin \cup other.admin) <= s.configuration.max_admins
      BY <1>2
    <2>3. s.admin \cup d.admin = s.admin \cup other.admin
      BY <1>2
    <2>4. config.max_admins = s.configuration.max_admins
      BY <1>6 DEF SameSizes, Passable, Founded
    <2>. QED
      BY <2>1, <2>2, <2>3, <2>4 DEF AdminAccepted
  <1>8. BansAccepted(s.bans, d.bans, config, admin, s.members)
    <2>. SUFFICES ASSUME d.bans # {}
                  PROVE  BansValid(bans, config, admin, s.members)
      BY <1>2 DEF BansAccepted
    <2>1. bans = NewestBans(s.bans \cup d.bans, config.max_user_bans)
      BY DEF BansAfter
    <2>2. Justified(bans, admin)
      BY <1>3, <2>1 DEF NewestBans, Justified, FoundedDelta, Passable, Founded
    <2>3. Cardinality(bans) <= config.max_user_bans
      <3>. DEFINE all == s.bans \cup d.bans
      <3>1. all \in SUBSET Ban /\ \A b, c \in all : b.id = c.id => b = c
        BY <1>1, <1>2 DEF ChatBoardState
      <3>2. IsFiniteSet(all)
        <4>1. IsFiniteSet(s.bans) /\ IsFiniteSet(d.bans)
          BY <1>2, FS_Subset DEF Sound
        <4>. QED
          BY <4>1, FS_Union
      <3>3. config.max_user_bans \in Nat
        BY <1>6 DEF Configuration
      <3>. HIDE DEF all
      <3>. QED
        BY <2>1, <3>1, <3>2, <3>3, NewestWithin DEF all
    <2>4. s.members \in SUBSET Members /\ ChainsValid(s.members)
      BY DEF Sound, ChatBoardState
    <2>. HIDE DEF bans, admin
    <2>. QED
      BY <2>2, <2>3, <2>4, JustifiedValid DEF BansValid
  <1>9. MembersAccepted(s.members, d.members)
    <2>1. other.members \subseteq Rooted(s.members \cup d.members)
      <3>1. other.members \subseteq s.members \cup d.members
        BY <1>2
      <3>. QED
        BY <3>1, RootedMonotonic DEF Sound, ChainsValid
    <2>. QED
      BY <1>2, <2>1 DEF MembersAccepted
  <1>10. MemberInfoAccepted(d.member_info, config)
    <2>. SUFFICES ASSUME NEW i \in d.member_info
                  PROVE  i.nickname <= InitialConfiguration.max_nickname_size
      BY <1>6 DEF MemberInfoAccepted, SameSizes
    <2>1. i \in other.member_info /\ i \in MemberInfo
      BY <1>1, <1>2 DEF DeltaMemberInfo, ChatBoardState
    <2>2. PICK j \in s.member_info : j.member_id = Owner
      BY DEF Passable
    <2>3. i.member_id = Owner => i.version > j.version /\ j.version \in Nat
      BY <1>1, <1>2, <2>2 DEF DeltaMemberInfo, ChatBoardState, MemberInfo
    <2>4. ~(i.member_id = Owner /\ i.version = 0)
      BY <2>3
    <2>. QED
      BY <2>1, <2>4 DEF Passable, NicknameFits
  <1>11. SecretsAccepted(s.secrets, d.secrets, t.members)
    BY <1>3 DEF FoundedDelta, SecretsAccepted
  <1>12. ASSUME NEW m \in d.recent_messages
         PROVE  MessageAccepted(m, config, s.secrets, t.members)
    <2>1. m.title <= config.max_title_size
      BY <1>2, <1>6 DEF Passable, SameSizes
    <2>2. CompleteDistribution(s.secrets, t.members)
      BY DEF CompleteDistribution, Passable, Founded, Sound, VerifySecrets
    <2>. QED
      BY <1>6, <2>1, <2>2 DEF MessageAccepted
  <1>. QED
    BY <1>4, <1>5, <1>7, <1>8, <1>9, <1>10, <1>11, <1>12 DEF MergeAccepts, Accepts, d, t

(* The board is public, and the admins of any two replicas are not more    *)
(* than there may be, unless one holds those of the other.                 *)
PublicWithinLimit ==
    \A n, k \in Nodes :
        /\ ~board[n].configuration.private
        /\ \/ board[k].admin \subseteq board[n].admin
           \/ Cardinality(board[n].admin \cup board[k].admin) <= board[n].configuration.max_admins

(* What merge (board_state.rs) asks of another replica of the board,       *)
(* every replica fulfils, whatever its users wrote and however late its    *)
(* updates come: while the board is public and the admins of two           *)
(* replicas together are not more than max_admins, their merge is          *)
(* accepted. A private replica that has rotated its secret refuses         *)
(* messages sealed with the older one.                                     *)
THEOREM PublicBoardsMerge == Spec => [](PublicWithinLimit => ReplicasMergeable)
  <1>1. ASSUME IInv, Exchangeable, BansApart, PublicWithinLimit, NEW n \in Nodes, NEW k \in Nodes
        PROVE  MergeAccepts(board[n], board[k])
    <2>1. PICK private \in BOOLEAN : SInv(private) /\ PInv(private)
      BY <1>1 DEF Exchangeable
    <2>2. private = FALSE
      BY <1>1, <2>1 DEF PublicWithinLimit, SInv, Sealed
    <2>. DEFINE s == board[n]
                other == board[k]
    <2>3. \A b, c \in s.bans \cup other.bans : b.id = c.id => b = c
      BY <1>1 DEF BansApart, AllBans
    <2>4. /\ Sound(s) /\ Sound(other) /\ Sealed(s, FALSE) /\ Sealed(other, FALSE)
          /\ Passable(s, FALSE) /\ Passable(other, FALSE)
      BY <1>1, <2>1, <2>2 DEF IInv, SInv, PInv
    <2>5. \/ other.admin \subseteq s.admin
          \/ Cardinality(s.admin \cup other.admin) <= s.configuration.max_admins
      BY <1>1 DEF PublicWithinLimit
    <2>. HIDE DEF s, other
    <2>6. MergeAccepts(s, other)
      BY <2>3, <2>4, <2>5, Mergeable
    <2>. QED
      BY <2>6 DEF s, other
  <1>2. IInv /\ Exchangeable /\ BansApart => (PublicWithinLimit => ReplicasMergeable)
    BY <1>1 DEF ReplicasMergeable
  <1>. QED
    BY <1>2, BoardsSound, AlwaysExchangeable, BansStayApart, PTL

---------------------------------------------------------------------------
(* A message of somebody who is provided for, alone if p is a member,      *)
(* otherwise with p's invitations and nickname.                            *)
LEMMA ProvidedPosts ==
    ASSUME NEW n \in Nodes, Sound(board[n]), Tidy(board[n]), TypeOK, OwnInvitations,
           \A b \in board[n].bans : b.banned_user \in Members,
           NEW p \in Principals, MayParticipate(p, board[n]), Provided(p, board[n]),
           NEW m, m = ComposedMessage(0, p, board[n], 0, 0),
           NEW d \in Rejoined([EmptyDelta EXCEPT !.recent_messages = {m}], p, board[n])
    PROVE  Accepts(board[n], d) /\ m \in Apply(board[n], d).recent_messages
  <1>. DEFINE s == board[n]
              e == [EmptyDelta EXCEPT !.recent_messages = {m}]
              all == MembersAfter(s.members, d.members, s.bans)
  <1>1. s \in ChatBoardState /\ s.secrets.current_version \in Nat
        /\ s.configuration.max_message_size \in Nat /\ s.configuration.max_title_size \in Nat
    BY DEF Sound, ChatBoardState, Secrets, Configuration
  <1>2. /\ m.author = p /\ m.secret_version = SealedWith(p, s) /\ m.size = 0 /\ m.title = 0
        /\ m \in Message
    <2>1. SealedWith(p, s) \in Nat \cup {None}
      BY <1>1 DEF SealedWith
    <2>. HIDE DEF s
    <2>. QED
      BY <2>1 DEF ComposedMessage, Message, s
  <1>3. /\ e \in ChatBoardStateDelta /\ e.recent_messages = {m}
        /\ e.configuration = None /\ e.admin = {} /\ e.bans = {} /\ e.secrets = None
        /\ e.members = {} /\ e.member_info = {}
    BY <1>2, EmptyDeltaType DEF EmptyDelta, ChatBoardStateDelta
  <1>. HIDE DEF e
  <1>4. MembersAfter(s.members, {}, s.bans) = s.members
    BY DEF MembersAfter, Tidy
  <1>5. CASE p \in Participants(s.members)
    <2>1. d = e
      BY <1>5 DEF Rejoined, e
    <2>2. all = s.members
      BY <1>3, <1>4, <2>1
    <2>. HIDE DEF all
    <2>3. MessageAccepted(m, s.configuration, s.secrets, all)
      <3>1. CASE s.configuration.private
        <4>1. SealedWith(p, s) = s.secrets.current_version /\ CompleteDistribution(s.secrets, all)
          BY <2>2, <3>1 DEF Provided, SealedWith
        <4>. QED
          BY <1>1, <1>2, <3>1, <4>1, NoneAssumption DEF MessageAccepted
      <3>2. CASE ~s.configuration.private
        BY <1>1, <1>2, <3>2 DEF MessageAccepted, SealedWith
      <3>. QED
        BY <3>1, <3>2
    <2>4. MemberInfoAccepted(d.member_info, s.configuration)
      BY <1>3, <2>1 DEF MemberInfoAccepted
    <2>5. m.author \in Participants(all) /\ d.members \subseteq Rooted(s.members \cup d.members)
      BY <1>2, <1>3, <1>5, <2>1, <2>2
    <2>. HIDE DEF s
    <2>6. Accepts(s, d) /\ m \in Apply(s, d).recent_messages
      <3>1. m.size <= s.configuration.max_message_size
        BY <1>1, <1>2
      <3>. QED
        BY <1>1, <1>3, <2>1, <2>3, <2>4, <2>5, <3>1, MessageKept DEF all
    <2>. QED
      BY <2>6 DEF s
  <1>6. CASE p \notin Participants(s.members)
    <2>1. /\ p \in Members /\ stored[p] # {} /\ p \in stored[p] /\ stored[p] \in SUBSET Members
      <3>1. p \in Members /\ stored[p] # {}
        BY <1>6 DEF MayParticipate, Participants, Principals
      <3>2. p \in Required({p}, Members)
        BY <3>1, RequiredFacts
      <3>3. stored[p] \in {{p}, Required({p}, Members)}
        BY <3>1 DEF OwnInvitations
      <3>. QED
        BY <3>1, <3>2, <3>3, RequiredFacts
    <2>2. PICK i \in infosSigned :
            /\ i.member_id = p
            /\ d = [e EXCEPT !.members = stored[p] \ s.members, !.member_info = {i}]
      BY <1>6, <2>1 DEF Rejoined, e
    <2>3. stored[p] \ s.members \in SUBSET Members /\ {i} \in SUBSET MemberInfo
      BY <2>1 DEF TypeOK
    <2>4. /\ d \in ChatBoardStateDelta /\ d.recent_messages = {m}
          /\ d.configuration = None /\ d.admin = {} /\ d.bans = {} /\ d.secrets = None
          /\ d.members = stored[p] \ s.members /\ d.member_info = {i}
      BY <1>3, <2>2, <2>3 DEF ChatBoardStateDelta
    <2>5. ChainsValid(stored[p]) /\ stored[p] \cap BannedUsers(s.bans) = {}
      BY <1>6 DEF Provided
    <2>6. Owner \notin BannedUsers(s.bans)
      BY OwnerAssumption DEF BannedUsers
    <2>7. p \in all
      <3>1. s.members \in SUBSET Members
        BY <1>1 DEF ChatBoardState
      <3>2. stored[p] \subseteq MembersAfter(s.members, stored[p] \ s.members, s.bans)
        BY <2>1, <2>5, <2>6, <3>1, InvitedStay
      <3>. QED
        BY <2>1, <2>4, <3>2
    <2>8. d.members \subseteq Rooted(s.members \cup d.members)
      <3>1. stored[p] \subseteq s.members \cup d.members
        BY <2>4
      <3>2. stored[p] \subseteq Rooted(s.members \cup d.members)
        BY <2>5, <3>1, RootedMonotonic DEF ChainsValid
      <3>. QED
        BY <2>4, <3>2
    <2>9. ~s.configuration.private /\ MemberInfoAccepted(d.member_info, s.configuration)
      BY <1>6, <2>2, <2>4 DEF Provided, MemberInfoAccepted
    <2>. HIDE DEF all
    <2>10. MessageAccepted(m, s.configuration, s.secrets, all)
      BY <1>1, <1>2, <2>9 DEF MessageAccepted, SealedWith
    <2>11. m.author \in Participants(all) /\ m.size <= s.configuration.max_message_size
      BY <1>1, <1>2, <2>7 DEF Participants
    <2>. HIDE DEF s
    <2>12. Accepts(s, d) /\ m \in Apply(s, d).recent_messages
      BY <1>1, <2>4, <2>8, <2>9, <2>10, <2>11, MessageKept DEF all
    <2>. QED
      BY <2>12 DEF s
  <1>. QED
    BY <1>5, <1>6

(* Every device of a participant has what its messages need.               *)
EveryoneProvided ==
    \A p \in Principals : \A n \in Devices[p] :
        MayParticipate(p, board[n]) => Provided(p, board[n])

(* Whoever can_participate (board_data.rs) lets write, and who has what    *)
(* Provided asks, can write: the message the client composes, with the     *)
(* invitations and the nickname that rejoining adds, is accepted by the    *)
(* client's own replica and kept. Nothing else the board goes through      *)
(* makes apply_delta refuse it.                                            *)
THEOREM ProvidedCanPost == Spec => [](EveryoneProvided => ParticipantsCanPost)
  <1>1. ASSUME IInv, Exchangeable, OwnInvitations, EveryoneProvided
        PROVE  ParticipantsCanPost
    <2>. SUFFICES ASSUME NEW p \in Principals, NEW n \in Devices[p], MayParticipate(p, board[n]),
                         NEW m, m = ComposedMessage(0, p, board[n], 0, 0),
                         NEW d \in Rejoined([EmptyDelta EXCEPT !.recent_messages = {m}], p, board[n])
                  PROVE  Accepts(board[n], d) /\ m \in Apply(board[n], d).recent_messages
      BY DEF ParticipantsCanPost
    <2>1. n \in Nodes
      BY DevicesAssumption
    <2>2. Sound(board[n]) /\ Tidy(board[n]) /\ \A b \in board[n].bans : b.banned_user \in Members
      BY <1>1, <2>1 DEF IInv, Exchangeable, SInv, PInv, Passable, Founded, Justified
    <2>3. Provided(p, board[n])
      BY <1>1 DEF EveryoneProvided
    <2>. QED
      BY <1>1, <2>1, <2>2, <2>3, ProvidedPosts DEF IInv
  <1>2. IInv /\ Exchangeable /\ OwnInvitations => (EveryoneProvided => ParticipantsCanPost)
    BY <1>1
  <1>. QED
    BY <1>2, BoardsSound, AlwaysExchangeable, InvitationsKept, PTL

---------------------------------------------------------------------------
(* A public board stays public.                                            *)
LEMMA PublicStays ==
    ASSUME Privacies \subseteq {FALSE}
    PROVE  Spec => [](\A n \in Nodes : ~board[n].configuration.private)
  <1>1. Init => SInv(FALSE)
    BY InitSInv DEF Init
  <1>2. IInv /\ SInv(FALSE) /\ [Next]_vars => SInv(FALSE)'
    BY NextSInv
  <1>3. SInv(FALSE) => \A n \in Nodes : ~board[n].configuration.private
    BY DEF SInv, Sealed
  <1>. QED
    BY <1>1, <1>2, <1>3, BoardsSound, PTL DEF Spec

(* Replicas of a public board always merge, if all members may become      *)
(* admins together: merge (board_state.rs) never refuses another           *)
(* replica.                                                                *)
THEOREM ReplicasMerge ==
    ASSUME Privacies \subseteq {FALSE}, Cardinality(Members) <= InitialConfiguration.max_admins
    PROVE  Spec => []ReplicasMergeable
  <1>1. ASSUME IInv, Exchangeable, \A n \in Nodes : ~board[n].configuration.private
        PROVE  PublicWithinLimit
    <2>. SUFFICES ASSUME NEW n \in Nodes, NEW k \in Nodes
                  PROVE  Cardinality(board[n].admin \cup board[k].admin)
                            <= board[n].configuration.max_admins
      BY <1>1 DEF PublicWithinLimit
    <2>. DEFINE admins == board[n].admin \cup board[k].admin
    <2>1. admins \in SUBSET Members
      BY <1>1 DEF IInv, Sound, ChatBoardState
    <2>2. board[n].configuration.max_admins = InitialConfiguration.max_admins
      BY <1>1 DEF Exchangeable, PInv, Passable, Founded, SameSizes
    <2>. HIDE DEF admins
    <2>3. IsFiniteSet(admins) /\ Cardinality(admins) <= Cardinality(Members)
      BY <2>1, MembersAssumption, FS_Subset
    <2>4. Cardinality(admins) \in Nat /\ Cardinality(Members) \in Nat
          /\ InitialConfiguration.max_admins \in Nat
      BY <2>3, MembersAssumption, FS_CardinalityType, ConfigurationAssumption DEF Configuration
    <2>5. Cardinality(admins) <= InitialConfiguration.max_admins
      BY <2>3, <2>4
    <2>. QED
      BY <2>2, <2>5 DEF admins
  <1>. QED
    BY <1>1, PublicStays, PublicBoardsMerge, BoardsSound, AlwaysExchangeable, PTL

(* Nicknames are among those users choose.                                 *)
NicknamesChosen == \A i \in infosSigned : i.nickname \in Nicknames

(* So they always are: SetNickname alone signs another.                    *)
LEMMA NicknamesStay == Spec => []NicknamesChosen
  <1>1. Init => NicknamesChosen
    BY LengthsAssumption DEF Init, NicknamesChosen, FirstInfo
  <1>2. ASSUME TypeOK, NicknamesChosen, NEW n \in Nodes, NEW p \in Principals,
               NEW nickname \in Nicknames, SetNickname(n, p, nickname)
        PROVE  NicknamesChosen'
    <2>. DEFINE next(i) == [i EXCEPT !.version = @ + 1, !.nickname = nickname]
    <2>1. PICK i \in board[n].member_info : infosSigned' = infosSigned \cup {next(i)}
      BY <1>2 DEF SetNickname
    <2>2. i \in MemberInfo
      BY <1>2, <2>1 DEF TypeOK, ChatBoardState
    <2>3. next(i).nickname = nickname
      BY <2>2 DEF MemberInfo
    <2>. QED
      BY <1>2, <2>1, <2>3 DEF NicknamesChosen
  <1>3. ASSUME infosSigned' = infosSigned, NicknamesChosen
        PROVE  NicknamesChosen'
    BY <1>3 DEF NicknamesChosen
  <1>4. TypeOK /\ NicknamesChosen /\ [Next]_vars => NicknamesChosen'
    BY <1>2, <1>3
    DEF Next, Write, Exchange, SendMessage, BanMember, AcceptInvitation, AddAdmin,
        UpdateConfiguration, RotateSecret, PublishUpgrade, SendDelta, SendState, Sync, Deliver,
        DeliverCopy, Receive, Lose, vars, signed
  <1>. QED
    BY <1>1, <1>4, TypeCorrect, PTL DEF Spec

(* On a public board whose members the owner invited herself, everybody    *)
(* whom can_participate (board_data.rs) lets write can write, members      *)
(* pruned for inactivity included: the invitation kept is the whole        *)
(* chain. A longer chain may be incomplete, or hold somebody banned        *)
(* since.                                                                  *)
THEOREM DirectInviteesCanPost ==
    ASSUME Privacies \subseteq {FALSE}, \A m \in Members : Inviter[m] = Owner,
           \A k \in Nicknames : k <= InitialConfiguration.max_nickname_size
    PROVE  Spec => []ParticipantsCanPost
  <1>1. ASSUME Exchangeable, OwnInvitations, NicknamesChosen,
               \A n \in Nodes : ~board[n].configuration.private
        PROVE  EveryoneProvided
    <2>. SUFFICES ASSUME NEW p \in Principals, NEW n \in Devices[p],
                         MayParticipate(p, board[n]), p \notin Participants(board[n].members)
                  PROVE  /\ ChainsValid(stored[p])
                         /\ stored[p] \cap BannedUsers(board[n].bans) = {}
                         /\ \A i \in infosSigned :
                                i.nickname <= board[n].configuration.max_nickname_size
      BY <1>1, DevicesAssumption DEF EveryoneProvided, Provided
    <2>1. p \in Members /\ n \in Nodes /\ Inviter[p] = Owner
      BY DevicesAssumption DEF Participants, Principals
    <2>2. stored[p] = {p}
      <3>1. stored[p] \in {{p}, Required({p}, Members)}
        BY <1>1, <2>1 DEF MayParticipate, OwnInvitations
      <3>2. Required({p}, Members) = {p}
        BY <2>1, AboveIs, OwnerAssumption
      <3>. QED
        BY <3>1, <3>2
    <2>3. ChainsValid({p})
      BY <2>1 DEF ChainsValid, Rooted, Reached, ClosedUnder
    <2>4. p \notin BannedUsers(board[n].bans)
      BY DEF MayParticipate
    <2>5. board[n].configuration.max_nickname_size = InitialConfiguration.max_nickname_size
      BY <1>1, <2>1 DEF Exchangeable, PInv, Passable, Founded, SameSizes
    <2>. QED
      BY <1>1, <2>2, <2>3, <2>4, <2>5 DEF NicknamesChosen
  <1>. QED
    BY <1>1, PublicStays, ProvidedCanPost, AlwaysExchangeable, InvitationsKept, NicknamesStay, PTL

---------------------------------------------------------------------------
(* What a merge makes of two public boards.                                *)

(* Bans within the limit are all kept.                                     *)
LEMMA NewestKeepAll ==
    ASSUME NEW bans, IsFiniteSet(bans), NEW limit \in Nat, Cardinality(bans) <= limit,
           \A b \in bans : b.id \in Nat
    PROVE  NewestBans(bans, limit) = bans
  <1>. SUFFICES ASSUME NEW b \in bans
                PROVE  Cardinality({c \in bans : c.id > b.id}) < limit
    BY DEF NewestBans
  <1>. DEFINE newer == {c \in bans : c.id > b.id}
  <1>1. newer \in SUBSET (bans \ {b})
    OBVIOUS
  <1>2. IsFiniteSet(bans \ {b}) /\ Cardinality(bans \ {b}) = Cardinality(bans) - 1
    BY FS_RemoveElement
  <1>. HIDE DEF newer
  <1>3. IsFiniteSet(newer) /\ Cardinality(newer) <= Cardinality(bans \ {b})
    BY <1>1, <1>2, FS_Subset
  <1>4. Cardinality(bans) \in Nat /\ Cardinality(newer) \in Nat
    BY <1>3, FS_CardinalityType
  <1>. QED
    BY <1>2, <1>3, <1>4 DEF newer

(* The bans held after a merge: the newest of both.                        *)
LEMMA MergedBans ==
    ASSUME NEW bans, NEW others, NEW config, IsFiniteSet(bans),
           config.max_user_bans \in Nat, Cardinality(bans) <= config.max_user_bans,
           \A b \in bans : b.id \in Nat
    PROVE  BansAfter(bans, others \ bans, config)
              = NewestBans(bans \cup others, config.max_user_bans)
  <1>1. CASE others \ bans = {}
    <2>1. bans \cup others = bans
      BY <1>1
    <2>. QED
      BY <1>1, <2>1, NewestKeepAll DEF BansAfter
  <1>2. CASE others \ bans # {}
    <2>1. bans \cup (others \ bans) = bans \cup others
      OBVIOUS
    <2>. QED
      BY <1>2, <2>1 DEF BansAfter
  <1>. QED
    BY <1>1, <1>2

(* The newest info of everybody who takes part.                            *)
NewestInfos(infos, members) ==
    {i \in infos :
        /\ i.member_id \in Participants(members)
        /\ \A j \in infos : j.member_id = i.member_id => i.version >= j.version}

(* No info of one is disputed by one of the other: of the same member and  *)
(* version, but different.                                                 *)
InfosApart(infos, others) ==
    \A i \in infos, j \in others :
        i.member_id = j.member_id /\ i.version = j.version => i = j

(* The infos held after a merge.                                           *)
LEMMA MergedInfos ==
    ASSUME NEW s, NEW other, NEW members,
           s.member_info \in SUBSET MemberInfo, other.member_info \in SUBSET MemberInfo,
           OneInfoEach(s.member_info), OneInfoEach(other.member_info),
           InfosApart(s.member_info, other.member_info)
    PROVE  MemberInfoAfter(s.member_info, DeltaMemberInfo(other, s), members)
              = NewestInfos(s.member_info \cup other.member_info, members)
  <1>. DEFINE mine == s.member_info
              theirs == other.member_info
              new == DeltaMemberInfo(other, s)
  <1>1. new = {i \in theirs : \A j \in mine : j.member_id = i.member_id => i.version > j.version}
    BY DEF DeltaMemberInfo
  <1>2. \A i \in mine \cup theirs : i.version \in Nat
    BY DEF MemberInfo
  <1>. HIDE DEF mine, theirs, new
  <1>3. /\ \A i, j \in mine : i.member_id = j.member_id => i = j
        /\ \A i, j \in theirs : i.member_id = j.member_id => i = j
        /\ \A i \in mine, j \in theirs :
              i.member_id = j.member_id /\ i.version = j.version => i = j
    BY DEF OneInfoEach, InfosApart, mine, theirs
  <1>. DEFINE after == MemberInfoAfter(mine, new, members)
              newest == NewestInfos(mine \cup theirs, members)
  <1>4. ASSUME NEW i \in after
        PROVE  i \in newest
    <2>1. CASE i \in mine
      <3>1. \A j \in new : j.member_id = i.member_id => ~(j.version > i.version)
        BY <1>4, <2>1, <1>1, <1>2, <1>3 DEF MemberInfoAfter
      <3>2. \A j \in theirs : j.member_id = i.member_id => i.version >= j.version
        BY <1>1, <1>2, <1>3, <2>1, <3>1
      <3>3. \A j \in mine : j.member_id = i.member_id => i.version >= j.version
        BY <1>2, <1>3, <2>1
      <3>. QED
        BY <1>4, <2>1, <3>2, <3>3 DEF MemberInfoAfter, NewestInfos
    <2>2. CASE i \in new
      BY <1>4, <2>2, <1>1, <1>2, <1>3 DEF MemberInfoAfter, NewestInfos
    <2>. QED
      BY <1>4, <2>1, <2>2 DEF MemberInfoAfter
  <1>5. ASSUME NEW i \in newest
        PROVE  i \in after
    <2>1. CASE i \in mine
      <3>1. \A j \in new : j.member_id = i.member_id => ~(j.version > i.version)
        BY <1>5, <2>1, <1>1, <1>2 DEF NewestInfos
      <3>. QED
        BY <1>5, <2>1, <3>1 DEF MemberInfoAfter, NewestInfos
    <2>2. CASE i \in theirs /\ i \notin mine
      <3>1. i \in new
        BY <1>5, <2>2, <1>1, <1>2, <1>3 DEF NewestInfos
      <3>. QED
        BY <1>1, <1>5, <2>2, <3>1 DEF MemberInfoAfter, NewestInfos
    <2>. QED
      BY <2>1, <2>2 DEF NewestInfos
  <1>6. after = newest
    BY <1>4, <1>5
  <1>. QED
    BY <1>6 DEF mine, theirs, new

(* The newer of two configurations.                                        *)
Newer(config, other) ==
    IF other.configuration_version > config.configuration_version THEN other ELSE config

(* What merge makes of two public boards, before the cleanup.              *)
MergedBoard(s, other) ==
    LET config == Newer(s.configuration, other.configuration)
        bans == NewestBans(s.bans \cup other.bans, config.max_user_bans)
        members == MembersAfter(s.members, other.members, bans)
    IN  [configuration |-> config,
         admin |-> s.admin \cup other.admin,
         bans |-> bans,
         members |-> members,
         member_info |-> NewestInfos(s.member_info \cup other.member_info, members),
         secrets |-> s.secrets,
         recent_messages |->
            MessagesAfter(s.recent_messages, other.recent_messages, config, members),
         upgrade |-> IF other.upgrade # None /\ (s.upgrade = None \/ other.upgrade > s.upgrade)
                     THEN other.upgrade ELSE s.upgrade]

(* A public board has no secrets.                                          *)
NoSecrets(s) == s.secrets = [current_version |-> 0, versions |-> {}, blobs |-> {}]

(* Two boards between which neither the configuration, nor the limit of    *)
(* bans, nor an info is in dispute.                                        *)
InStep(s, other) ==
    /\ s.configuration.configuration_version = other.configuration.configuration_version
          => s.configuration = other.configuration
    /\ InfosApart(s.member_info, other.member_info)
    /\ \A limit \in {s.configuration.max_user_bans, other.configuration.max_user_bans} :
          Cardinality(s.bans) <= limit /\ Cardinality(other.bans) <= limit

(* merge makes that of them, whatever each has more than the other.        *)
LEMMA MergedIs ==
    ASSUME NEW s, NEW other, Sound(s), Sound(other), Tidy(s),
           NoSecrets(s), NoSecrets(other), InStep(s, other)
    PROVE  Merge(s, other) = Cleanup(MergedBoard(s, other))
  <1>. DEFINE d == Delta(other, s)
              t == Applied(s, d)
              u == MergedBoard(s, other)
  <1>1. s \in ChatBoardState /\ other \in ChatBoardState
    BY DEF Sound
  <1>2. Merge(s, other) = Apply(s, d)
    BY <1>1, TidySettled DEF Merge
  <1>3. /\ d.configuration = DeltaConfiguration(other, s) /\ d.admin = other.admin \ s.admin
        /\ d.bans = other.bans \ s.bans /\ d.members = other.members \ s.members
        /\ d.member_info = DeltaMemberInfo(other, s)
        /\ d.secrets = DeltaSecrets(other, s)
        /\ d.recent_messages = other.recent_messages \ s.recent_messages
        /\ d.upgrade = DeltaUpgrade(other, s)
    BY DEF Delta
  <1>. HIDE DEF d
  <1>4. ConfigurationAfter(s.configuration, d.configuration)
            = Newer(s.configuration, other.configuration)
    BY <1>1, <1>3, NoneAssumption
    DEF ConfigurationAfter, DeltaConfiguration, Newer, ChatBoardState
  <1>. DEFINE config == Newer(s.configuration, other.configuration)
              bans == NewestBans(s.bans \cup other.bans, config.max_user_bans)
              members == MembersAfter(s.members, other.members, bans)
  <1>5. BansAfter(s.bans, d.bans, config) = bans
    <2>1. /\ config.max_user_bans \in Nat /\ IsFiniteSet(s.bans)
          /\ Cardinality(s.bans) <= config.max_user_bans
          /\ \A b \in s.bans : b.id \in Nat
      BY <1>1 DEF Newer, InStep, ChatBoardState, Configuration, Ban, Sound
    <2>. HIDE DEF config
    <2>2. BansAfter(s.bans, other.bans \ s.bans, config) = bans
      BY <2>1, MergedBans
    <2>. QED
      BY <2>2, <1>3
  <1>6. MembersAfter(s.members, d.members, bans) = members
    <2>1. s.members \cup (other.members \ s.members) = s.members \cup other.members
      OBVIOUS
    <2>. QED
      BY <1>3, <2>1 DEF MembersAfter
  <1>7. MemberInfoAfter(s.member_info, d.member_info, members)
            = NewestInfos(s.member_info \cup other.member_info, members)
    <2>. HIDE DEF members
    <2>. QED
      BY <1>1, <1>3, MergedInfos DEF InStep, Sound, ChatBoardState
  <1>8. SecretsAfter(s.secrets, d.secrets, members) = s.secrets
    BY <1>3 DEF DeltaSecrets, SecretsAfter, NoSecrets
  <1>9. MessagesAfter(s.recent_messages, d.recent_messages, config, members)
            = MessagesAfter(s.recent_messages, other.recent_messages, config, members)
    <2>1. s.recent_messages \cup (other.recent_messages \ s.recent_messages)
            = s.recent_messages \cup other.recent_messages
      OBVIOUS
    <2>. QED
      BY <1>3, <2>1 DEF MessagesAfter
  <1>10. s.admin \cup d.admin = s.admin \cup other.admin
    BY <1>3
  <1>11. (IF d.upgrade = None THEN s.upgrade ELSE d.upgrade) = u.upgrade
    BY <1>3 DEF DeltaUpgrade, MergedBoard
  <1>. HIDE DEF config, members, bans
  <1>12. t.configuration = config /\ t.bans = bans /\ t.members = members
    BY <1>4, <1>5, <1>6 DEF Applied, config, bans
  <1>13. t = u
    <2>1. t.member_info = NewestInfos(s.member_info \cup other.member_info, members)
          /\ t.secrets = s.secrets
          /\ t.recent_messages = MessagesAfter(s.recent_messages, other.recent_messages, config, members)
      BY <1>12, <1>7, <1>8, <1>9 DEF Applied
    <2>2. t.admin = s.admin \cup other.admin /\ t.upgrade = u.upgrade
      BY <1>10, <1>11 DEF Applied
    <2>3. t = [configuration |-> t.configuration, admin |-> t.admin, bans |-> t.bans,
               members |-> t.members, member_info |-> t.member_info, secrets |-> t.secrets,
               recent_messages |-> t.recent_messages, upgrade |-> t.upgrade]
      BY DEF Applied
    <2>4. u = [configuration |-> config, admin |-> s.admin \cup other.admin, bans |-> bans,
               members |-> members,
               member_info |-> NewestInfos(s.member_info \cup other.member_info, members),
               secrets |-> s.secrets,
               recent_messages |->
                  MessagesAfter(s.recent_messages, other.recent_messages, config, members),
               upgrade |-> u.upgrade]
      BY DEF MergedBoard, config, bans, members
    <2>. HIDE DEF t, u
    <2>. QED
      BY <1>12, <2>1, <2>2, <2>3, <2>4
  <1>. QED
    BY <1>2, <1>13 DEF Apply

(* And it is the same either way.                                          *)
LEMMA MergedEither ==
    ASSUME NEW s, NEW other, Sound(s), Sound(other),
           NoSecrets(s), NoSecrets(other), InStep(s, other)
    PROVE  MergedBoard(s, other) = MergedBoard(other, s)
  <1>1. Newer(s.configuration, other.configuration) = Newer(other.configuration, s.configuration)
    BY DEF Newer, InStep, Sound, ChatBoardState, Configuration
  <1>2. /\ s.bans \cup other.bans = other.bans \cup s.bans
        /\ s.admin \cup other.admin = other.admin \cup s.admin
        /\ s.member_info \cup other.member_info = other.member_info \cup s.member_info
        /\ s.members \cup other.members = other.members \cup s.members
        /\ s.recent_messages \cup other.recent_messages = other.recent_messages \cup s.recent_messages
    OBVIOUS
  <1>3. \A bans : MembersAfter(s.members, other.members, bans)
                    = MembersAfter(other.members, s.members, bans)
    BY <1>2 DEF MembersAfter
  <1>4. \A config, members :
            MessagesAfter(s.recent_messages, other.recent_messages, config, members)
              = MessagesAfter(other.recent_messages, s.recent_messages, config, members)
    BY <1>2 DEF MessagesAfter
  <1>5. (IF other.upgrade # None /\ (s.upgrade = None \/ other.upgrade > s.upgrade)
         THEN other.upgrade ELSE s.upgrade)
        = (IF s.upgrade # None /\ (other.upgrade = None \/ s.upgrade > other.upgrade)
           THEN s.upgrade ELSE other.upgrade)
    BY NoneAssumption DEF Sound, ChatBoardState
  <1>6. s.secrets = other.secrets
    BY DEF NoSecrets
  <1>. QED
    BY <1>1, <1>2, <1>3, <1>4, <1>5, <1>6 DEF MergedBoard

---------------------------------------------------------------------------
(* The infos there are, on boards and under way: each was signed.          *)

(* The infos an update brings.                                             *)
UpdateInfos(u) == IF "state" \in DOMAIN u THEN u.state.member_info ELSE u.delta.member_info

(* All infos were signed.                                                  *)
InfosKnown ==
    /\ \A n \in Nodes : board[n].member_info \subseteq infosSigned
    /\ \A u \in inflight : UpdateInfos(u) \subseteq infosSigned

(* No update adds an info but those it brings.                             *)
LEMMA ApplyInfos ==
    ASSUME NEW s, NEW d, Sound(s), SoundDelta(s, d), Accepts(s, d)
    PROVE  Apply(s, d).member_info \subseteq s.member_info \cup d.member_info
  <1>1. Applied(s, d) \in ChatBoardState
    BY AppliedSound DEF Sound
  <1>2. Applied(s, d).member_info \subseteq s.member_info \cup d.member_info
    BY DEF Applied, MemberInfoAfter
  <1>. QED
    BY <1>1, <1>2, CleanupFacts DEF Apply

(* A refused update adds none.                                             *)
LEMMA UpdateAddsInfos ==
    ASSUME NEW s, NEW d, Sound(s), SoundDelta(s, d)
    PROVE  Update(s, d).member_info \subseteq s.member_info \cup d.member_info
  BY ApplyInfos DEF Update

(* merge adds those of the other replica.                                  *)
LEMMA MergeAddsInfos ==
    ASSUME NEW s, NEW other, Sound(s), Sound(other), MergeAccepts(s, other)
    PROVE  Merge(s, other).member_info \subseteq s.member_info \cup other.member_info
  <1>1. Delta(other, s).member_info \subseteq other.member_info
    BY DEF Delta, DeltaMemberInfo
  <1>. QED
    BY <1>1, DeltaSound, ApplyInfos DEF Merge, MergeAccepts

(* A new secret adds none.                                                 *)
LEMMA RotatedKeepsInfos ==
    ASSUME NEW s, Sound(s)
    PROVE  Rotated(s).member_info \subseteq s.member_info
  <1>1. Rotation(s).member_info = {}
    BY DEF Rotation, EmptyDelta
  <1>. QED
    BY <1>1, RotationSound, UpdateAddsInfos DEF Rotated

(* Nor does an update, whatever becomes of it, but those it brings and the *)
(* one of an author who rejoins.                                           *)
LEMMA OutcomeInfos ==
    ASSUME IInv, InfosKnown, NEW u \in inflight, NEW t \in Outcomes(board[u.to], u)
    PROVE  t.member_info \subseteq infosSigned
  <1>. DEFINE s == board[u.to]
  <1>1. /\ u.to \in Nodes
        /\ "state" \notin DOMAIN u => u \in DeltaUpdate
    BY UpdateTypes DEF IInv, TypeOK
  <1>2. Sound(s)
    BY <1>1 DEF IInv
  <1>3. s.member_info \cup UpdateInfos(u) \subseteq infosSigned
    BY <1>1 DEF InfosKnown
  <1>4. CASE "state" \in DOMAIN u
    <2>1. Sound(u.state) /\ UpdateInfos(u) = u.state.member_info
      BY <1>4 DEF IInv, UnderwaySound, UpdateInfos
    <2>2. t = s \/ (MergeAccepts(s, u.state) /\ t = Merge(s, u.state))
      BY <1>4 DEF Outcomes
    <2>. QED
      BY <1>2, <1>3, <2>1, <2>2, MergeAddsInfos
  <1>5. CASE "state" \notin DOMAIN u
    <2>1. SoundDelta(s, u.delta) /\ UpdateInfos(u) = u.delta.member_info
      BY <1>5 DEF IInv, UnderwaySound, UpdateInfos
    <2>2. u.handler \in Handlers
      BY <1>1, <1>5 DEF DeltaUpdate
    <2>3. CASE u.handler = "apply"
      <3>1. t = Update(s, u.delta)
        BY <1>5, <2>3 DEF Outcomes
      <3>. QED
        BY <1>2, <1>3, <2>1, <3>1, UpdateAddsInfos
    <2>4. CASE u.handler = "rotate"
      <3>1. CASE Accepts(s, u.delta)
        <4>1. Sound(Apply(s, u.delta)) /\ Apply(s, u.delta).member_info \subseteq infosSigned
          BY <1>2, <1>3, <2>1, <3>1, ApplySound, ApplyInfos
        <4>2. t = Rotated(Apply(s, u.delta))
          BY <1>5, <2>4, <3>1 DEF Outcomes
        <4>. QED
          BY <4>1, <4>2, RotatedKeepsInfos
      <3>2. CASE ~Accepts(s, u.delta)
        BY <1>3, <1>5, <2>4, <3>2 DEF Outcomes
      <3>. QED
        BY <3>1, <3>2
    <2>5. CASE u.handler = "rejoin"
      <3>1. PICK m \in u.delta.recent_messages :
                \E d \in Rejoined(u.delta, m.author, s) : t = Update(s, d)
        BY <1>5, <2>5 DEF Outcomes
      <3>2. u.delta \in ChatBoardStateDelta /\ m.author \in Principals
        BY <1>1, <1>5 DEF DeltaUpdate, ChatBoardStateDelta, Message
      <3>3. PICK d \in Rejoined(u.delta, m.author, s) : t = Update(s, d)
        BY <3>1
      <3>4. SoundDelta(s, d)
        BY <1>2, <2>1, <3>2, RejoinedSound DEF Sound
      <3>5. d.member_info \subseteq infosSigned
        <4>1. u.delta.member_info \subseteq infosSigned
          BY <1>3, <2>1
        <4>2. CASE d = u.delta
          BY <4>1, <4>2
        <4>3. CASE d # u.delta
          <5>1. PICK i \in infosSigned :
                    \E own : d = [u.delta EXCEPT !.members = own, !.member_info = {i}]
            BY <4>3 DEF Rejoined
          <5>2. d.member_info = {i}
            BY <3>2, <5>1 DEF ChatBoardStateDelta
          <5>. QED
            BY <5>2
        <4>. QED
          BY <4>2, <4>3
      <3>. QED
        BY <1>2, <1>3, <3>3, <3>4, <3>5, UpdateAddsInfos
    <2>. QED
      BY <2>2, <2>3, <2>4, <2>5 DEF Handlers
  <1>. QED
    BY <1>4, <1>5

(* A step after which a board has but infos that are signed.               *)
LEMMA KnownBoardStep ==
    ASSUME TypeOK, InfosKnown, NEW n \in Nodes, NEW t, t.member_info \subseteq infosSigned',
           board' = [board EXCEPT ![n] = t], inflight' \subseteq inflight,
           infosSigned \subseteq infosSigned'
    PROVE  InfosKnown'
  BY DEF InfosKnown, TypeOK

(* A step that leaves the boards and sends none that is not signed.        *)
LEMMA KnownSendStep ==
    ASSUME InfosKnown, board' = board, infosSigned' = infosSigned,
           \A u \in inflight' \ inflight : UpdateInfos(u) \subseteq infosSigned
    PROVE  InfosKnown'
  BY DEF InfosKnown

(* An update sent with infos that are signed.                              *)
LEMMA KnownComposeStep ==
    ASSUME InfosKnown, NEW n, NEW d, NEW h, Compose(n, d, h), infosSigned' = infosSigned,
           d.member_info \subseteq infosSigned
    PROVE  InfosKnown'
  <1>. DEFINE u == [to |-> n, delta |-> d, handler |-> h]
  <1>1. UpdateInfos(u) = d.member_info
    BY DEF UpdateInfos
  <1>2. inflight' = inflight \cup {u} /\ board' = board
    BY DEF Compose, Post
  <1>. QED
    BY <1>1, <1>2, KnownSendStep

(* A whole board sent with infos that are signed.                          *)
LEMMA KnownPostStep ==
    ASSUME InfosKnown, NEW n, NEW s, Post([to |-> n, state |-> s]), infosSigned' = infosSigned,
           s.member_info \subseteq infosSigned
    PROVE  InfosKnown'
  <1>. DEFINE u == [to |-> n, state |-> s]
  <1>1. UpdateInfos(u) = s.member_info
    BY DEF UpdateInfos
  <1>2. inflight' = inflight \cup {u} /\ board' = board
    BY DEF Post
  <1>. QED
    BY <1>1, <1>2, KnownSendStep

(* What users write brings no info that is not signed.                     *)
LEMMA WriteKnown ==
    ASSUME IInv, InfosKnown, NEW n \in Nodes, Write(n)
    PROVE  InfosKnown'
  <1>1. ASSUME NEW p \in Principals, SendMessage(n, p)
        PROVE  InfosKnown'
    <2>1. PICK d, h : Compose(n, d, h) /\ d.member_info = {}
      BY <1>1 DEF SendMessage, EmptyDelta
    <2>. QED
      BY <1>1, <2>1, KnownComposeStep DEF SendMessage
  <1>2. ASSUME NEW p \in Principals, NEW x \in Members, BanMember(n, p, x)
        PROVE  InfosKnown'
    <2>1. PICK d, h : Compose(n, d, h) /\ d.member_info = {}
      BY <1>2 DEF BanMember, EmptyDelta
    <2>. QED
      BY <1>2, <2>1, KnownComposeStep DEF BanMember
  <1>3. ASSUME NEW p \in Principals, NEW nickname \in Nicknames,
               SetNickname(n, p, nickname)
        PROVE  InfosKnown'
    <2>1. PICK d : /\ SoundDelta(board[n], d) /\ d.member_info \subseteq infosSigned'
                   /\ board' = [board EXCEPT ![n] = Update(board[n], d)]
      BY <1>3, SetNicknameDelta
    <2>2. infosSigned \subseteq infosSigned'
      BY <1>3, SetNicknameDelta
    <2>3. Update(board[n], d).member_info \subseteq infosSigned'
      BY <2>1, <2>2, UpdateAddsInfos DEF IInv, InfosKnown
    <2>. QED
      BY <1>3, <2>1, <2>2, <2>3, KnownBoardStep DEF IInv, SetNickname
  <1>4. ASSUME NEW p \in Members, AcceptInvitation(n, p)
        PROVE  InfosKnown'
    BY <1>4, KnownSendStep DEF AcceptInvitation, signed
  <1>5. ASSUME NEW x \in Members, AddAdmin(n, x)
        PROVE  InfosKnown'
    <2>1. PICK d : Compose(n, d, "apply") /\ d.member_info = {}
      BY <1>5 DEF AddAdmin, EmptyDelta
    <2>. QED
      BY <1>5, <2>1, KnownComposeStep DEF AddAdmin, signed
  <1>6. ASSUME NEW limit \in BanLimits, UpdateConfiguration(n, limit)
        PROVE  InfosKnown'
    <2>1. PICK d : Compose(n, d, "apply") /\ d.member_info = {}
      BY <1>6 DEF UpdateConfiguration, EmptyDelta
    <2>. QED
      BY <1>6, <2>1, KnownComposeStep DEF UpdateConfiguration, signed
  <1>7. CASE RotateSecret(n)
    <2>1. infosSigned' = infosSigned
      BY <1>7 DEF RotateSecret, signed
    <2>2. Rotated(board[n]).member_info \subseteq infosSigned'
      BY <2>1, RotatedKeepsInfos DEF IInv, InfosKnown
    <2>3. board' = [board EXCEPT ![n] = Rotated(board[n])]
      BY <1>7 DEF RotateSecret
    <2>. QED
      BY <1>7, <2>1, <2>2, <2>3, KnownBoardStep DEF RotateSecret, IInv
  <1>8. ASSUME NEW v \in Upgrades, PublishUpgrade(n, v)
        PROVE  InfosKnown'
    <2>. DEFINE s == [InitialBoard(FALSE) EXCEPT !.member_info = {}, !.upgrade = v]
    <2>1. s.member_info = {}
      BY DEF InitialBoard
    <2>2. Post([to |-> n, state |-> s])
      BY <1>8 DEF PublishUpgrade
    <2>. HIDE DEF s
    <2>. QED
      BY <1>8, <2>1, <2>2, KnownPostStep DEF PublishUpgrade, signed
  <1>. QED
    BY <1>1, <1>2, <1>3, <1>4, <1>5, <1>6, <1>7, <1>8 DEF Write

(* Nor does any other step.                                                *)
LEMMA NextKnown == IInv /\ InfosKnown /\ [Next]_vars => InfosKnown'
  <1>. SUFFICES ASSUME IInv, InfosKnown, [Next]_vars
                PROVE  InfosKnown'
    OBVIOUS
  <1>1. ASSUME NEW n \in Nodes, NEW k \in Nodes, SendDelta(n, k)
        PROVE  InfosKnown'
    <2>1. Delta(board[n], board[k]).member_info \subseteq infosSigned
      BY DEF Delta, DeltaMemberInfo, InfosKnown
    <2>. QED
      BY <1>1, <2>1, KnownComposeStep DEF SendDelta, signed
  <1>2. ASSUME NEW n \in Nodes, NEW k \in Nodes, SendState(n, k)
        PROVE  InfosKnown'
    <2>1. board[n].member_info \subseteq infosSigned
      BY DEF InfosKnown
    <2>. QED
      BY <1>2, <2>1, KnownPostStep DEF SendState, signed
  <1>3. ASSUME NEW n \in Nodes, NEW k \in Nodes, Sync(n, k)
        PROVE  InfosKnown'
    <2>1. infosSigned' = infosSigned
      BY <1>3 DEF Sync, signed
    <2>2. Merge(board[n], board[k]).member_info \subseteq infosSigned'
      BY <1>3, <2>1, MergeAddsInfos DEF Sync, IInv, InfosKnown
    <2>. QED
      BY <1>3, <2>1, <2>2, KnownBoardStep DEF Sync, IInv
  <1>4. ASSUME NEW u \in inflight, Receive(u), inflight' \subseteq inflight
        PROVE  InfosKnown'
    <2>1. PICK t \in Outcomes(board[u.to], u) : board' = [board EXCEPT ![u.to] = t]
      BY <1>4 DEF Receive
    <2>2. infosSigned' = infosSigned /\ u.to \in Nodes
      BY <1>4, UpdateTypes DEF IInv, TypeOK, Receive, signed
    <2>3. t.member_info \subseteq infosSigned'
      BY <2>2, OutcomeInfos
    <2>. QED
      BY <1>4, <2>1, <2>2, <2>3, KnownBoardStep DEF IInv
  <1>5. ASSUME NEW u \in inflight, Lose(u)
        PROVE  InfosKnown'
    BY <1>5, KnownSendStep DEF Lose, signed
  <1>6. CASE UNCHANGED vars
    BY <1>6, KnownSendStep DEF vars
  <1>. QED
    BY <1>1, <1>2, <1>3, <1>4, <1>5, <1>6, WriteKnown
    DEF Next, Exchange, Deliver, DeliverCopy

(* So they always were.                                                    *)
LEMMA InfosStayKnown == Spec => []InfosKnown
  <1>1. Init => InfosKnown
    BY DEF Init, InfosKnown, InitialBoard, Principals
  <1>. QED
    BY <1>1, NextKnown, BoardsSound, PTL DEF Spec

---------------------------------------------------------------------------
(* Merging either way.                                                     *)

(* Public boards between any two of which nothing is in dispute.           *)
Undisputed ==
    \A n, k \in Nodes : ~board[n].configuration.private /\ InStep(board[n], board[k])

(* merge (board_state.rs) brings two public replicas to the same state,    *)
(* whichever merges the other, as convergence_tests.rs asks of every       *)
(* operation, unless something is in dispute between them: two             *)
(* configurations or two nicknames of a member with the same version, of   *)
(* which each replica keeps its own (member_info.rs:128), or more bans     *)
(* than the configuration of the other permits.                            *)
THEOREM UndisputedMergesCommute == Spec => [](Undisputed => MergesCommute)
  <1>1. ASSUME IInv, Exchangeable, Undisputed, NEW n \in Nodes, NEW k \in Nodes
        PROVE  Merge(board[n], board[k]) = Merge(board[k], board[n])
    <2>1. PICK private \in BOOLEAN : SInv(private) /\ PInv(private)
      BY <1>1 DEF Exchangeable
    <2>2. private = FALSE
      BY <1>1, <2>1 DEF Undisputed, SInv, Sealed
    <2>. DEFINE s == board[n]
                other == board[k]
    <2>3. /\ Sound(s) /\ Sound(other) /\ Tidy(s) /\ Tidy(other)
          /\ Passable(s, FALSE) /\ Passable(other, FALSE)
      BY <1>1, <2>1, <2>2 DEF IInv, SInv, PInv
    <2>4. InStep(s, other) /\ InStep(other, s)
      BY <1>1 DEF Undisputed
    <2>. HIDE DEF s, other
    <2>5. \A b \in {s, other} : NoSecrets(b)
      BY <2>3 DEF NoSecrets, Passable, Founded, Sound, VerifySecrets, ChatBoardState, Secrets
    <2>6. MergedBoard(s, other) = MergedBoard(other, s)
      BY <2>3, <2>4, <2>5, MergedEither
    <2>7. Merge(s, other) = Cleanup(MergedBoard(s, other))
      BY <2>3, <2>4, <2>5, MergedIs
    <2>8. Merge(other, s) = Cleanup(MergedBoard(other, s))
      BY <2>3, <2>4, <2>5, MergedIs
    <2>9. Merge(s, other) = Merge(other, s)
      BY <2>6, <2>7, <2>8
    <2>. QED
      BY <2>9 DEF s, other
  <1>2. IInv /\ Exchangeable => (Undisputed => MergesCommute)
    BY <1>1 DEF MergesCommute
  <1>. QED
    BY <1>2, BoardsSound, AlwaysExchangeable, PTL

(* Nothing ever is in dispute on a public board whose owner keeps the      *)
(* limit of bans and whose members keep their nicknames: merges then       *)
(* commute, whatever else is written and however late it comes.            *)
THEOREM SteadyBoardsCommute ==
    ASSUME Privacies \subseteq {FALSE}, BanLimits \subseteq {InitialConfiguration.max_user_bans},
           \A k, l \in Nicknames : k = l
    PROVE  Spec => []MergesCommute
  <1>1. ASSUME IInv, Exchangeable, LInv, InfosKnown, NicknamesChosen,
               \A n \in Nodes : ~board[n].configuration.private
        PROVE  Undisputed
    <2>. SUFFICES ASSUME NEW n \in Nodes, NEW k \in Nodes
                  PROVE  InStep(board[n], board[k])
      BY <1>1 DEF Undisputed
    <2>1. \A l \in Nodes :
              /\ board[l].configuration \in Configuration
              /\ SameSizes(board[l].configuration) /\ SameLimits(board[l].configuration)
              /\ ~board[l].configuration.private
              /\ Cardinality(board[l].bans) <= board[l].configuration.max_user_bans
              /\ board[l].member_info \subseteq infosSigned
      BY <1>1 DEF IInv, Sound, ChatBoardState, Exchangeable, PInv, Passable, Founded, LInv,
                  Limited, WithinLimits, InfosKnown
    <2>. DEFINE c == board[n].configuration
                e == board[k].configuration
    <2>2. ASSUME c.configuration_version = e.configuration_version
          PROVE  c = e
      <3>1. c \in Configuration /\ e \in Configuration /\ c.private = FALSE /\ e.private = FALSE
            /\ SameSizes(c) /\ SameSizes(e) /\ SameLimits(c) /\ SameLimits(e)
        BY <2>1 DEF Configuration
      <3>. HIDE DEF c, e
      <3>. QED
        BY <2>2, <3>1 DEF Configuration, SameSizes, SameLimits
    <2>3. InfosApart(board[n].member_info, board[k].member_info)
      <3>1. \A i \in infosSigned : i \in MemberInfo /\ i.nickname \in Nicknames
        BY <1>1 DEF IInv, TypeOK, NicknamesChosen
      <3>2. \A i, j \in infosSigned :
                i.member_id = j.member_id /\ i.version = j.version => i = j
        BY <3>1 DEF MemberInfo
      <3>. QED
        BY <2>1, <3>2 DEF InfosApart
    <2>4. \A limit \in {c.max_user_bans, e.max_user_bans} :
              Cardinality(board[n].bans) <= limit /\ Cardinality(board[k].bans) <= limit
      BY <2>1 DEF SameLimits
    <2>. QED
      BY <2>2, <2>3, <2>4 DEF InStep
  <1>2. IInv /\ LInv /\ [Next]_vars => LInv'
    BY NextLInv
  <1>3. Spec => []LInv
    BY <1>2, InitLInv, BoardsSound, PTL DEF Spec
  <1>. QED
    BY <1>1, <1>3, PublicStays, InfosStayKnown, NicknamesStay, UndisputedMergesCommute,
       BoardsSound, AlwaysExchangeable, PTL

---------------------------------------------------------------------------
(* The loops of InviteWalk, over any graph of invitations.                 *)
VARIABLES invitedBy, held, walk, from, current, todo, found, outcome

(* The walks, on a graph of the same members.                              *)
Walk == INSTANCE InviteWalk

(* What a walk is given, and leaves as it is.                              *)
Given ==
    /\ invitedBy \in [Members -> Members \cup {Owner}]
    /\ held \subseteq Members /\ from \subseteq Members /\ walk \in Walk!Walks
    /\ walk \in Walk!Upwards \/ Walk!Chain!ChainsValid(held)
    /\ walk # "post_apply_cleanup" => \E f \in Members : from = {f}
    /\ walk = "validate_invite_chain" => from \subseteq held

(* The walk down: whom a member already looked at invited has been found.  *)
Descending(f) ==
    /\ found \subseteq Walk!Chain!Reached({f}, held)
    /\ todo \subseteq found \cup {f}
    /\ \A k \in held : invitedBy[k] \in (found \cup {f}) \ todo => k \in found

(* A walk up from f: the inviters of those it noted are noted, up to where *)
(* it is.                                                                  *)
Climbing(f) ==
    /\ found \subseteq held \cup {f} /\ current \in held \cup {f}
    /\ f \in found \cup {current}
    /\ \A x \in found : invitedBy[x] \in found \cup {current}

(* If where the walk is leads to the owner, so does f.                     *)
Chaining(f) ==
    \A D \in SUBSET (held \cup {f}) :
        Walk!Chain!ClosedUnder({Owner}, held \cup {f}, D) /\ current \in D => f \in D

(* x is f or above it.                                                     *)
Above(f, x) == x = f \/ f \in Walk!Chain!Reached({x}, held)

(* The walk up from all authors.                                           *)
Gathering ==
    /\ todo \subseteq found /\ from \cap held \subseteq found
    /\ \A k \in found \ todo : invitedBy[k] \in held => invitedBy[k] \in found
    /\ found \subseteq Walk!Chain!Required(from, held)

(* Where a walk is that still runs.                                        *)
Progress ==
    /\ walk = "get_downstream_members" => \A f \in from : Descending(f)
    /\ walk \in Walk!Climbs => \A f \in from : Climbing(f)
    /\ walk = "get_invite_chain" => \A f \in from : Chaining(f)
    /\ walk = "invite_chain_ids" =>
          \A f \in from \cap held : \A x \in found \cup {current} : Above(f, x)
    /\ walk = "validate_invite_chain" => found \cup {current} \subseteq Walk!Chain!Required(from, held)
    /\ walk = "post_apply_cleanup" => Gathering

(* The inductive invariant of the walks.                                   *)
WalkSound == Given /\ (outcome = "running" => Progress) /\ Walk!WalksAgree

(* The fixed points, in terms of the graph of the walk.                    *)
LEMMA ReachedIs ==
    ASSUME NEW R, NEW S, NEW m
    PROVE  m \in Walk!Chain!Reached(R, S) <=>
              m \in S /\ \A D \in SUBSET S :
                  (\A k \in S : invitedBy[k] \in R \cup D => k \in D) => m \in D
  BY DEF Walk!Chain!Reached, Walk!Chain!ClosedUnder

(* The same of those an author keeps.                                      *)
LEMMA RequiredIs ==
    ASSUME NEW A, NEW S, NEW m
    PROVE  m \in Walk!Chain!Required(A, S) <=>
              m \in S /\ \A D \in SUBSET S :
                  A \cap S \subseteq D /\ (\A k \in D : invitedBy[k] \in S => invitedBy[k] \in D) => m \in D
  BY DEF Walk!Chain!Required, Walk!Chain!ClosedUpwards

(* Where all chains lead to the owner, every inviter is held or the owner. *)
LEMMA InvitersHeld ==
    ASSUME Walk!Chain!ChainsValid(held), NEW k \in held
    PROVE  invitedBy[k] \in held \cup {Owner}
  <1>. DEFINE D == {m \in held : invitedBy[m] \in held \cup {Owner}}
  <1>1. k \in Walk!Chain!Reached({Owner}, held)
    BY DEF Walk!Chain!ChainsValid, Walk!Chain!Rooted
  <1>2. \A m \in held : invitedBy[m] \in {Owner} \cup D => m \in D
    OBVIOUS
  <1>3. D \in SUBSET held
    OBVIOUS
  <1>. HIDE DEF D
  <1>4. k \in D
    BY <1>1, <1>2, <1>3, ReachedIs
  <1>. QED
    BY <1>4 DEF D

(* What the walk is given stays the same, and the fixed points with it.    *)
LEMMA SameGraph ==
    ASSUME UNCHANGED Walk!input
    PROVE  /\ invitedBy' = invitedBy /\ held' = held /\ walk' = walk /\ from' = from
           /\ \A R, S : Walk!Chain!Reached(R, S)' = Walk!Chain!Reached(R, S)
           /\ \A A, S : Walk!Chain!Required(A, S)' = Walk!Chain!Required(A, S)
           /\ Given => Given'
  <1>1. invitedBy' = invitedBy /\ held' = held /\ walk' = walk /\ from' = from
    BY DEF Walk!input
  <1>2. \A R, S : Walk!Chain!Reached(R, S)' = Walk!Chain!Reached(R, S)
    BY <1>1 DEF Walk!Chain!Reached, Walk!Chain!ClosedUnder
  <1>3. \A A, S : Walk!Chain!Required(A, S)' = Walk!Chain!Required(A, S)
    BY <1>1 DEF Walk!Chain!Required, Walk!Chain!ClosedUpwards
  <1>4. Given => Given'
    BY <1>1, <1>2 DEF Given, Walk!Walks, Walk!Upwards, Walk!Downwards, Walk!Chain!ChainsValid, Walk!Chain!Rooted
  <1>. QED
    BY <1>1, <1>2, <1>3, <1>4

(* The walk down goes on.                                                  *)
LEMMA DownstreamGoesOn ==
    ASSUME Given, NEW f, Descending(f), Walk!Downstream
    PROVE  Descending(f)'
  <1>1. PICK m \in todo :
          /\ todo' = (todo \ {m}) \cup {k \in held : invitedBy[k] = m}
          /\ found' = found \cup {k \in held : invitedBy[k] = m}
          /\ UNCHANGED Walk!input
    BY DEF Walk!Downstream
  <1>2. ASSUME NEW k \in held, invitedBy[k] = m
        PROVE  k \in Walk!Chain!Reached({f}, held)
    <2>1. m = f \/ m \in Walk!Chain!Reached({f}, held)
      BY DEF Descending
    <2>. SUFFICES ASSUME NEW D \in SUBSET held, \A l \in held : invitedBy[l] \in {f} \cup D => l \in D
                  PROVE  k \in D
      BY ReachedIs
    <2>2. m = f \/ m \in D
      BY <2>1, ReachedIs
    <2>. QED
      BY <1>2, <2>2
  <1>3. found' \subseteq Walk!Chain!Reached({f}, held)'
    BY <1>1, <1>2, SameGraph DEF Descending
  <1>4. todo' \subseteq found' \cup {f}
    BY <1>1 DEF Descending
  <1>5. \A k \in held : invitedBy[k] \in (found' \cup {f}) \ todo' => k \in found'
    BY <1>1 DEF Descending
  <1>6. \A k \in held' : invitedBy'[k] \in (found' \cup {f}) \ todo' => k \in found'
    BY <1>1, <1>5, SameGraph
  <1>. QED
    BY <1>3, <1>4, <1>6, <1>1, SameGraph DEF Descending

(* Done, it has found all below f.                                         *)
LEMMA DownstreamDone ==
    ASSUME NEW f, Descending(f), todo = {}
    PROVE  found = Walk!Chain!Reached({f}, held)
  <1>1. found \subseteq held
    BY ReachedIs DEF Descending
  <1>2. \A k \in held : invitedBy[k] \in {f} \cup found => k \in found
    BY DEF Descending
  <1>3. \A m : m \in Walk!Chain!Reached({f}, held) => m \in found
    BY <1>1, <1>2, ReachedIs
  <1>. QED
    BY <1>3 DEF Descending

(* An upward walk that goes on has climbed one step.                       *)
LEMMA ClimbGoesOn ==
    ASSUME Given, NEW f \in Members, Climbing(f),
           found' = found \cup {current}, current' = invitedBy[current], current' \in held \cup {f},
           UNCHANGED Walk!input
    PROVE  Climbing(f)'
  BY SameGraph DEF Climbing

(* The walk to the owner goes on to the inviter.                           *)
LEMMA InviterGoesOn ==
    ASSUME Given, NEW f \in Members, Chaining(f), current \in held \cup {f}, current' = invitedBy[current],
           UNCHANGED Walk!input
    PROVE  Chaining(f)'
  <1>1. Chaining(f) <=> \A D \in SUBSET (held \cup {f}) :
           (\A k \in held \cup {f} : invitedBy[k] \in {Owner} \cup D => k \in D) /\ current \in D => f \in D
    BY DEF Chaining, Walk!Chain!ClosedUnder
  <1>2. \A D \in SUBSET (held \cup {f}) :
           (\A k \in held \cup {f} : invitedBy[k] \in {Owner} \cup D => k \in D) /\ invitedBy[current] \in D
           => f \in D
    BY <1>1
  <1>3. \A D \in SUBSET (held' \cup {f}) :
           (\A k \in held' \cup {f} : invitedBy'[k] \in {Owner} \cup D => k \in D) /\ current' \in D => f \in D
    BY <1>2, SameGraph
  <1>. QED
    BY <1>3 DEF Chaining, Walk!Chain!ClosedUnder

(* It accepts a chain that leads to the owner.                             *)
LEMMA InviterAccepts ==
    ASSUME NEW f, Chaining(f), current \in held \cup {f}, invitedBy[current] = Owner
    PROVE  f \in Walk!Chain!Rooted(held \cup {f})
  <1>1. \A D \in SUBSET (held \cup {f}) :
           (\A k \in held \cup {f} : invitedBy[k] \in {Owner} \cup D => k \in D) => f \in D
    BY DEF Chaining, Walk!Chain!ClosedUnder
  <1>. QED
    BY <1>1, ReachedIs DEF Walk!Chain!Rooted

(* It refuses no other: what it noted is closed against the owner.         *)
LEMMA InviterRefuses ==
    ASSUME Given, NEW f \in Members, Climbing(f), current \in Members,
           \/ current \in found
           \/ invitedBy[current] = current
           \/ Walk!Unknown(invitedBy[current]),
           \A x \in found : x \in Members
    PROVE  f \notin Walk!Chain!Rooted(held \cup {f})
  <1>. DEFINE V == found \cup {current}
              D == (held \cup {f}) \ V
  <1>1. Owner \notin V
    BY OwnerAssumption
  <1>2. \A k \in held \cup {f} : k \in found => invitedBy[k] \in V
    BY DEF Climbing
  <1>3. invitedBy[current] \notin {Owner} \cup D
    <2>1. CASE current \in found
      BY <1>1, <2>1 DEF Climbing
    <2>2. CASE invitedBy[current] = current
      BY <1>1, <2>2
    <2>3. CASE Walk!Unknown(invitedBy[current])
      BY <2>3 DEF Walk!Unknown, Climbing
    <2>. QED
      BY <2>1, <2>2, <2>3
  <1>4. \A k \in held \cup {f} : invitedBy[k] \in {Owner} \cup D => k \in D
    BY <1>1, <1>2, <1>3
  <1>5. f \notin D /\ D \in SUBSET (held \cup {f})
    BY DEF Climbing
  <1>. HIDE DEF D
  <1>. QED
    BY <1>4, <1>5, ReachedIs DEF Walk!Chain!Rooted

(* Who is above somebody above f is above f.                               *)
LEMMA AboveInviter ==
    ASSUME NEW f \in held, NEW x \in held, Above(f, x)
    PROVE  Above(f, invitedBy[x])
  <1>. SUFFICES ASSUME NEW D \in SUBSET held,
                       \A k \in held : invitedBy[k] \in {invitedBy[x]} \cup D => k \in D
                PROVE  f \in D
    BY ReachedIs DEF Above
  <1>1. x \in D
    OBVIOUS
  <1>. QED
    BY <1>1, ReachedIs DEF Above

(* All above f that there are: the others do not reach it.                 *)
LEMMA ChainIdsDone ==
    ASSUME Given, NEW f \in held, Climbing(f),
           \/ invitedBy[current] \notin held
           \/ invitedBy[current] \in found \cup {current},
           NEW chain, found \cup {current} \subseteq chain,
           Walk!Unknown(invitedBy[current]) => invitedBy[current] \in chain,
           \A x \in chain : x \in found \cup {current} \/ x \notin held,
           NEW b \in Members, b \notin chain
    PROVE  ~Above(f, b)
  <1>. DEFINE D == held \ chain
  <1>1. f \in chain
    BY DEF Climbing
  <1>2. ASSUME NEW k \in held, invitedBy[k] \in {b} \cup D, k \in chain
        PROVE  FALSE
    <2>1. b # Owner
      BY OwnerAssumption
    <2>2. CASE k \in found
      BY <1>2, <2>2 DEF Climbing
    <2>3. CASE k = current
      BY <1>2, <2>1, <2>3 DEF Walk!Unknown
    <2>. QED
      BY <1>2, <2>2, <2>3
  <1>3. D \in SUBSET held /\ f \notin D
    BY <1>1
  <1>4. \A k \in held : invitedBy[k] \in {b} \cup D => k \in D
    BY <1>2
  <1>5. f # b
    BY <1>1
  <1>. HIDE DEF D
  <1>. QED
    BY <1>3, <1>4, <1>5, ReachedIs DEF Above

(* The cleanup goes on.                                                    *)
LEMMA AncestorsGoOn ==
    ASSUME Given, Walk!Chain!ChainsValid(held), Gathering, Walk!Ancestors
    PROVE  Gathering'
  <1>1. PICK m \in todo :
          /\ todo' = (todo \ {m}) \cup ({invitedBy[k] : k \in {m} \cap held} \ (found \cup {Owner}))
          /\ found' = found \cup ({invitedBy[k] : k \in {m} \cap held} \ (found \cup {Owner}))
          /\ UNCHANGED Walk!input
    BY DEF Walk!Ancestors
  <1>2. m \in Walk!Chain!Required(from, held) /\ m \in held
    BY RequiredIs DEF Gathering
  <1>3. /\ todo' = (todo \ {m}) \cup ({invitedBy[m]} \ (found \cup {Owner}))
        /\ found' = found \cup ({invitedBy[m]} \ (found \cup {Owner}))
    BY <1>1, <1>2
  <1>4. invitedBy[m] \in held => invitedBy[m] \in Walk!Chain!Required(from, held)
    BY <1>2, RequiredIs
  <1>5. invitedBy[m] \in held \cup {Owner}
    BY <1>2, InvitersHeld
  <1>6. found' \subseteq Walk!Chain!Required(from, held)
    BY <1>3, <1>4, <1>5 DEF Gathering
  <1>7. Owner \notin held
    BY OwnerAssumption DEF Given
  <1>8. \A k \in found' \ todo' : invitedBy[k] \in held => invitedBy[k] \in found'
    BY <1>3, <1>7 DEF Gathering
  <1>. QED
    BY <1>1, <1>3, <1>6, <1>8, SameGraph DEF Gathering

(* When nobody is left to look at, all that are required are found.        *)
LEMMA AncestorsDone ==
    ASSUME Gathering, todo = {}
    PROVE  found = Walk!Chain!Required(from, held)
  <1>1. found \subseteq held
    BY RequiredIs DEF Gathering
  <1>2. \A m : m \in Walk!Chain!Required(from, held) => m \in found
    BY <1>1, RequiredIs DEF Gathering
  <1>. QED
    BY <1>2 DEF Gathering

(* The chain of a banned member goes on.                                   *)
LEMMA BanChainRequired ==
    ASSUME NEW A, current \in Walk!Chain!Required(A, held), invitedBy[current] \in held
    PROVE  invitedBy[current] \in Walk!Chain!Required(A, held)
  BY RequiredIs

(* A walk that is at somebody whose inviter is not held, or was met        *)
(* before, has met all that are required.                                  *)
LEMMA BanChainDone ==
    ASSUME NEW f \in held, Climbing(f), found \cup {current} \subseteq Walk!Chain!Required({f}, held),
           \/ invitedBy[current] \notin held
           \/ invitedBy[current] \in found \cup {current}
    PROVE  found \cup {current} = Walk!Chain!Required({f}, held)
  <1>. DEFINE D == found \cup {current}
  <1>1. D \subseteq held /\ {f} \cap held \subseteq D
    BY DEF Climbing
  <1>2. \A k \in D : invitedBy[k] \in held => invitedBy[k] \in D
    BY DEF Climbing
  <1>. HIDE DEF D
  <1>3. \A m : m \in Walk!Chain!Required({f}, held) => m \in D
    BY <1>1, <1>2, RequiredIs
  <1>. QED
    BY <1>3 DEF D

(* What a walk that is over has found, walk by walk.                       *)
Agreed(m) ==
    /\ walk = "get_downstream_members" => found = Walk!Chain!Reached({m}, held)
    /\ walk = "get_invite_chain" => (outcome = "Ok" <=> m \in Walk!Chain!Rooted(held \cup {m}))
    /\ walk = "invite_chain_ids" =>
          (m \in held => \A banned \in Members : banned \in found <=> Above(m, banned))
    /\ walk = "post_apply_cleanup" => found = Walk!Chain!Required(from, held)
    /\ walk = "validate_invite_chain" => found = Walk!Chain!Required({m}, held)

(* WalksAgree, from what each walk found.                                  *)
LEMMA AgreedAgrees ==
    ASSUME Given, outcome # "running" => \A m \in from : Agreed(m)
    PROVE  Walk!WalksAgree
  <1>. SUFFICES ASSUME outcome # "running", NEW m \in from
                PROVE  CASE walk = "get_downstream_members" ->
                              found = Walk!Chain!Reached({m}, held)
                        [] walk = "get_invite_chain" ->
                              (outcome = "Ok") = (m \in Walk!Chain!Rooted(held \cup {m}))
                        [] walk = "invite_chain_ids" ->
                              m \in held => \A banned \in Members :
                                  (banned \in found) = (m \in {banned} \cup Walk!Chain!Reached({banned}, held))
                        [] walk = "post_apply_cleanup" ->
                              found = Walk!Chain!Required(from, held)
                        [] walk = "validate_invite_chain" ->
                              \A banning \in held : (banning \in found) = Walk!Chain!InChainOf(banning, m, held)
    BY DEF Walk!WalksAgree
  <1>2. Agreed(m)
    OBVIOUS
  <1>3. walk \in Walk!Walks
    BY DEF Given
  <1>4. walk = "get_invite_chain" =>
            (outcome = "Ok") = (m \in Walk!Chain!Rooted(held \cup {m}))
    BY <1>2 DEF Agreed
  <1>5. ASSUME walk = "invite_chain_ids", m \in held, NEW banned \in Members
        PROVE  (banned \in found) = (m \in {banned} \cup Walk!Chain!Reached({banned}, held))
    BY <1>2, <1>5 DEF Agreed, Above
  <1>6. ASSUME walk = "validate_invite_chain", NEW banning \in held
        PROVE  (banning \in found) = Walk!Chain!InChainOf(banning, m, held)
    BY <1>2, <1>6 DEF Agreed, Walk!Chain!InChainOf
  <1>7. /\ walk = "get_downstream_members" => found = Walk!Chain!Reached({m}, held)
        /\ walk = "post_apply_cleanup" => found = Walk!Chain!Required(from, held)
    BY <1>2 DEF Agreed
  <1>. QED
    BY <1>3, <1>4, <1>5, <1>6, <1>7 DEF Walk!Walks, Walk!Upwards, Walk!Downwards

(* A step of a walk leaves what it was given, and goes on or is over.      *)
LEMMA WalkStep ==
    ASSUME Given, UNCHANGED Walk!input,
           \/ outcome' = "running" /\ Progress'
           \/ outcome' # "running" /\ \A m \in from : Agreed(m)'
    PROVE  WalkSound'
  <1>1. Given' /\ from' = from
    BY SameGraph
  <1>2. CASE outcome' = "running" /\ Progress'
    BY <1>1, <1>2 DEF WalkSound, Walk!WalksAgree
  <1>3. CASE outcome' # "running" /\ \A m \in from : Agreed(m)'
    <2>1. (outcome # "running" => \A m \in from : Agreed(m))'
      BY <1>1, <1>3
    <2>2. (Given /\ (outcome # "running" => \A m \in from : Agreed(m)) => Walk!WalksAgree)'
      BY AgreedAgrees, PTL
    <2>. QED
      BY <1>1, <1>3, <2>1, <2>2 DEF WalkSound
  <1>. QED
    BY <1>2, <1>3

(* Nothing but the walk that runs has to get on.                           *)
LEMMA OneWalk ==
    ASSUME Given, UNCHANGED Walk!input
    PROVE  /\ walk = "get_downstream_members" /\ (\A f \in from : Descending(f)') => Progress'
           /\ walk = "get_invite_chain" /\ (\A f \in from : Climbing(f)' /\ Chaining(f)') => Progress'
           /\ walk = "invite_chain_ids" /\ (\A f \in from : Climbing(f)')
                /\ (\A f \in from \cap held : \A x \in found' \cup {current'} : Above(f, x)) => Progress'
           /\ walk = "validate_invite_chain" /\ (\A f \in from : Climbing(f)')
                /\ found' \cup {current'} \subseteq Walk!Chain!Required(from, held) => Progress'
           /\ walk = "post_apply_cleanup" /\ Gathering' => Progress'
  <1>1. \A f, x : Above(f, x)' = Above(f, x)
    BY SameGraph DEF Above
  <1>2. walk' = walk /\ from' = from /\ held' = held
    BY SameGraph
  <1>3. Walk!Chain!Required(from, held)' = Walk!Chain!Required(from, held)
    BY SameGraph, <1>2
  <1>4. \A f \in from \cap held : \A x \in found' \cup {current'} : Above(f, x)' <=> Above(f, x)
    BY <1>1
  <1>. QED
    BY <1>2, <1>3, <1>4 DEF Progress, Walk!Climbs, Walk!Upwards

(* Every step of get_downstream_members.                                   *)
LEMMA DownstreamSound ==
    ASSUME Given, Progress, outcome = "running", walk = "get_downstream_members",
           Walk!Downstream \/ (todo = {} /\ Walk!Finish("Ok"))
    PROVE  WalkSound'
  <1>1. \A f \in from : Descending(f)
    BY DEF Progress
  <1>2. CASE Walk!Downstream
    <2>1. UNCHANGED Walk!input /\ outcome' = "running"
      BY <1>2 DEF Walk!Downstream
    <2>2. \A f \in from : Descending(f)'
      BY <1>1, <1>2, DownstreamGoesOn
    <2>. QED
      BY <2>1, <2>2, OneWalk, WalkStep
  <1>3. CASE todo = {} /\ Walk!Finish("Ok")
    <2>1. UNCHANGED Walk!input /\ outcome' = "Ok" /\ found' = found
      BY <1>3 DEF Walk!Finish
    <2>2. walk' = walk /\ held' = held
      BY <2>1, SameGraph
    <2>3. ASSUME NEW f \in from
          PROVE  Agreed(f)'
      <3>1. found = Walk!Chain!Reached({f}, held)
        BY <1>1, <1>3, DownstreamDone
      <3>2. Walk!Chain!Reached({f}, held)' = Walk!Chain!Reached({f}, held)
        BY <2>1, <2>2, SameGraph
      <3>3. found' = Walk!Chain!Reached({f}, held)'
        BY <2>1, <3>1, <3>2
      <3>. QED
        BY <2>2, <3>3 DEF Agreed
    <2>. QED
      BY <2>1, <2>3, WalkStep
  <1>. QED
    BY <1>2, <1>3

(* Every step of post_apply_cleanup.                                       *)
LEMMA AncestorsSound ==
    ASSUME Given, Progress, outcome = "running", walk = "post_apply_cleanup",
           Walk!Ancestors \/ (todo = {} /\ Walk!Finish("Ok"))
    PROVE  WalkSound'
  <1>1. Gathering /\ Walk!Chain!ChainsValid(held)
    BY DEF Progress, Given, Walk!Upwards
  <1>2. CASE Walk!Ancestors
    <2>1. UNCHANGED Walk!input /\ outcome' = "running"
      BY <1>2 DEF Walk!Ancestors
    <2>2. Gathering'
      BY <1>1, <1>2, AncestorsGoOn
    <2>. QED
      BY <2>1, <2>2, OneWalk, WalkStep
  <1>3. CASE todo = {} /\ Walk!Finish("Ok")
    <2>1. UNCHANGED Walk!input /\ outcome' = "Ok" /\ found' = found
      BY <1>3 DEF Walk!Finish
    <2>2. walk' = walk /\ held' = held /\ from' = from
      BY <2>1, SameGraph
    <2>3. found = Walk!Chain!Required(from, held)
      BY <1>1, <1>3, AncestorsDone
    <2>4. Walk!Chain!Required(from, held)' = Walk!Chain!Required(from, held)
      BY <2>1, <2>2, SameGraph
    <2>5. found' = Walk!Chain!Required(from, held)'
      BY <2>1, <2>3, <2>4
    <2>6. \A f \in from : Agreed(f)'
      BY <2>2, <2>5 DEF Agreed
    <2>. QED
      BY <2>1, <2>6, WalkStep
  <1>. QED
    BY <1>2, <1>3

(* Where an upward walk stands, and where one that goes on will.           *)
LEMMA ClimbsAmongMembers ==
    ASSUME Given, Progress, walk \in Walk!Climbs
    PROVE  \E f \in Members :
              /\ from = {f} /\ Climbing(f)
              /\ current \in Members /\ found \subseteq Members
              /\ invitedBy[current] \in Members \cup {Owner}
  <1>1. PICK f \in Members : from = {f}
    BY DEF Given, Walk!Climbs, Walk!Upwards
  <1>2. Climbing(f)
    BY <1>1 DEF Progress
  <1>. QED
    BY <1>1, <1>2 DEF Climbing, Given

(* Every step of get_invite_chain.                                         *)
LEMMA InviterSound ==
    ASSUME Given, Progress, outcome = "running", walk = "get_invite_chain", Walk!Inviter
    PROVE  WalkSound'
  <1>. DEFINE refused == \/ current \in found
                         \/ invitedBy[current] = current
                         \/ Walk!Unknown(invitedBy[current])
              ends == refused \/ invitedBy[current] = Owner
  <1>1. PICK f \in Members :
          /\ from = {f} /\ Climbing(f)
          /\ current \in Members /\ found \subseteq Members
          /\ invitedBy[current] \in Members \cup {Owner}
    BY ClimbsAmongMembers DEF Walk!Climbs, Walk!Upwards
  <1>2. Chaining(f)
    BY <1>1 DEF Progress
  <1>3. current \in held \cup {f}
    BY <1>1 DEF Climbing
  <1>4. /\ UNCHANGED Walk!input /\ found' = found \cup {current}
        /\ current' = IF ends THEN current ELSE invitedBy[current]
        /\ outcome' = IF ends THEN (IF refused THEN "Err" ELSE "Ok") ELSE "running"
    BY DEF Walk!Inviter, Walk!Climb
  <1>5. walk' = walk /\ held' = held /\ from' = from
    BY <1>4, SameGraph
  <1>6. CASE ~ends
    <2>1. outcome' = "running" /\ current' = invitedBy[current] /\ current' \in held \cup {f}
      BY <1>4, <1>6 DEF Walk!Unknown
    <2>2. Climbing(f)'
      BY <1>1, <1>4, <2>1, ClimbGoesOn
    <2>3. Chaining(f)'
      BY <1>2, <1>3, <1>4, <2>1, InviterGoesOn
    <2>4. Progress'
      BY <1>1, <1>4, <2>2, <2>3, OneWalk
    <2>. QED
      BY <1>4, <2>1, <2>4, WalkStep
  <1>7. CASE ends
    <2>1. outcome' \in {"Ok", "Err"}
      BY <1>4, <1>7
    <2>2. outcome' = "Ok" <=> f \in Walk!Chain!Rooted(held \cup {f})
      <3>1. CASE refused
        <4>1. outcome' = "Err"
          BY <1>4, <3>1
        <4>2. f \notin Walk!Chain!Rooted(held \cup {f})
          BY <1>1, <3>1, InviterRefuses
        <4>. QED
          BY <4>1, <4>2
      <3>2. CASE ~refused
        <4>1. outcome' = "Ok" /\ invitedBy[current] = Owner
          BY <1>4, <1>7, <3>2
        <4>2. f \in Walk!Chain!Rooted(held \cup {f})
          BY <1>2, <1>3, <4>1, InviterAccepts
        <4>. QED
          BY <4>1, <4>2
      <3>. QED
        BY <3>1, <3>2
    <2>3. Walk!Chain!Rooted(held \cup {f})' = Walk!Chain!Rooted(held \cup {f})
      BY <1>4, <1>5, SameGraph DEF Walk!Chain!Rooted
    <2>4. \A g \in from : Agreed(g)'
      BY <1>1, <1>5, <2>2, <2>3 DEF Agreed
    <2>. QED
      BY <1>4, <2>1, <2>4, WalkStep
  <1>. QED
    BY <1>6, <1>7

(* Every step of invite_chain_ids.                                         *)
LEMMA ChainIdsSound ==
    ASSUME Given, Progress, outcome = "running", walk = "invite_chain_ids", Walk!ChainIds
    PROVE  WalkSound'
  <1>. DEFINE next == invitedBy[current]
              ends == next \notin held \/ next \in found \cup {current}
  <1>1. PICK f \in Members :
          /\ from = {f} /\ Climbing(f)
          /\ current \in Members /\ found \subseteq Members
          /\ next \in Members \cup {Owner}
    BY ClimbsAmongMembers DEF Walk!Climbs, Walk!Upwards
  <1>2. f \in held => \A x \in found \cup {current} : Above(f, x)
    BY <1>1 DEF Progress
  <1>3. f \in held => Above(f, next)
    <2>1. f \in held => current \in held
      BY <1>1 DEF Climbing
    <2>. QED
      BY <1>2, <2>1, AboveInviter
  <1>4. /\ UNCHANGED Walk!input
        /\ found' = found \cup {current} \cup {m \in {next} : Walk!Unknown(m)}
        /\ current' = IF ends THEN current ELSE next
        /\ outcome' = IF ends THEN "Ok" ELSE "running"
    BY DEF Walk!ChainIds, Walk!Climb
  <1>5. walk' = walk /\ held' = held /\ from' = from
    BY <1>4, SameGraph
  <1>6. CASE ~ends
    <2>1. /\ outcome' = "running" /\ current' = next /\ current' \in held \cup {f}
          /\ found' = found \cup {current}
      BY <1>4, <1>6 DEF Walk!Unknown
    <2>2. Climbing(f)'
      BY <1>1, <1>4, <2>1, ClimbGoesOn
    <2>3. f \in held => \A x \in found' \cup {current'} : Above(f, x)
      BY <1>2, <1>3, <2>1
    <2>4. Progress'
      BY <1>1, <1>4, <2>2, <2>3, OneWalk
    <2>. QED
      BY <1>4, <2>1, <2>4, WalkStep
  <1>7. CASE ends
    <2>1. outcome' = "Ok"
      BY <1>4, <1>7
    <2>2. ASSUME f \in held, NEW b \in Members
          PROVE  b \in found' <=> Above(f, b)
      <3>1. b \in found' => Above(f, b)
        BY <1>2, <1>3, <1>4, <2>2
      <3>2. found \cup {current} \subseteq found'
        BY <1>4
      <3>3. Walk!Unknown(next) => next \in found'
        BY <1>4
      <3>4. \A x \in found' : x \in found \cup {current} \/ x \notin held
        BY <1>4 DEF Walk!Unknown
      <3>5. b \notin found' => ~Above(f, b)
        BY <1>1, <1>7, <2>2, <3>2, <3>3, <3>4, ChainIdsDone
      <3>. QED
        BY <3>1, <3>5
    <2>3. \A b : Above(f, b)' <=> Above(f, b)
      BY <1>4, SameGraph DEF Above
    <2>4. \A g \in from : Agreed(g)'
      BY <1>1, <1>5, <2>2, <2>3 DEF Agreed
    <2>. QED
      BY <1>4, <2>1, <2>4, WalkStep
  <1>. QED
    BY <1>6, <1>7

(* Every step of validate_invite_chain.                                    *)
LEMMA BanChainSound ==
    ASSUME Given, Progress, outcome = "running", walk = "validate_invite_chain", Walk!BanChain
    PROVE  WalkSound'
  <1>. DEFINE next == invitedBy[current]
              ends == next \notin held \/ next \in found \cup {current}
  <1>1. PICK f \in Members :
          /\ from = {f} /\ Climbing(f)
          /\ current \in Members /\ found \subseteq Members
          /\ next \in Members \cup {Owner}
    BY ClimbsAmongMembers DEF Walk!Climbs, Walk!Upwards
  <1>2. found \cup {current} \subseteq Walk!Chain!Required({f}, held) /\ f \in held
    BY <1>1 DEF Progress, Given
  <1>3. /\ UNCHANGED Walk!input
        /\ found' = found \cup {current}
        /\ current' = IF ends THEN current ELSE next
        /\ outcome' = IF ends THEN "Ok" ELSE "running"
    BY DEF Walk!BanChain, Walk!Climb
  <1>4. walk' = walk /\ held' = held /\ from' = from
    BY <1>3, SameGraph
  <1>5. CASE ~ends
    <2>1. outcome' = "running" /\ current' = next /\ next \in held /\ current' \in held \cup {f}
      BY <1>3, <1>5
    <2>2. Climbing(f)'
      BY <1>1, <1>3, <2>1, ClimbGoesOn
    <2>3. next \in Walk!Chain!Required({f}, held)
      BY <1>2, <2>1, BanChainRequired
    <2>4. found' \cup {current'} \subseteq Walk!Chain!Required(from, held)
      BY <1>1, <1>2, <1>3, <2>1, <2>3
    <2>5. Progress'
      BY <1>1, <1>3, <2>2, <2>4, OneWalk
    <2>. QED
      BY <1>3, <2>1, <2>5, WalkStep
  <1>6. CASE ends
    <2>1. outcome' = "Ok"
      BY <1>3, <1>6
    <2>2. found \cup {current} = Walk!Chain!Required({f}, held)
      BY <1>1, <1>2, <1>6, BanChainDone
    <2>3. Walk!Chain!Required({f}, held)' = Walk!Chain!Required({f}, held)
      BY <1>3, <1>4, SameGraph
    <2>4. found' = Walk!Chain!Required({f}, held)'
      BY <1>3, <2>2, <2>3
    <2>5. \A g \in from : Agreed(g)'
      BY <1>1, <1>4, <2>4 DEF Agreed
    <2>. QED
      BY <1>3, <2>1, <2>5, WalkStep
  <1>. QED
    BY <1>5, <1>6

(* The invariant is inductive.                                             *)
LEMMA WalkNext == WalkSound /\ [Walk!Next]_Walk!vars => WalkSound'
  <1>. SUFFICES ASSUME WalkSound, [Walk!Next]_Walk!vars
                PROVE  WalkSound'
    OBVIOUS
  <1>1. CASE UNCHANGED Walk!vars
    <2>1. UNCHANGED Walk!input
      BY <1>1 DEF Walk!vars, Walk!input
    <2>2. Given'
      BY <2>1, SameGraph DEF WalkSound
    <2>3. Progress' <=> Progress
      BY <1>1 DEF Walk!vars, Progress, Descending, Climbing, Chaining, Above, Gathering,
                  Walk!Chain!Reached, Walk!Chain!ClosedUnder, Walk!Chain!Required, Walk!Chain!ClosedUpwards
    <2>4. Walk!WalksAgree' <=> Walk!WalksAgree
      BY <1>1 DEF Walk!vars, Walk!WalksAgree, Walk!Chain!Reached, Walk!Chain!ClosedUnder,
                  Walk!Chain!Required, Walk!Chain!ClosedUpwards, Walk!Chain!Rooted, Walk!Chain!InChainOf
    <2>5. outcome' = outcome
      BY <1>1 DEF Walk!vars
    <2>. QED
      BY <2>2, <2>3, <2>4, <2>5 DEF WalkSound
  <1>2. CASE Walk!Next
    <2>1. Given /\ outcome = "running" /\ Progress
      BY <1>2 DEF Walk!Next, WalkSound
    <2>2. \/ walk = "get_downstream_members" /\ (Walk!Downstream \/ (todo = {} /\ Walk!Finish("Ok")))
          \/ walk = "post_apply_cleanup" /\ (Walk!Ancestors \/ (todo = {} /\ Walk!Finish("Ok")))
          \/ walk = "get_invite_chain" /\ Walk!Inviter
          \/ walk = "invite_chain_ids" /\ Walk!ChainIds
          \/ walk = "validate_invite_chain" /\ Walk!BanChain
      BY <1>2 DEF Walk!Next, Walk!Downwards
    <2>. QED
      BY <2>1, <2>2, DownstreamSound, AncestorsSound, InviterSound, ChainIdsSound, BanChainSound
  <1>. QED
    BY <1>1, <1>2

(* Every walk starts in it.                                                *)
LEMMA WalkInit == Walk!Init => WalkSound
  <1>. SUFFICES ASSUME Walk!Init
                PROVE  WalkSound
    OBVIOUS
  <1>1. Given
    <2>1. from \subseteq Members /\ (walk # "post_apply_cleanup" => Cardinality(from) = 1)
      BY DEF Walk!Init, Walk!Cardinality, Cardinality
    <2>2. IsFiniteSet(from)
      BY <2>1, MembersAssumption, FS_Subset
    <2>3. walk # "post_apply_cleanup" => \E f : from = {f}
      BY <2>1, <2>2, FS_Singleton
    <2>4. walk # "post_apply_cleanup" => \E f \in Members : from = {f}
      BY <2>1, <2>3
    <2>. QED
      BY <2>4 DEF Walk!Init, Given
  <1>2. outcome = "running" /\ Walk!WalksAgree
    BY DEF Walk!Init, Walk!WalksAgree
  <1>3. walk = "get_downstream_members" => \A f \in from : Descending(f)
    <2>1. walk = "get_downstream_members" => \A f \in from : from = {f} /\ todo = {f} /\ found = {}
      BY <1>1 DEF Walk!Init, Given
    <2>. QED
      BY <2>1 DEF Descending
  <1>4. walk \in Walk!Climbs => \A f \in from : from = {f} /\ current = f /\ found = {}
    BY <1>1 DEF Walk!Init, Given, Walk!Climbs, Walk!Upwards
  <1>5. walk \in Walk!Climbs => \A f \in from : Climbing(f)
    BY <1>4 DEF Climbing
  <1>6. walk = "get_invite_chain" => \A f \in from : Chaining(f)
    BY <1>4 DEF Chaining, Walk!Climbs, Walk!Upwards
  <1>7. walk = "invite_chain_ids" =>
          \A f \in from \cap held : \A x \in found \cup {current} : Above(f, x)
    BY <1>4 DEF Above, Walk!Climbs, Walk!Upwards
  <1>8. walk = "validate_invite_chain" => found \cup {current} \subseteq Walk!Chain!Required(from, held)
    <2>1. \A f \in held : f \in Walk!Chain!Required({f}, held)
      BY RequiredIs
    <2>. QED
      BY <1>1, <1>4, <2>1 DEF Given, Walk!Climbs, Walk!Upwards
  <1>9. walk = "post_apply_cleanup" => Gathering
    <2>1. \A f \in from \cap held : f \in Walk!Chain!Required(from, held)
      BY RequiredIs
    <2>. QED
      BY <2>1 DEF Walk!Init, Gathering
  <1>. QED
    BY <1>1, <1>2, <1>3, <1>5, <1>6, <1>7, <1>8, <1>9 DEF WalkSound, Progress

(* Whatever invitations people have signed one another, a walk that is over *)
(* has found the least fixed point that stands in its place in the board's *)
(* model; and the walk down from a banned member and the walks up from the *)
(* others name the same members.                                           *)
THEOREM WalksFindFixedPoints == Walk!Spec => []Walk!WalksAgree
  <1>1. WalkSound => Walk!WalksAgree
    BY DEF WalkSound
  <1>. QED
    BY <1>1, WalkInit, WalkNext, PTL DEF Walk!Spec
=============================================================================
