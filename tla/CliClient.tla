----------------------------- MODULE CliClient -----------------------------
(***************************************************************************)
(* The command line client riverctl (cli/src/api.rs, storage.rs and        *)
(* commands/).                                                             *)
(*                                                                         *)
(* Every command is a process of its own.  Processes share one file,       *)
(* boards.json, which each write replaces as a whole and no lock protects; *)
(* over a connection of its own each asks the node for a board, updates it *)
(* or puts it.  Commands may run at the same time, be killed at any step,  *)
(* and time out while their request is still on its way.                   *)
(*                                                                         *)
(* All boards have the same people here; the user is the owner of boards   *)
(* she created and has an invitation to others.  The bundled contract does *)
(* not change, so that load_boards has no contract keys to correct.        *)
(***************************************************************************)
EXTENDS BoardState

CONSTANTS
    Terminals,
    Boards,
    New,            \* New \subseteq Boards: the user may create these
    Invited,        \* Invited[b]: the members the user holds invitations as
    Published,      \* states of a board when somebody else has published it
    InitialConfiguration,
    BanLimits,      \* values given to max_user_bans
    Sizes,          \* lengths of messages
    Nicknames,      \* lengths of nicknames; the first info says Anonymous,
    DefaultNickname,    \* and one sent with the first message says Member
    MaxCommands,    \* bound on the commands started
    MaxOthers       \* bound on the updates other people make

ASSUME BoardsAssumption == New \subseteq Boards /\ Invited \in [Boards -> SUBSET Members]
ASSUME PublishedAssumption ==
    Published \subseteq ChatBoardState /\ \A s \in Published : Verify(s)
ASSUME ConfigurationAssumption == InitialConfiguration \in Configuration
ASSUME LengthsAssumption ==
    BanLimits \cup Sizes \cup Nicknames \cup {DefaultNickname} \subseteq Nat /\ Sizes # {}
ASSUME BoundsAssumption == {MaxCommands, MaxOthers} \subseteq Nat

VARIABLES
    file,       \* boards.json: its text is whole, empty (opened for writing
                \* and not written yet) or broken, and the boards in it
    contract,   \* the boards as the node has them
    terminal,   \* the command each terminal runs
    request,    \* its request to the node, which may outlive it
    commands,   \* how many commands were started
    others,     \* how many updates other people made
    promised    \* history: the credentials of each board a command reported
                \* to have stored, until another write may have undone them

vars == <<file, contract, terminal, request, commands, others, promised>>
counters == <<commands, others>>

(* StoredBoardInfo.                                                        *)
Entry(key, state) ==
    [key |-> key, state |-> state, self_authorized_member |-> None, invite_chain |-> {}]

Credentials(entry) ==
    [key |-> entry.key, self_authorized_member |-> entry.self_authorized_member]

Whole(boards) == [text |-> "whole", boards |-> boards]
Empty == [text |-> "empty", boards |-> [b \in {} |-> None]]
Broken == [text |-> "broken", boards |-> [b \in {} |-> None]]

Readable == file.text = "whole"
Stored(b) == Readable /\ b \in DOMAIN file.boards

(* An accepted invitation is stored by two commands, accept and vouch.      *)
CommandNames ==
    {"none", "create", "accept", "vouch", "message", "nickname", "republish", "config", "ban"}

(* On what a message relies to be taken: its author is the owner or listed  *)
(* in the copy of the board, is to be listed with the message, or neither.  *)
Standings == {"owner", "listed", "vouched", "none"}

(* What a process has in its memory.  fresh: no other process has written  *)
(* the file since this one loaded it.                                      *)
Begun(command, step, b, key, state) ==
    [command |-> command, step |-> step, board |-> b, key |-> key, state |-> state,
     delta |-> None, message |-> None, chain |-> {}, standing |-> "none",
     content |-> None, fresh |-> TRUE]

Idle == Begun("none", "none", None, None, None)

(* A request: an UPDATE with a delta or a PUT of a state, and for which     *)
(* command it is.                                                          *)
Request ==
    [board : Boards, delta : ChatBoardStateDelta \cup {None},
     state : ChatBoardState \cup {None}, command : CommandNames, standing : Standings]

(* That there is no board, delta or request is told apart from one.         *)
ASSUME AbsentAssumption ==
    None \notin ChatBoardState /\ None \notin ChatBoardStateDelta /\ None \notin Request

Update(t, delta) ==
    [board |-> t.board, delta |-> delta, state |-> None, command |-> t.command,
     standing |-> t.standing]

Put(t) ==
    [board |-> t.board, delta |-> None, state |-> t.state, command |-> t.command,
     standing |-> "none"]

NextId == commands + others + 1

Init ==
    /\ file = Whole([b \in {} |-> None])
    /\ contract \in [Boards -> Published \cup {None}]
    /\ \A b \in Boards : contract[b] = None <=> b \in New
    /\ terminal = [p \in Terminals |-> Idle]
    /\ request = [p \in Terminals |-> None]
    /\ commands = 0 /\ others = 0
    /\ promised = [b \in Boards |-> None]

---------------------------------------------------------------------------
(* The storage: what a command writes, given the boards it loaded.         *)

(* Deviation (CredentialsKept): the file is written with one board only.    *)
AddBoardAlone(boards, b, key, state) == [c \in {b} |-> Entry(key, state)]

AddBoard(boards, b, key, state) ==
    [c \in DOMAIN boards \cup {b} |-> IF c = b THEN Entry(key, state) ELSE boards[c]]

UpdateBoardState(boards, b, state) == [boards EXCEPT ![b].state = state]

StoreAuthorizedMember(boards, b, member, chain) ==
    [boards EXCEPT ![b].self_authorized_member = member, ![b].invite_chain = chain]

---------------------------------------------------------------------------
(* What a command composes.                                                *)

(* Create: a board with nobody but its owner.                              *)
CreatedBoard(nickname) ==
    [configuration |-> InitialConfiguration, admin |-> {}, bans |-> {}, members |-> {},
     member_info |-> {[member_id |-> Owner, version |-> 0, nickname |-> nickname]},
     secrets |-> [current_version |-> 0, versions |-> {}, blobs |-> {}],
     recent_messages |-> {}, upgrade |-> None]

ComposedMessage(key, size) ==
    [id |-> NextId, author |-> key, secret_version |-> None, size |-> size, title |-> 0]

InfoVersion(state, key) ==
    LET own == {i.version : i \in {j \in state.member_info : j.member_id = key}}
    IN  IF own = {} THEN 0 ELSE CHOOSE v \in own : TRUE

(* The user is to be added: neither the owner nor in the copy of the board. *)
Absent(state, key) == key \notin Participants(state.members)

(* What build_rejoin_delta finds in the file; an unreadable file is passed  *)
(* over.                                                                    *)
Authorized(b) == Stored(b) /\ file.boards[b].self_authorized_member # None

(* Deviation (MessageArrives): a member is who has an info.                 *)
RejoinMembersByInfo(state, b, key) ==
    IF /\ Absent(state, key) /\ Authorized(b)
       /\ \A i \in state.member_info : i.member_id # key
    THEN {file.boards[b].self_authorized_member}
            \cup (file.boards[b].invite_chain \ state.members)
    ELSE {}

RejoinMembers(state, b, key) ==
    IF Absent(state, key) /\ Authorized(b)
    THEN {file.boards[b].self_authorized_member}
            \cup (file.boards[b].invite_chain \ state.members)
    ELSE {}

RejoinInfo(state, key) ==
    [member_id |-> key, version |-> InfoVersion(state, key), nickname |-> DefaultNickname]

MessageDelta(state, b, key, message) ==
    LET members == RejoinMembers(state, b, key) IN
    [EmptyDelta EXCEPT !.recent_messages = {message},
                       !.members = members,
                       !.member_info = IF members = {} THEN {} ELSE {RejoinInfo(state, key)}]

Standing(state, b, key) ==
    IF key = Owner THEN "owner"
    ELSE IF ~Absent(state, key) THEN "listed"
    ELSE IF Authorized(b) /\ file.boards[b].self_authorized_member = key THEN "vouched"
    ELSE "none"

(* update_config of a board as fetched.                                    *)
NewConfiguration(config, limit) ==
    [config EXCEPT !.configuration_version = @ + 1, !.max_user_bans = limit]

(* ban_member: whom the user may ban in a board as fetched.                *)
MayBan(key, target, state) ==
    /\ \E i \in state.member_info : i.member_id = target
    /\ target \notin {key, Owner}
    /\ key # Owner =>
            target \in state.members /\ InChainOf(key, target, state.members)

---------------------------------------------------------------------------
(* The first step of a command: from idle to what it found in the file or  *)
(* fetched from the node.  A command that finds nothing changes nothing.   *)

Start(p) ==
    /\ terminal[p] = Idle /\ request[p] = None
    /\ commands < MaxCommands /\ commands' = commands + 1
    /\ UNCHANGED <<file, contract, others, promised>>

(* The node has the board that is asked for.                               *)
Fetchable(b) == contract[b] # None

Goes(p, t) == terminal' = [terminal EXCEPT ![p] = t]
Waits(t) == Begun(t.command, "wait", t.board, None, None)
Asks(p, r) == request' = [request EXCEPT ![p] = r]
AsksNothing == UNCHANGED request

CreateBoard(p, b) ==
    /\ Start(p)
    /\ b \in New /\ contract[b] = None /\ ~Stored(b)
    /\ \A q \in Terminals : terminal[q].board # b /\ (request[q] # None => request[q].board # b)
    /\ \E n \in Nicknames :
        LET t == Begun("create", "wait", b, Owner, CreatedBoard(n))
        IN  Goes(p, t) /\ Asks(p, Put(t))

(* The board is fetched and the chain above the inviter computed; when the  *)
(* board does not hold all of it, it is left empty.                         *)
AcceptInvitation(p, b, m) ==
    LET chain == Required({m}, Members) \ {m} IN
    /\ Start(p)
    /\ m \in Invited[b] /\ Fetchable(b)
    /\ Goes(p, [Begun("accept", "load", b, m, contract[b]) EXCEPT
                    !.chain = IF chain \subseteq Rooted(contract[b].members)
                              THEN chain ELSE {}])
    /\ AsksNothing

(* send_message; so do edit_message, delete_message, add_reaction and       *)
(* remove_reaction, which take any message id for their target.             *)
SendMessage(p, b) ==
    /\ Start(p) /\ Stored(b)
    /\ \E size \in Sizes :
        LET entry == file.boards[b] IN
        Goes(p, [Begun("message", "compose", b, entry.key, entry.state) EXCEPT
                    !.message = ComposedMessage(entry.key, size)])
    /\ AsksNothing

(* The target must be in the copy.                                          *)
SendReply(p, b) ==
    /\ Stored(b) /\ file.boards[b].state.recent_messages # {}
    /\ SendMessage(p, b)

(* The info is written into the copy without apply_delta.                   *)
SetNickname(p, b) ==
    /\ Start(p) /\ Stored(b)
    /\ \E n \in Nicknames :
        LET entry == file.boards[b]
            info == [member_id |-> entry.key, nickname |-> n,
                     version |-> InfoVersion(entry.state, entry.key) + 1]
            infos == {i \in entry.state.member_info : i.member_id # entry.key} \cup {info}
            state == [entry.state EXCEPT !.member_info = infos]
        IN  Goes(p, [Begun("nickname", "load", b, entry.key, state) EXCEPT
                        !.delta = [EmptyDelta EXCEPT !.member_info = {info}]])
    /\ AsksNothing

RepublishBoard(p, b) ==
    /\ Start(p) /\ Stored(b)
    /\ LET t == Begun("republish", "wait", b, file.boards[b].key, file.boards[b].state)
       IN  Goes(p, Waits(t)) /\ Asks(p, Put(t))

(* The commands that fetch the board and at once send a delta for it.       *)
Sends(p, t, delta) == Goes(p, Waits(t)) /\ Asks(p, Update(t, delta))

UpdateConfig(p, b) ==
    /\ Start(p) /\ Stored(b) /\ Fetchable(b)
    /\ file.boards[b].key = Owner
    /\ \E limit \in BanLimits :
        Sends(p, Begun("config", "wait", b, Owner, contract[b]),
              [EmptyDelta EXCEPT
                    !.configuration = NewConfiguration(contract[b].configuration, limit)])

BanMember(p, b) ==
    /\ Start(p) /\ Stored(b) /\ Fetchable(b)
    /\ \E target \in Members :
        /\ MayBan(file.boards[b].key, target, contract[b])
        /\ Sends(p, Begun("ban", "wait", b, file.boards[b].key, contract[b]),
                 [EmptyDelta EXCEPT !.bans =
                    {[id |-> NextId, banned_by |-> file.boards[b].key,
                      banned_user |-> target]}])

(* With a key given on the command line; the owner's is not accepted, and   *)
(* for a member there is nothing to be rejoined.                            *)
SendMessageWithKey(p, b, m) ==
    /\ Start(p) /\ Fetchable(b)
    /\ m \in Invited[b] \cap contract[b].members
    /\ \E size \in Sizes :
        LET delta == MessageDelta(contract[b], b, m, ComposedMessage(m, size)) IN
        /\ Accepts(contract[b], delta)
        /\ Sends(p, [Begun("message", "wait", b, m, contract[b]) EXCEPT !.standing = "listed"],
                 delta)

---------------------------------------------------------------------------
(* The steps after the first.                                              *)

At(p, step) == terminal[p].step = step

(* The file is opened, or about to be, with what is to be written in hand.  *)
Writing(t) == t.step \in {"truncate", "fill"}

Continue(p) == UNCHANGED <<counters, contract>>

(* The delta of a message, applied to the copy before that is stored.       *)
ComposeMessage(p) ==
    LET t == terminal[p] IN
    /\ At(p, "compose") /\ t.command = "message"
    /\ LET delta == MessageDelta(t.state, t.board, t.key, t.message) IN
        Goes(p, IF Accepts(t.state, delta)
                THEN [t EXCEPT !.step = "load", !.delta = delta, !.message = None,
                               !.state = Apply(t.state, delta),
                               !.standing = Standing(t.state, t.board, t.key)]
                ELSE Idle)
    /\ UNCHANGED <<file, request, promised>> /\ Continue(p)

(* The delta of a nickname, after the copy was stored.                      *)
ComposeNickname(p) ==
    LET t == terminal[p]
        delta == [t.delta EXCEPT !.members = RejoinMembers(t.state, t.board, t.key)]
    IN  /\ At(p, "compose") /\ t.command = "nickname"
        /\ Sends(p, t, delta)
        /\ UNCHANGED <<file, promised>> /\ Continue(p)

(* What is to be written, given the boards just loaded.  If the board is    *)
(* gone an update of its state fails, and an authorization is passed over.  *)
Rewritten(t, boards) ==
    CASE t.command \in {"create", "accept"} -> AddBoard(boards, t.board, t.key, t.state)
      [] t.command = "vouch" -> StoreAuthorizedMember(boards, t.board, t.key, t.chain)
      [] OTHER -> UpdateBoardState(boards, t.board, t.state)

Load(p) ==
    LET t == terminal[p] IN
    /\ At(p, "load")
    /\ Goes(p, IF Readable /\ (t.command \in {"create", "accept"} \/ Stored(t.board))
               THEN [t EXCEPT !.step = "truncate", !.fresh = TRUE,
                              !.content = Rewritten(t, file.boards)]
               ELSE Idle)
    /\ UNCHANGED <<file, request, promised>> /\ Continue(p)

Truncate(p) ==
    /\ At(p, "truncate")
    /\ Goes(p, [terminal[p] EXCEPT !.step = "fill"])
    /\ file' = Empty
    /\ UNCHANGED <<request, promised>> /\ Continue(p)

(* After the write: an accepted invitation is written in two rounds, and a  *)
(* message is sent only now.                                                *)
AfterWrite(t) ==
    CASE t.command = "accept" ->
            [t EXCEPT !.command = "vouch", !.step = "load", !.state = None, !.content = None]
      [] t.command = "message" -> Waits(t)
      [] t.command = "nickname" -> [t EXCEPT !.step = "compose", !.content = None]
      [] OTHER -> Idle

Forgotten(t) ==
    IF ~t.fresh THEN [b \in Boards |-> None]
    ELSE IF t.command = "accept" THEN [promised EXCEPT ![t.board] = None] ELSE promised

Fulfilled(t) ==
    IF t.fresh /\ t.command \in {"create", "vouch"}
    THEN [promised EXCEPT ![t.board] = Credentials(t.content[t.board])]
    ELSE Forgotten(t)

(* Over a file that another process has filled in the meantime the text may *)
(* be too short.                                                            *)
Fill(p) ==
    LET t == terminal[p] IN
    /\ At(p, "fill")
    /\ file' \in {Whole(t.content)} \cup (IF file = Empty THEN {} ELSE {Broken})
    /\ terminal' = [q \in Terminals |->
                        IF q = p THEN AfterWrite(t)
                        ELSE [terminal[q] EXCEPT !.fresh = ~Writing(terminal[q])]]
    /\ IF t.command = "message" THEN Asks(p, Update(t, t.delta)) ELSE AsksNothing
    /\ promised' = Fulfilled(t)
    /\ Continue(p)

(* Interrupted, or out of time: what was asked may still be done.           *)
Kill(p) ==
    /\ terminal[p] # Idle
    /\ Goes(p, Idle)
    /\ UNCHANGED <<file, request, promised>> /\ Continue(p)

---------------------------------------------------------------------------
(* The node.                                                               *)

(* Deviation (RepublishRestores): a state put over another is dropped.      *)
PutAfterKeeping(s, t) == IF s = None THEN t ELSE s

PutAccepted(s, t) == IF s = None THEN Verify(t) ELSE MergeAccepts(s, t)
PutAfter(s, t) == IF s = None THEN t ELSE Merge(s, t)

Accepted(r) ==
    LET s == contract[r.board] IN
    IF r.delta = None THEN PutAccepted(s, r.state) ELSE s # None /\ Accepts(s, r.delta)

After(r) ==
    LET s == contract[r.board] IN
    IF r.delta = None THEN PutAfter(s, r.state) ELSE Apply(s, r.delta)

(* The answer ends the command; a board that was created is now stored.     *)
Deliver(p) ==
    LET r == request[p]
        t == terminal[p]
    IN  /\ r # None
        /\ contract' = IF Accepted(r) THEN [contract EXCEPT ![r.board] = After(r)]
                       ELSE contract
        /\ Goes(p, IF t.command = "create" /\ Accepted(r) THEN [t EXCEPT !.step = "load"]
                   ELSE Idle)
        /\ Asks(p, None)
        /\ UNCHANGED <<file, counters, promised>>

(* The connection is lost, and the request with it.                        *)
Lose(p) ==
    /\ request[p] # None
    /\ Goes(p, Idle) /\ Asks(p, None)
    /\ UNCHANGED <<file, promised>> /\ Continue(p)

(* Updates of other people, made where the board is as the node has it: the *)
(* owner bans and configures, and somebody writes.                          *)
OthersDeltas(s, b) ==
    {[EmptyDelta EXCEPT !.bans = {[id |-> NextId, banned_by |-> Owner, banned_user |-> m]}] :
        m \in s.members}
    \cup {[EmptyDelta EXCEPT !.configuration = NewConfiguration(s.configuration, limit)] :
        limit \in BanLimits}
    \cup {[EmptyDelta EXCEPT
            !.recent_messages = {ComposedMessage(m, CHOOSE size \in Sizes : TRUE)},
            !.members = Required({m}, Members) \ s.members,
            !.member_info = IF Absent(s, m) THEN {RejoinInfo(s, m)} ELSE {}] :
        m \in Members \ Invited[b]}

Others(b) ==
    /\ others < MaxOthers /\ others' = others + 1
    /\ Fetchable(b)
    /\ \E d \in OthersDeltas(contract[b], b) :
        /\ Accepts(contract[b], d)
        /\ contract' = [contract EXCEPT ![b] = Apply(contract[b], d)]
    /\ UNCHANGED <<file, terminal, request, commands, promised>>

---------------------------------------------------------------------------

Commands(p) ==
    \E b \in Boards :
        \/ CreateBoard(p, b) \/ SendMessage(p, b) \/ SendReply(p, b) \/ SetNickname(p, b)
        \/ RepublishBoard(p, b) \/ UpdateConfig(p, b) \/ BanMember(p, b)
        \/ \E m \in Invited[b] : AcceptInvitation(p, b, m) \/ SendMessageWithKey(p, b, m)

Steps(p) ==
    \/ ComposeMessage(p) \/ ComposeNickname(p)
    \/ Load(p) \/ Truncate(p) \/ Fill(p) \/ Kill(p)
    \/ Deliver(p) \/ Lose(p)

Next == (\E p \in Terminals : Commands(p) \/ Steps(p)) \/ \E b \in Boards : Others(b)

Spec == Init /\ [][Next]_vars

---------------------------------------------------------------------------

TypeOK ==
    /\ file.text \in {"whole", "empty", "broken"}
    /\ \A b \in DOMAIN file.boards :
        LET e == file.boards[b] IN
        /\ b \in Boards /\ e.key \in Principals /\ e.state \in ChatBoardState
        /\ e.self_authorized_member \in Members \cup {None} /\ e.invite_chain \subseteq Members
    /\ contract \in [Boards -> ChatBoardState \cup {None}]
    /\ \A p \in Terminals :
        /\ IF Writing(terminal[p])
           THEN terminal[p].board \in DOMAIN terminal[p].content
           ELSE terminal[p].content = None
        /\ request[p] # None =>
            \/ request[p].delta \in ChatBoardStateDelta
            \/ request[p].delta = None /\ request[p].state \in ChatBoardState
        /\ terminal[p].step = "wait" => request[p] # None
    /\ commands \in 0..MaxCommands /\ others \in 0..MaxOthers

(* What create and accept reported to have stored of a board, the key and   *)
(* for an invited member the authorization, stays in the file, whatever the *)
(* other commands do and wherever they are cut off: unless a command wrote  *)
(* what it loaded before another wrote, or an invitation to the same board  *)
(* replaces it.  (A file that is cut off can no longer be read at all.)     *)
CredentialsKept ==
    Readable => \A b \in Boards :
        promised[b] # None => Stored(b) /\ Credentials(file.boards[b]) = promised[b]

Barred(s, m) == Required({m}, Members) \cap BannedUsers(s.bans) # {}

Missing(m, s) ==
    /\ m \notin s.recent_messages
    /\ m.size <= s.configuration.max_message_size /\ ~Barred(s, m.author)

Taken(p, command) ==
    Deliver(p) /\ request[p].command = command /\ Accepted(request[p])

(* Messages of a request that its board is to have afterwards and has not.  *)
Dropped(messages, b) == {m \in messages : Missing(m, contract'[b])}

(* A message the node took the delta of, and the command reports as sent,   *)
(* is on the board unless it is too long or its author banned, provided     *)
(* that the author was rightly taken for a member, or was to be added with  *)
(* the message: also when bans, other messages and lost requests come in    *)
(* between.                                                                 *)
MessageArrives ==
    [][\A p \in Terminals : Taken(p, "message") =>
        LET r == request[p] IN
        \A m \in Dropped(r.delta.recent_messages, r.board) :
            \/ r.standing = "none"
            \/ r.standing = "listed" /\ m.author \notin contract[r.board].members]_vars

(* A board that was republished has every message of the copy again, of     *)
(* those that updates lost on the way or dropped never brought there, too.  *)
RepublishRestores ==
    [][\A p \in Terminals : Taken(p, "republish") =>
        Dropped(request[p].state.recent_messages, request[p].board) = {}]_vars

(* A configuration replaces only the one it was made from: of two that were *)
(* made from the same, one is refused.                                      *)
ConfigurationsInOrder ==
    [][\A b \in Boards : contract[b] # None =>
        LET now == contract[b].configuration
            next == contract'[b].configuration
        IN  next # now => next.configuration_version = now.configuration_version + 1]_vars
=============================================================================
