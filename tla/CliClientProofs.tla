--------------------------- MODULE CliClientProofs ---------------------------
(***************************************************************************)
(* What the commands of the command line client leave in their file and at *)
(* the node, for any boards, members, terminals and numbers of commands.    *)
(*                                                                         *)
(* Data says what each process has in hand at each of its steps, and that  *)
(* no copy of a board, in the file, a process or a request, has a newer    *)
(* configuration than the contract.  Kept says what a write in hand does   *)
(* to what an earlier command reported to have stored.  AllOrderly says    *)
(* that all copies are boards whose bans are from above, from which it     *)
(* follows who is barred when an update removes somebody.                  *)
(***************************************************************************)
EXTENDS CliClient, BoardStateProofs

(* A board in the file, and the boards that may be in it.                   *)
StoredEntry ==
    [key : Principals, state : ChatBoardState, self_authorized_member : Members \cup {None},
     invite_chain : SUBSET Members]

Contents == UNION {[D -> StoredEntry] : D \in SUBSET Boards}

StepNames == {"none", "compose", "load", "truncate", "fill", "wait"}

Process ==
    [command : CommandNames, step : StepNames, board : Boards \cup {None},
     key : Principals \cup {None}, state : ChatBoardState \cup {None},
     delta : ChatBoardStateDelta \cup {None}, message : Message \cup {None},
     chain : SUBSET Members, standing : Standings, content : Contents \cup {None},
     fresh : BOOLEAN]

(* A delta that leaves the configuration alone.                            *)
Plain(d) == d \in ChatBoardStateDelta /\ d.configuration = None

(* What a command has in hand until it has written the file.               *)
InHand(t) ==
    /\ t.key \in Principals
    /\ t.command \in {"create", "accept", "vouch", "message", "nickname"}
    /\ t.command \in {"accept", "vouch"} => t.key \in Members
    /\ t.command # "vouch" => t.state \in ChatBoardState
    /\ t.step = "compose" => t.command \in {"message", "nickname"}
    /\ t.command = "message" =>
            IF t.step = "compose" THEN t.message \in Message ELSE Plain(t.delta)
    /\ t.command = "nickname" => Plain(t.delta)

(* A process between its steps, at one and after the last.                 *)
ProcessOK(t) ==
    /\ t \in Process
    /\ t.step # "none" => t.board \in Boards
    /\ t.step = "none" => t.command = "none" /\ t.state = None
    /\ (t.step \notin {"none", "wait"} \/ t.command = "create") => InHand(t)
    /\ IF Writing(t) THEN t.content \in Contents /\ t.board \in DOMAIN t.content
       ELSE t.content = None

RequestOK(r) ==
    /\ r \in Request
    /\ \/ r.delta \in ChatBoardStateDelta
       \/ r.delta = None /\ r.state \in ChatBoardState

(* Copies of a board are not ahead of the contract, nor of each other as    *)
(* long as there is none.                                                  *)
NotAhead(s, c) ==
    IF c = None THEN s.configuration = InitialConfiguration
    ELSE s.configuration.configuration_version <= c.configuration.configuration_version

(* A delta brings at most the next configuration.                          *)
AtMostNext(d, c) ==
    d.configuration # None =>
        /\ c # None
        /\ d.configuration.configuration_version <= c.configuration.configuration_version + 1

(* The copies in a content of the file, in a process and in a request, when *)
(* the boards are c at the node.                                            *)
AllBehind(boards, c) == \A b \in DOMAIN boards : NotAhead(boards[b].state, c[b])

ProcessBehind(t, c) ==
    /\ t.state # None => NotAhead(t.state, c[t.board])
    /\ Writing(t) => AllBehind(t.content, c)

RequestBehind(r, c) ==
    IF r.delta = None THEN NotAhead(r.state, c[r.board]) ELSE AtMostNext(r.delta, c[r.board])

Nodes == [Boards -> ChatBoardState \cup {None}]

(* What the processes share.                                               *)
Shared ==
    /\ file \in [text : {"whole", "empty", "broken"}, boards : Contents]
    /\ contract \in Nodes
    /\ AllBehind(file.boards, contract)
    /\ promised \in [Boards -> [key : Principals, self_authorized_member : Members \cup {None}]
                                    \cup {None}]
    /\ commands \in 0..MaxCommands /\ others \in 0..MaxOthers

(* What each has in its memory, and on its way to the node.                *)
Memory ==
    /\ terminal \in [Terminals -> Process]
    /\ \A p \in Terminals : ProcessOK(terminal[p]) /\ ProcessBehind(terminal[p], contract)

Requests ==
    /\ request \in [Terminals -> Request \cup {None}]
    /\ \A p \in Terminals :
        /\ request[p] # None => RequestOK(request[p]) /\ RequestBehind(request[p], contract)
        /\ request[p] # None => terminal[p].step \in {"none", "wait"}
        /\ terminal[p].step = "wait" => request[p] # None

Data == Shared /\ Memory /\ Requests

(* A write in hand that no other write has overtaken keeps what was promised *)
(* of a board, or promises anew.                                            *)
Keeps(t, promise, b) ==
    \/ t.command \in {"create", "accept", "vouch"} /\ t.board = b
    \/ b \in DOMAIN t.content /\ Credentials(t.content[b]) = promise

Kept ==
    \A b \in Boards : promised[b] # None =>
        /\ Readable => Stored(b) /\ Credentials(file.boards[b]) = promised[b]
        /\ \A p \in Terminals :
            Writing(terminal[p]) /\ terminal[p].fresh => Keeps(terminal[p], promised[b], b)

IInv == Data /\ Kept

---------------------------------------------------------------------------
(* What commands compose.                                                  *)

LEMMA EmptyDeltaType == Plain(EmptyDelta)
  BY DEF EmptyDelta, Plain, ChatBoardStateDelta

LEMMA CreatedType ==
    ASSUME NEW n \in Nicknames
    PROVE  /\ CreatedBoard(n) \in ChatBoardState
           /\ CreatedBoard(n).configuration = InitialConfiguration
  BY ConfigurationAssumption, LengthsAssumption
  DEF CreatedBoard, ChatBoardState, Secrets, MemberInfo, Principals

LEMMA InfoType ==
    ASSUME NEW s \in ChatBoardState, NEW key \in Principals
    PROVE  InfoVersion(s, key) \in Nat /\ RejoinInfo(s, key) \in MemberInfo
  <1>. DEFINE own == {i.version : i \in {j \in s.member_info : j.member_id = key}}
  <1>1. own \subseteq Nat
    BY DEF ChatBoardState, MemberInfo
  <1>2. InfoVersion(s, key) \in Nat
    BY <1>1 DEF InfoVersion
  <1>. QED
    BY <1>2, LengthsAssumption DEF RejoinInfo, MemberInfo

LEMMA NextIdType == Shared => NextId \in Nat
  BY BoundsAssumption DEF Shared, NextId

LEMMA MessageType ==
    ASSUME Shared, NEW key \in Principals, NEW size \in Sizes
    PROVE  ComposedMessage(key, size) \in Message
  BY NextIdType, LengthsAssumption DEF ComposedMessage, Message

(* A board that is stored.                                                 *)
LEMMA StoredType ==
    ASSUME Shared, NEW b, Stored(b)
    PROVE  /\ b \in Boards /\ file.boards[b] \in StoredEntry
           /\ NotAhead(file.boards[b].state, contract[b])
  BY DEF Shared, Stored, Contents, AllBehind

LEMMA RejoinType ==
    ASSUME Shared, NEW s, NEW b, NEW key
    PROVE  RejoinMembers(s, b, key) \subseteq Members
  BY StoredType DEF RejoinMembers, Authorized, StoredEntry

LEMMA MessageDeltaType ==
    ASSUME Shared, NEW s \in ChatBoardState, NEW b, NEW key \in Principals, NEW m \in Message
    PROVE  Plain(MessageDelta(s, b, key, m))
  <1>1. RejoinMembers(s, b, key) \subseteq Members /\ RejoinInfo(s, key) \in MemberInfo
    BY RejoinType, InfoType
  <1>. QED
    BY <1>1, EmptyDeltaType DEF MessageDelta, Plain, ChatBoardStateDelta

LEMMA NewConfigurationType ==
    ASSUME NEW c \in Configuration, NEW limit \in Nat
    PROVE  /\ NewConfiguration(c, limit) \in Configuration
           /\ NewConfiguration(c, limit).configuration_version = c.configuration_version + 1
  <1>1. c.configuration_version + 1 \in Nat
    BY DEF Configuration
  <1>2. [c EXCEPT !.configuration_version = c.configuration_version + 1] \in Configuration
    BY <1>1 DEF Configuration
  <1>. QED
    BY <1>1, <1>2 DEF NewConfiguration, Configuration

LEMMA ConfigurationDeltaType ==
    ASSUME NEW s \in ChatBoardState, NEW limit \in BanLimits
    PROVE  LET d == [EmptyDelta EXCEPT
                        !.configuration = NewConfiguration(s.configuration, limit)]
           IN  d \in ChatBoardStateDelta /\ AtMostNext(d, s)
  <1>. DEFINE new == NewConfiguration(s.configuration, limit)
              d == [EmptyDelta EXCEPT !.configuration = new]
  <1>1. /\ s.configuration \in Configuration /\ limit \in Nat
        /\ s.configuration.configuration_version \in Nat
    BY LengthsAssumption DEF ChatBoardState, Configuration
  <1>2. /\ new \in Configuration
        /\ new.configuration_version = s.configuration.configuration_version + 1
    BY <1>1, NewConfigurationType
  <1>. HIDE DEF new
  <1>3. d \in ChatBoardStateDelta /\ d.configuration = new
    BY <1>2, EmptyDeltaType DEF Plain, ChatBoardStateDelta
  <1>. QED
    BY <1>1, <1>2, <1>3, AbsentAssumption DEF AtMostNext, new

LEMMA PlainNext == ASSUME NEW d, Plain(d), NEW c PROVE AtMostNext(d, c)
  BY DEF Plain, AtMostNext

LEMMA BanDeltaType ==
    ASSUME Shared, NEW x \in Principals, NEW y \in Members
    PROVE  Plain([EmptyDelta EXCEPT
                    !.bans = {[id |-> NextId, banned_by |-> x, banned_user |-> y]}])
  BY NextIdType, EmptyDeltaType DEF Plain, ChatBoardStateDelta, Ban, Principals

LEMMA OthersType ==
    ASSUME Shared, NEW s \in ChatBoardState, NEW b \in Boards, NEW d \in OthersDeltas(s, b)
    PROVE  d \in ChatBoardStateDelta /\ AtMostNext(d, s)
  <1>1. CASE \E m \in s.members :
                d = [EmptyDelta EXCEPT
                        !.bans = {[id |-> NextId, banned_by |-> Owner, banned_user |-> m]}]
    <2>1. Owner \in Principals /\ s.members \subseteq Members
      BY DEF Principals, ChatBoardState
    <2>. QED
      BY <1>1, <2>1, BanDeltaType, PlainNext DEF Plain
  <1>2. CASE \E limit \in BanLimits :
                d = [EmptyDelta EXCEPT
                        !.configuration = NewConfiguration(s.configuration, limit)]
    BY <1>2, ConfigurationDeltaType
  <1>3. ASSUME NEW m \in Members \ Invited[b],
               d = [EmptyDelta EXCEPT
                        !.recent_messages = {ComposedMessage(m, CHOOSE size \in Sizes : TRUE)},
                        !.members = Required({m}, Members) \ s.members,
                        !.member_info = IF Absent(s, m) THEN {RejoinInfo(s, m)} ELSE {}]
        PROVE  d \in ChatBoardStateDelta /\ AtMostNext(d, s)
    <2>1. m \in Principals /\ (CHOOSE size \in Sizes : TRUE) \in Sizes
      BY LengthsAssumption DEF Principals
    <2>2. /\ ComposedMessage(m, CHOOSE size \in Sizes : TRUE) \in Message
          /\ RejoinInfo(s, m) \in MemberInfo /\ Required({m}, Members) \subseteq Members
      BY <2>1, MessageType, InfoType, RequiredFacts
    <2>3. Plain(d)
      BY <1>3, <2>2, EmptyDeltaType DEF Plain, ChatBoardStateDelta
    <2>. QED
      BY <2>3, PlainNext DEF Plain
  <1>. QED
    BY <1>1, <1>2, <1>3 DEF OthersDeltas

---------------------------------------------------------------------------
(* The node: how a board there changes.                                    *)

SameOrNext(config, new) ==
    \/ new = config
    \/ new.configuration_version = config.configuration_version + 1

(* A board as it may be after it was c.                                    *)
Advanced(c, d) ==
    \/ d = c
    \/ c = None /\ d \in ChatBoardState /\ d.configuration = InitialConfiguration
    \/ /\ c \in ChatBoardState /\ d \in ChatBoardState
       /\ SameOrNext(c.configuration, d.configuration)

LEMMA Configured ==
    ASSUME NEW s \in ChatBoardState, NEW d \in ChatBoardStateDelta, Accepts(s, d)
    PROVE  Apply(s, d).configuration = ConfigurationAfter(s.configuration, d.configuration)
  <1>1. Applied(s, d) \in ChatBoardState
    BY AppliedType DEF Accepts
  <1>. QED
    BY <1>1, CleanupFacts DEF Apply, Applied

(* An update takes the configuration it has, or the next one.              *)
LEMMA UpdateAdvances ==
    ASSUME NEW s \in ChatBoardState, NEW d \in ChatBoardStateDelta, Accepts(s, d),
           AtMostNext(d, s)
    PROVE  Advanced(s, Apply(s, d))
  <1>1. Apply(s, d) \in ChatBoardState
    BY ApplyType
  <1>2. Apply(s, d).configuration = ConfigurationAfter(s.configuration, d.configuration)
    BY Configured
  <1>3. CASE d.configuration = None
    BY <1>1, <1>2, <1>3 DEF ConfigurationAfter, Advanced, SameOrNext
  <1>4. CASE d.configuration # None
    <2>1. d.configuration \in Configuration /\ s.configuration \in Configuration
      BY <1>4 DEF ChatBoardStateDelta, ChatBoardState
    <2>2. d.configuration.configuration_version > s.configuration.configuration_version
      BY <1>4 DEF Accepts, ConfigurationAccepted
    <2>3. d.configuration.configuration_version = s.configuration.configuration_version + 1
      BY <1>4, <2>1, <2>2 DEF AtMostNext, Configuration
    <2>. QED
      BY <1>1, <1>2, <1>4, <2>3 DEF ConfigurationAfter, Advanced, SameOrNext
  <1>. QED
    BY <1>3, <1>4

(* A state that is not ahead leaves the configuration alone.               *)
LEMMA MergeAdvances ==
    ASSUME NEW s \in ChatBoardState, NEW t \in ChatBoardState, MergeAccepts(s, t),
           NotAhead(t, s)
    PROVE  Advanced(s, Merge(s, t))
  <1>1. Delta(t, s).configuration = None
    <2>1. t.configuration.configuration_version <= s.configuration.configuration_version
      BY AbsentAssumption DEF NotAhead
    <2>2. /\ t.configuration.configuration_version \in Nat
          /\ s.configuration.configuration_version \in Nat
      BY DEF ChatBoardState, Configuration
    <2>. QED
      BY <2>1, <2>2 DEF Delta, DeltaConfiguration
  <1>2. Delta(t, s) \in ChatBoardStateDelta /\ AtMostNext(Delta(t, s), s)
    BY <1>1, DeltaType DEF AtMostNext
  <1>. QED
    BY <1>2, UpdateAdvances DEF Merge, MergeAccepts, Advanced

LEMMA Delivered ==
    ASSUME Shared, NEW r, RequestOK(r), RequestBehind(r, contract), Accepted(r)
    PROVE  Advanced(contract[r.board], After(r))
  <1>. DEFINE s == contract[r.board]
  <1>1. r.board \in Boards /\ s \in ChatBoardState \cup {None}
    BY DEF RequestOK, Request, Shared, Nodes
  <1>2. CASE r.delta # None
    <2>1. s \in ChatBoardState /\ r.delta \in ChatBoardStateDelta /\ Accepts(s, r.delta)
      BY <1>1, <1>2 DEF Accepted, RequestOK
    <2>2. AtMostNext(r.delta, s) /\ After(r) = Apply(s, r.delta)
      BY <1>2 DEF RequestBehind, After
    <2>. QED
      BY <2>1, <2>2, UpdateAdvances
  <1>3. CASE r.delta = None
    <2>1. r.state \in ChatBoardState /\ NotAhead(r.state, s)
      BY <1>3, AbsentAssumption DEF RequestOK, RequestBehind
    <2>2. PutAccepted(s, r.state) /\ After(r) = PutAfter(s, r.state)
      BY <1>3 DEF Accepted, After
    <2>3. CASE s = None
      BY <2>1, <2>2, <2>3 DEF PutAfter, NotAhead, Advanced
    <2>4. CASE s # None
      BY <1>1, <2>1, <2>2, <2>4, MergeAdvances DEF PutAccepted, PutAfter
    <2>. QED
      BY <2>3, <2>4
  <1>. QED
    BY <1>2, <1>3

(* Copies that are not ahead of a board are not ahead of it later.         *)
LEMMA NotAheadLater ==
    ASSUME NEW c \in ChatBoardState \cup {None}, NEW d, Advanced(c, d),
           NEW s \in ChatBoardState, NotAhead(s, c)
    PROVE  NotAhead(s, d)
  <1>1. s.configuration.configuration_version \in Nat
    BY DEF ChatBoardState, Configuration
  <1>2. CASE d = c
    BY <1>2
  <1>3. CASE c = None /\ d \in ChatBoardState /\ d.configuration = InitialConfiguration
    BY <1>1, <1>3, AbsentAssumption DEF NotAhead
  <1>4. CASE /\ c \in ChatBoardState /\ d \in ChatBoardState
             /\ SameOrNext(c.configuration, d.configuration)
    <2>1. /\ c.configuration.configuration_version \in Nat
          /\ d.configuration.configuration_version \in Nat
      BY <1>4 DEF ChatBoardState, Configuration
    <2>. QED
      BY <1>1, <1>4, <2>1, AbsentAssumption DEF NotAhead, SameOrNext
  <1>. QED
    BY <1>2, <1>3, <1>4 DEF Advanced

LEMMA AtMostNextLater ==
    ASSUME NEW c \in ChatBoardState \cup {None}, NEW d, Advanced(c, d),
           NEW x \in ChatBoardStateDelta, AtMostNext(x, c)
    PROVE  AtMostNext(x, d)
  <1>. SUFFICES ASSUME x.configuration # None, c # None, d # c
                PROVE  AtMostNext(x, d)
    BY DEF AtMostNext
  <1>1. c \in ChatBoardState /\ d \in ChatBoardState
    BY DEF Advanced
  <1>2. /\ c.configuration.configuration_version \in Nat
        /\ d.configuration.configuration_version \in Nat
        /\ x.configuration.configuration_version \in Nat
    BY <1>1 DEF ChatBoardState, ChatBoardStateDelta, Configuration
  <1>. QED
    BY <1>1, <1>2, AbsentAssumption DEF AtMostNext, Advanced, SameOrNext

(* The boards at the node as they may be after they were c.                *)
AllAdvanced(c, d) == \A b \in Boards : Advanced(c[b], d[b])

LEMMA ContentLater ==
    ASSUME NEW c \in Nodes, NEW d, AllAdvanced(c, d), NEW boards \in Contents,
           AllBehind(boards, c)
    PROVE  AllBehind(boards, d)
  <1>. SUFFICES ASSUME NEW b \in DOMAIN boards
                PROVE  NotAhead(boards[b].state, d[b])
    BY DEF AllBehind
  <1>1. b \in Boards /\ boards[b] \in StoredEntry
    BY DEF Contents
  <1>. QED
    BY <1>1, NotAheadLater DEF StoredEntry, AllBehind, AllAdvanced, Nodes

LEMMA ProcessLater ==
    ASSUME NEW c \in Nodes, NEW d, AllAdvanced(c, d), NEW t, ProcessOK(t), ProcessBehind(t, c)
    PROVE  ProcessBehind(t, d)
  <1>1. t.state # None => NotAhead(t.state, d[t.board])
    <2>. SUFFICES ASSUME t.state # None
                  PROVE  NotAhead(t.state, d[t.board])
      OBVIOUS
    <2>1. t.board \in Boards /\ t.state \in ChatBoardState
      BY DEF ProcessOK, Process, Idle, Begun
    <2>. QED
      BY <2>1, NotAheadLater DEF ProcessBehind, AllAdvanced, Nodes
  <1>2. Writing(t) => AllBehind(t.content, d)
    BY ContentLater DEF ProcessOK, ProcessBehind
  <1>. QED
    BY <1>1, <1>2 DEF ProcessBehind

LEMMA RequestLater ==
    ASSUME NEW c \in Nodes, NEW d, AllAdvanced(c, d), NEW r, RequestOK(r), RequestBehind(r, c)
    PROVE  RequestBehind(r, d)
  <1>1. r.board \in Boards /\ Advanced(c[r.board], d[r.board])
    BY DEF RequestOK, Request, AllAdvanced
  <1>2. c[r.board] \in ChatBoardState \cup {None}
    BY <1>1 DEF Nodes
  <1>3. CASE r.delta = None
    BY <1>1, <1>2, <1>3, NotAheadLater, AbsentAssumption DEF RequestOK, RequestBehind
  <1>4. CASE r.delta # None
    BY <1>1, <1>2, <1>4, AtMostNextLater DEF RequestOK, RequestBehind
  <1>. QED
    BY <1>3, <1>4

---------------------------------------------------------------------------
(* Data is invariant.                                                      *)

(* A process with nothing in hand but a key and a copy.                    *)
LEMMA BegunType ==
    ASSUME NEW command \in CommandNames, NEW step \in StepNames,
           NEW b \in Boards \cup {None}, NEW key \in Principals \cup {None},
           NEW state \in ChatBoardState \cup {None}
    PROVE  Begun(command, step, b, key, state) \in Process
  BY DEF Begun, Process, Standings

LEMMA IdleOK == ProcessOK(Idle) /\ ProcessBehind(Idle, contract)
  <1>1. Idle \in Process
    BY BegunType DEF Idle, CommandNames, StepNames
  <1>2. Idle.step = "none" /\ Idle.command = "none" /\ Idle.state = None /\ Idle.content = None
    BY DEF Idle, Begun
  <1>. QED
    BY <1>1, <1>2 DEF ProcessOK, ProcessBehind, Writing

LEMMA InitData == Init => Data
  <1>. SUFFICES ASSUME Init PROVE Data
    OBVIOUS
  <1>1. DOMAIN file.boards = {} /\ file.boards \in Contents
    <2>1. file.boards = [b \in {} |-> None] /\ file.boards \in [{} -> StoredEntry]
      BY DEF Init, Whole
    <2>. QED
      BY <2>1 DEF Contents
  <1>2. contract \in Nodes
    BY PublishedAssumption DEF Init, Nodes
  <1>3. Shared
    BY <1>1, <1>2, BoundsAssumption DEF Init, Whole, Shared, AllBehind
  <1>4. Memory
    BY IdleOK DEF Init, Memory, ProcessOK
  <1>5. Requests
    BY DEF Init, Requests, Idle, Begun
  <1>. QED
    BY <1>3, <1>4, <1>5 DEF Data

(* One process goes on to t, and asks the node for something or not.       *)
LEMMA Moves ==
    ASSUME Memory, Requests, NEW p \in Terminals, NEW t, Goes(p, t), UNCHANGED contract,
           ProcessOK(t), ProcessBehind(t, contract),
           \/ /\ AsksNothing
              /\ t.step = "wait" => request[p] # None
              /\ request[p] # None => t.step \in {"none", "wait"}
           \/ \E r : /\ Asks(p, r) /\ RequestOK(r) /\ RequestBehind(r, contract)
                     /\ t.step = "wait"
           \/ Asks(p, None) /\ t.step # "wait"
    PROVE  (Memory /\ Requests)'
  <1>1. terminal'[p] = t /\ \A q \in Terminals \ {p} : terminal'[q] = terminal[q]
    BY DEF Goes, Memory
  <1>2. Memory'
    BY <1>1 DEF Goes, Memory, ProcessOK
  <1>3. ASSUME AsksNothing, t.step = "wait" => request[p] # None,
               request[p] # None => t.step \in {"none", "wait"}
        PROVE  Requests'
    BY <1>1, <1>3 DEF AsksNothing, Requests
  <1>4. ASSUME NEW r, Asks(p, r), RequestOK(r), RequestBehind(r, contract),
               t.step = "wait"
        PROVE  Requests'
    <2>1. request'[p] = r /\ \A q \in Terminals \ {p} : request'[q] = request[q]
      BY <1>4 DEF Asks, Requests
    <2>2. r \in Request /\ r # None
      BY <1>4, AbsentAssumption DEF RequestOK
    <2>. QED
      BY <1>1, <1>4, <2>1, <2>2 DEF Asks, Requests
  <1>5. ASSUME Asks(p, None), t.step # "wait"
        PROVE  Requests'
    <2>1. request'[p] = None /\ \A q \in Terminals \ {p} : request'[q] = request[q]
      BY <1>5 DEF Asks, Requests
    <2>. QED
      BY <1>1, <1>5, <2>1 DEF Asks, Requests
  <1>. QED
    BY <1>2, <1>3, <1>4, <1>5

(* The first step of a command.                                            *)
LEMMA Begins ==
    ASSUME Data, NEW p \in Terminals, Start(p), NEW t, Goes(p, t),
           ProcessOK(t), ProcessBehind(t, contract),
           \/ AsksNothing /\ t.step # "wait"
           \/ \E r : /\ Asks(p, r) /\ RequestOK(r) /\ RequestBehind(r, contract)
                     /\ t.step = "wait"
    PROVE  Data'
  <1>1. Shared'
    <2>1. commands' \in 0..MaxCommands
      BY BoundsAssumption DEF Data, Shared, Start
    <2>. QED
      BY <2>1 DEF Data, Shared, Start
  <1>2. (Memory /\ Requests)'
    BY Moves DEF Data, Start
  <1>. QED
    BY <1>1, <1>2 DEF Data

(* The processes of the commands that wait for the node after their first  *)
(* step, and the requests.                                                 *)
LEMMA WaitsOK ==
    ASSUME NEW t, t.command \in CommandNames \ {"create"}, t.board \in Boards
    PROVE  ProcessOK(Waits(t)) /\ ProcessBehind(Waits(t), contract) /\ Waits(t).step = "wait"
  <1>. DEFINE w == Waits(t)
  <1>1. w \in Process
    <2>1. "wait" \in StepNames /\ t.command \in CommandNames
      BY DEF StepNames
    <2>. QED
      BY <2>1, BegunType DEF Waits
  <1>2. w.step = "wait" /\ w.command # "create" /\ w.board \in Boards /\ w.state = None
        /\ w.content = None
    BY DEF Waits, Begun
  <1>. QED
    BY <1>1, <1>2 DEF ProcessOK, ProcessBehind, Writing

LEMMA ProcessFields ==
    ASSUME NEW t \in Process
    PROVE  t.command \in CommandNames /\ t.standing \in Standings
  BY DEF Process

LEMMA UpdateOK ==
    ASSUME NEW t \in Process, t.board \in Boards, NEW d \in ChatBoardStateDelta,
           AtMostNext(d, contract[t.board])
    PROVE  RequestOK(Update(t, d)) /\ RequestBehind(Update(t, d), contract)
  <1>1. Update(t, d) \in Request
    BY ProcessFields DEF Update, Request
  <1>2. Update(t, d).delta = d /\ Update(t, d).board = t.board /\ d # None
    BY AbsentAssumption DEF Update
  <1>. QED
    BY <1>1, <1>2 DEF RequestOK, RequestBehind

LEMMA PutOK ==
    ASSUME NEW t \in Process, t.board \in Boards, t.state \in ChatBoardState,
           NotAhead(t.state, contract[t.board])
    PROVE  RequestOK(Put(t)) /\ RequestBehind(Put(t), contract)
  <1>1. Put(t) \in Request
    BY ProcessFields DEF Put, Request, Standings
  <1>2. Put(t).delta = None /\ Put(t).board = t.board /\ Put(t).state = t.state
    BY DEF Put
  <1>. QED
    BY <1>1, <1>2 DEF RequestOK, RequestBehind

(* A command that sends a delta at once.                                   *)
LEMMA BeginsSending ==
    ASSUME Data, NEW p \in Terminals, Start(p), NEW t \in Process, t.board \in Boards,
           t.command # "create", NEW d \in ChatBoardStateDelta,
           AtMostNext(d, contract[t.board]), Sends(p, t, d)
    PROVE  Data'
  <1>1. ProcessOK(Waits(t)) /\ ProcessBehind(Waits(t), contract) /\ Waits(t).step = "wait"
    BY WaitsOK DEF Process
  <1>2. RequestOK(Update(t, d)) /\ RequestBehind(Update(t, d), contract)
    BY UpdateOK
  <1>. QED
    BY <1>1, <1>2, Begins DEF Sends

(* A command that only reads the file or the node at first.                *)
LEMMA BeginsReading ==
    ASSUME Data, NEW p \in Terminals, Start(p), NEW t \in Process, Goes(p, t), AsksNothing,
           t.step \in {"compose", "load"}, t.board \in Boards, t.content = None, InHand(t),
           t.state \in ChatBoardState => NotAhead(t.state, contract[t.board])
    PROVE  Data'
  <1>1. ProcessOK(t) /\ ProcessBehind(t, contract)
    BY DEF ProcessOK, ProcessBehind, Process, Writing
  <1>. QED
    BY <1>1, Begins

LEMMA FetchedFacts ==
    ASSUME Data, NEW b \in Boards, Fetchable(b)
    PROVE  /\ contract[b] \in ChatBoardState /\ NotAhead(contract[b], contract[b])
           /\ \A limit \in BanLimits :
                LET d == [EmptyDelta EXCEPT !.configuration =
                            NewConfiguration(contract[b].configuration, limit)]
                IN  d \in ChatBoardStateDelta /\ AtMostNext(d, contract[b])
  <1>1. contract[b] \in ChatBoardState /\ contract[b] # None
    BY DEF Data, Shared, Nodes, Fetchable
  <1>2. contract[b].configuration.configuration_version
            <= contract[b].configuration.configuration_version
    BY <1>1 DEF ChatBoardState, Configuration
  <1>. QED
    BY <1>1, <1>2, ConfigurationDeltaType DEF NotAhead

LEMMA CreateBoardData ==
    ASSUME Data, NEW p \in Terminals, NEW b \in Boards, CreateBoard(p, b)
    PROVE  Data'
  <1>1. PICK n \in Nicknames :
            LET t == Begun("create", "wait", b, Owner, CreatedBoard(n))
            IN  Goes(p, t) /\ Asks(p, Put(t))
    BY DEF CreateBoard
  <1>. DEFINE t == Begun("create", "wait", b, Owner, CreatedBoard(n))
  <1>2. /\ CreatedBoard(n) \in ChatBoardState
        /\ CreatedBoard(n).configuration = InitialConfiguration
        /\ Start(p) /\ contract[b] = None /\ Owner \in Principals
    BY CreatedType DEF CreateBoard, Principals
  <1>3. t \in Process
    BY <1>2, BegunType DEF CommandNames, StepNames
  <1>4. t.command = "create" /\ t.step = "wait" /\ t.board = b /\ t.key = Owner
        /\ t.state = CreatedBoard(n) /\ t.content = None
    BY DEF Begun
  <1>5. NotAhead(t.state, contract[t.board])
    BY <1>2, <1>4 DEF NotAhead
  <1>6. ProcessOK(t) /\ ProcessBehind(t, contract)
    BY <1>2, <1>3, <1>4, <1>5 DEF ProcessOK, ProcessBehind, InHand, Writing
  <1>7. RequestOK(Put(t)) /\ RequestBehind(Put(t), contract)
    BY <1>2, <1>3, <1>4, <1>5, PutOK
  <1>. HIDE DEF t
  <1>8. Goes(p, t) /\ Asks(p, Put(t))
    BY <1>1 DEF t
  <1>. QED
    BY <1>2, <1>4, <1>6, <1>7, <1>8, Begins

LEMMA AcceptInvitationData ==
    ASSUME Data, NEW p \in Terminals, NEW b \in Boards, NEW m \in Invited[b],
           AcceptInvitation(p, b, m)
    PROVE  Data'
  <1>. DEFINE chain == Required({m}, Members) \ {m}
              s == Begun("accept", "load", b, m, contract[b])
              t == [s EXCEPT !.chain = IF chain \subseteq Rooted(contract[b].members)
                                       THEN chain ELSE {}]
  <1>1. /\ Start(p) /\ Goes(p, t) /\ AsksNothing
        /\ m \in Members /\ m \in Principals /\ chain \subseteq Members
        /\ contract[b] \in ChatBoardState /\ NotAhead(contract[b], contract[b])
    BY FetchedFacts, BoardsAssumption, RequiredFacts DEF AcceptInvitation, Principals
  <1>2. s \in Process
    BY <1>1, BegunType DEF CommandNames, StepNames
  <1>3. s.command = "accept" /\ s.step = "load" /\ s.board = b /\ s.key = m
        /\ s.state = contract[b] /\ s.content = None
    BY DEF Begun
  <1>. HIDE DEF s
  <1>4. /\ t \in Process /\ t.command = "accept" /\ t.step = "load" /\ t.board = b
        /\ t.key = m /\ t.state = contract[b] /\ t.content = None
    BY <1>1, <1>2, <1>3 DEF Process
  <1>5. InHand(t)
    BY <1>1, <1>4 DEF InHand
  <1>. HIDE DEF t
  <1>. QED
    BY <1>1, <1>4, <1>5, BeginsReading

LEMMA SendMessageData ==
    ASSUME Data, NEW p \in Terminals, NEW b \in Boards, SendMessage(p, b)
    PROVE  Data'
  <1>. DEFINE entry == file.boards[b]
              s == Begun("message", "compose", b, entry.key, entry.state)
  <1>1. PICK size \in Sizes :
            Goes(p, [s EXCEPT !.message = ComposedMessage(entry.key, size)])
    BY DEF SendMessage
  <1>. DEFINE t == [s EXCEPT !.message = ComposedMessage(entry.key, size)]
  <1>2. /\ Start(p) /\ AsksNothing /\ entry \in StoredEntry
        /\ NotAhead(entry.state, contract[b])
    BY StoredType DEF SendMessage, Data
  <1>3. entry.key \in Principals /\ entry.state \in ChatBoardState
    BY <1>2 DEF StoredEntry
  <1>4. ComposedMessage(entry.key, size) \in Message
    BY <1>3, MessageType DEF Data
  <1>5. s \in Process
    BY <1>3, BegunType DEF CommandNames, StepNames
  <1>6. s.command = "message" /\ s.step = "compose" /\ s.board = b /\ s.key = entry.key
        /\ s.state = entry.state /\ s.content = None
    BY DEF Begun
  <1>. HIDE DEF s
  <1>7. /\ t \in Process /\ t.command = "message" /\ t.step = "compose" /\ t.board = b
        /\ t.key = entry.key /\ t.state = entry.state /\ t.content = None
        /\ t.message \in Message
    BY <1>4, <1>5, <1>6 DEF Process
  <1>8. InHand(t)
    BY <1>3, <1>7 DEF InHand
  <1>. HIDE DEF t
  <1>9. Goes(p, t)
    BY <1>1 DEF t
  <1>. QED
    BY <1>2, <1>7, <1>8, <1>9, BeginsReading

LEMMA RepublishBoardData ==
    ASSUME Data, NEW p \in Terminals, NEW b \in Boards, RepublishBoard(p, b)
    PROVE  Data'
  <1>. DEFINE entry == file.boards[b]
              t == Begun("republish", "wait", b, entry.key, entry.state)
  <1>1. /\ Start(p) /\ Goes(p, Waits(t)) /\ Asks(p, Put(t))
        /\ entry \in StoredEntry /\ NotAhead(entry.state, contract[b])
    BY StoredType DEF RepublishBoard, Data
  <1>2. entry.key \in Principals /\ entry.state \in ChatBoardState
    BY <1>1 DEF StoredEntry
  <1>3. t \in Process
    BY <1>2, BegunType DEF CommandNames, StepNames
  <1>4. t.command = "republish" /\ t.board = b /\ t.state = entry.state
    BY DEF Begun
  <1>5. RequestOK(Put(t)) /\ RequestBehind(Put(t), contract)
    BY <1>1, <1>2, <1>3, <1>4, PutOK
  <1>6. ProcessOK(Waits(t)) /\ ProcessBehind(Waits(t), contract) /\ Waits(t).step = "wait"
    BY <1>3, <1>4, WaitsOK DEF Process
  <1>. HIDE DEF t
  <1>. QED
    BY <1>1, <1>5, <1>6, Begins

(* The copy with the info written into it, and the delta with the info.    *)
LEMMA NicknameTypes ==
    ASSUME NEW s \in ChatBoardState, NEW key \in Principals, NEW n \in Nicknames
    PROVE  LET info == [member_id |-> key, nickname |-> n, version |-> InfoVersion(s, key) + 1]
               infos == {i \in s.member_info : i.member_id # key} \cup {info}
           IN  /\ [s EXCEPT !.member_info = infos] \in ChatBoardState
               /\ [s EXCEPT !.member_info = infos].configuration = s.configuration
               /\ Plain([EmptyDelta EXCEPT !.member_info = {info}])
  <1>. DEFINE info == [member_id |-> key, nickname |-> n, version |-> InfoVersion(s, key) + 1]
              infos == {i \in s.member_info : i.member_id # key} \cup {info}
  <1>1. info \in MemberInfo
    BY InfoType, LengthsAssumption DEF MemberInfo
  <1>2. infos \subseteq MemberInfo
    BY <1>1 DEF ChatBoardState
  <1>. HIDE DEF infos
  <1>3. /\ [s EXCEPT !.member_info = infos] \in ChatBoardState
        /\ [s EXCEPT !.member_info = infos].configuration = s.configuration
    BY <1>2 DEF ChatBoardState
  <1>. HIDE DEF info
  <1>4. Plain([EmptyDelta EXCEPT !.member_info = {info}])
    BY <1>1, EmptyDeltaType DEF Plain, ChatBoardStateDelta
  <1>. QED
    BY <1>3, <1>4 DEF info, infos

LEMMA SetNicknameData ==
    ASSUME Data, NEW p \in Terminals, NEW b \in Boards, SetNickname(p, b)
    PROVE  Data'
  <1>. DEFINE entry == file.boards[b]
              info(n) == [member_id |-> entry.key, nickname |-> n,
                          version |-> InfoVersion(entry.state, entry.key) + 1]
              infos(n) == {i \in entry.state.member_info : i.member_id # entry.key}
                            \cup {info(n)}
              state(n) == [entry.state EXCEPT !.member_info = infos(n)]
              delta(n) == [EmptyDelta EXCEPT !.member_info = {info(n)}]
              begun(n) == Begun("nickname", "load", b, entry.key, state(n))
  <1>1. PICK n \in Nicknames : Goes(p, [begun(n) EXCEPT !.delta = delta(n)])
    BY DEF SetNickname
  <1>2. /\ Start(p) /\ AsksNothing /\ entry \in StoredEntry
        /\ NotAhead(entry.state, contract[b])
    BY StoredType DEF SetNickname, Data
  <1>3. entry.key \in Principals /\ entry.state \in ChatBoardState
    BY <1>2 DEF StoredEntry
  <1>4. /\ state(n) \in ChatBoardState /\ state(n).configuration = entry.state.configuration
        /\ Plain(delta(n))
    BY <1>3, NicknameTypes
  <1>. HIDE DEF state, delta
  <1>5. NotAhead(state(n), contract[b])
    BY <1>2, <1>4 DEF NotAhead
  <1>6. begun(n) \in Process
    BY <1>3, <1>4, BegunType DEF CommandNames, StepNames
  <1>7. begun(n).command = "nickname" /\ begun(n).step = "load" /\ begun(n).board = b
        /\ begun(n).key = entry.key /\ begun(n).state = state(n) /\ begun(n).content = None
    BY DEF Begun
  <1>. DEFINE s == begun(n)
              d == delta(n)
              t == [s EXCEPT !.delta = d]
  <1>. HIDE DEF begun
  <1>8. /\ t \in Process /\ t.command = "nickname" /\ t.step = "load" /\ t.board = b
        /\ t.key = entry.key /\ t.state = state(n) /\ t.content = None /\ t.delta = delta(n)
    BY <1>4, <1>6, <1>7 DEF Process, Plain
  <1>9. InHand(t)
    BY <1>3, <1>4, <1>8 DEF InHand
  <1>10. Goes(p, t)
    BY <1>1
  <1>. HIDE DEF t
  <1>. QED
    BY <1>2, <1>5, <1>8, <1>9, <1>10, BeginsReading

LEMMA UpdateConfigData ==
    ASSUME Data, NEW p \in Terminals, NEW b \in Boards, UpdateConfig(p, b)
    PROVE  Data'
  <1>. DEFINE t == Begun("config", "wait", b, Owner, contract[b])
              delta(limit) == [EmptyDelta EXCEPT !.configuration =
                                NewConfiguration(contract[b].configuration, limit)]
  <1>1. PICK limit \in BanLimits : Sends(p, t, delta(limit))
    BY DEF UpdateConfig
  <1>2. /\ Start(p) /\ contract[b] \in ChatBoardState
        /\ delta(limit) \in ChatBoardStateDelta /\ AtMostNext(delta(limit), contract[b])
    BY FetchedFacts DEF UpdateConfig
  <1>. HIDE DEF delta
  <1>3. t \in Process
    BY <1>2, BegunType DEF CommandNames, StepNames, Principals
  <1>4. t.command = "config" /\ t.board = b
    BY DEF Begun
  <1>. HIDE DEF t
  <1>. QED
    BY <1>1, <1>2, <1>3, <1>4, BeginsSending

LEMMA BanMemberData ==
    ASSUME Data, NEW p \in Terminals, NEW b \in Boards, BanMember(p, b)
    PROVE  Data'
  <1>. DEFINE key == file.boards[b].key
              t == Begun("ban", "wait", b, key, contract[b])
              delta(target) == [EmptyDelta EXCEPT !.bans =
                    {[id |-> NextId, banned_by |-> key, banned_user |-> target]}]
  <1>1. PICK target \in Members : Sends(p, t, delta(target))
    BY DEF BanMember
  <1>2. Start(p) /\ contract[b] \in ChatBoardState /\ key \in Principals
    BY FetchedFacts, StoredType DEF BanMember, Data, StoredEntry
  <1>3. delta(target) \in ChatBoardStateDelta /\ AtMostNext(delta(target), contract[b])
    BY <1>2, BanDeltaType, PlainNext DEF Plain, Data
  <1>. HIDE DEF delta
  <1>4. t \in Process
    BY <1>2, BegunType DEF CommandNames, StepNames
  <1>5. t.command = "ban" /\ t.board = b
    BY DEF Begun
  <1>. HIDE DEF t
  <1>. QED
    BY <1>1, <1>2, <1>3, <1>4, <1>5, BeginsSending

LEMMA SendMessageWithKeyData ==
    ASSUME Data, NEW p \in Terminals, NEW b \in Boards, NEW m \in Invited[b],
           SendMessageWithKey(p, b, m)
    PROVE  Data'
  <1>. DEFINE begun == Begun("message", "wait", b, m, contract[b])
              t == [begun EXCEPT !.standing = "listed"]
              delta(size) == MessageDelta(contract[b], b, m, ComposedMessage(m, size))
  <1>1. PICK size \in Sizes : Sends(p, t, delta(size))
    BY DEF SendMessageWithKey
  <1>2. Start(p) /\ contract[b] \in ChatBoardState /\ m \in Principals
    BY FetchedFacts, BoardsAssumption DEF SendMessageWithKey, Principals
  <1>3. Plain(delta(size))
    BY <1>2, MessageType, MessageDeltaType DEF Data
  <1>4. delta(size) \in ChatBoardStateDelta /\ AtMostNext(delta(size), contract[b])
    BY <1>3, PlainNext DEF Plain
  <1>. HIDE DEF delta
  <1>5. begun \in Process
    BY <1>2, BegunType DEF CommandNames, StepNames
  <1>6. begun.command = "message" /\ begun.board = b
    BY DEF Begun
  <1>. HIDE DEF begun
  <1>7. t \in Process /\ t.command = "message" /\ t.board = b
    BY <1>5, <1>6 DEF Process, Standings
  <1>. HIDE DEF t
  <1>. QED
    BY <1>1, <1>2, <1>4, <1>7, BeginsSending

(* The later steps of a command.                                           *)
LEMMA Continues ==
    ASSUME Data, NEW p \in Terminals, NEW t, Goes(p, t), Continue(p), UNCHANGED <<file, promised>>,
           ProcessOK(t), ProcessBehind(t, contract),
           \/ /\ AsksNothing
              /\ t.step = "wait" => request[p] # None
              /\ request[p] # None => t.step \in {"none", "wait"}
           \/ \E r : /\ Asks(p, r) /\ RequestOK(r) /\ RequestBehind(r, contract)
                     /\ t.step = "wait"
           \/ Asks(p, None) /\ t.step # "wait"
    PROVE  Data'
  <1>1. Shared'
    BY DEF Data, Shared, Continue, counters
  <1>2. (Memory /\ Requests)'
    BY Moves DEF Data, Continue
  <1>. QED
    BY <1>1, <1>2 DEF Data

(* A command between its steps asks for nothing.                           *)
LEMMA AtFacts ==
    ASSUME Data, NEW p \in Terminals
    PROVE  /\ ProcessOK(terminal[p]) /\ terminal[p] \in Process
           /\ ProcessBehind(terminal[p], contract)
           /\ terminal[p].step \notin {"none", "wait"} =>
                /\ InHand(terminal[p]) /\ request[p] = None /\ terminal[p].board \in Boards
  BY DEF Data, Memory, Requests, ProcessOK

Composed(t, d, s, v) ==
    [t EXCEPT !.step = "load", !.delta = d, !.message = None, !.state = s, !.standing = v]

LEMMA ComposedProcess ==
    ASSUME NEW t \in Process, NEW d \in ChatBoardStateDelta, NEW s \in ChatBoardState,
           NEW v \in Standings
    PROVE  LET u == Composed(t, d, s, v)
           IN  /\ u \in Process /\ u.step = "load" /\ u.delta = d /\ u.state = s
               /\ u.command = t.command /\ u.board = t.board /\ u.key = t.key
               /\ u.content = t.content /\ u.standing = v
  <1>. DEFINE a == [t EXCEPT !.step = "load"]
              b == [a EXCEPT !.delta = d]
              c == [b EXCEPT !.message = None]
              e == [c EXCEPT !.state = s]
              u == [e EXCEPT !.standing = v]
  <1>1. /\ a \in Process /\ a.step = "load"
        /\ a.command = t.command /\ a.board = t.board /\ a.key = t.key /\ a.content = t.content
    BY DEF Process, StepNames
  <1>. HIDE DEF a
  <1>2. /\ b \in Process /\ b.step = "load" /\ b.delta = d
        /\ b.command = t.command /\ b.board = t.board /\ b.key = t.key /\ b.content = t.content
    BY <1>1 DEF Process
  <1>. HIDE DEF b
  <1>3. /\ c \in Process /\ c.step = "load" /\ c.delta = d
        /\ c.command = t.command /\ c.board = t.board /\ c.key = t.key /\ c.content = t.content
    BY <1>2 DEF Process
  <1>. HIDE DEF c
  <1>4. /\ e \in Process /\ e.step = "load" /\ e.delta = d /\ e.state = s
        /\ e.command = t.command /\ e.board = t.board /\ e.key = t.key /\ e.content = t.content
    BY <1>3 DEF Process
  <1>. HIDE DEF e
  <1>5. /\ u \in Process /\ u.step = "load" /\ u.delta = d /\ u.state = s
        /\ u.command = t.command /\ u.board = t.board /\ u.key = t.key /\ u.content = t.content
        /\ u.standing = v
    BY <1>4 DEF Process
  <1>. QED
    BY <1>5 DEF a, b, c, e, Composed

LEMMA ComposeMessageData ==
    ASSUME Data, NEW p \in Terminals, ComposeMessage(p)
    PROVE  Data'
  <1>. DEFINE t == terminal[p]
              delta == MessageDelta(t.state, t.board, t.key, t.message)
              s == Apply(t.state, delta)
              v == Standing(t.state, t.board, t.key)
              u == Composed(t, delta, s, v)
  <1>1. /\ At(p, "compose") /\ t.command = "message"
        /\ Goes(p, IF Accepts(t.state, delta) THEN u ELSE Idle)
        /\ UNCHANGED <<file, promised>> /\ AsksNothing /\ Continue(p)
    BY DEF ComposeMessage, AsksNothing, Composed
  <1>2. /\ t \in Process /\ ProcessOK(t) /\ ProcessBehind(t, contract) /\ InHand(t)
        /\ request[p] = None /\ t.board \in Boards
    BY <1>1, AtFacts DEF At
  <1>3. t.key \in Principals /\ t.state \in ChatBoardState /\ t.message \in Message
    BY <1>1, <1>2 DEF InHand, At
  <1>4. Plain(delta)
    BY <1>3, MessageDeltaType DEF Data
  <1>5. CASE ~Accepts(t.state, delta)
    <2>1. Goes(p, Idle) /\ Idle.step = "none"
      BY <1>1, <1>5 DEF Idle, Begun
    <2>. QED
      BY <1>1, <1>2, <2>1, IdleOK, Continues
  <1>6. CASE Accepts(t.state, delta)
    <2>1. /\ s \in ChatBoardState
          /\ s.configuration = t.state.configuration
      BY <1>3, <1>4, <1>6, ApplyType, Configured DEF Plain, ConfigurationAfter
    <2>2. v \in Standings
      BY DEF Standing, Standings
    <2>3. delta \in ChatBoardStateDelta
      BY <1>4 DEF Plain
    <2>4. NotAhead(s, contract[t.board])
      BY <1>2, <1>3, <2>1, AbsentAssumption DEF ProcessBehind, NotAhead
    <2>. HIDE DEF delta, s, v
    <2>5. /\ u \in Process /\ u.step = "load" /\ u.delta = delta /\ u.state = s
          /\ u.command = t.command /\ u.board = t.board /\ u.key = t.key
          /\ u.content = t.content
      BY <1>2, <2>1, <2>2, <2>3, ComposedProcess
    <2>6. Goes(p, u)
      BY <1>1, <1>6
    <2>7. t.content = None
      BY <1>1, <1>2 DEF ProcessOK, Writing, At
    <2>. HIDE DEF u
    <2>8. InHand(u)
      BY <1>1, <1>3, <1>4, <2>1, <2>5 DEF InHand
    <2>9. ProcessOK(u) /\ ProcessBehind(u, contract)
      BY <1>2, <2>4, <2>5, <2>7, <2>8 DEF ProcessOK, ProcessBehind, Writing
    <2>. QED
      BY <1>1, <1>2, <2>5, <2>6, <2>9, Continues
  <1>. QED
    BY <1>5, <1>6

LEMMA ComposeNicknameData ==
    ASSUME Data, NEW p \in Terminals, ComposeNickname(p)
    PROVE  Data'
  <1>. DEFINE t == terminal[p]
              members == RejoinMembers(t.state, t.board, t.key)
              delta == [t.delta EXCEPT !.members = members]
  <1>1. /\ At(p, "compose") /\ t.command = "nickname"
        /\ Goes(p, Waits(t)) /\ Asks(p, Update(t, delta))
        /\ UNCHANGED <<file, promised>> /\ Continue(p)
    BY DEF ComposeNickname, Sends
  <1>2. /\ t \in Process /\ InHand(t) /\ t.board \in Boards
    BY <1>1, AtFacts DEF At
  <1>3. Plain(t.delta) /\ members \subseteq Members
    BY <1>1, <1>2, RejoinType DEF InHand, Data
  <1>. HIDE DEF members
  <1>4. Plain(delta)
    BY <1>3 DEF Plain, ChatBoardStateDelta
  <1>5. RequestOK(Update(t, delta)) /\ RequestBehind(Update(t, delta), contract)
    BY <1>2, <1>4, PlainNext, UpdateOK DEF Plain
  <1>6. ProcessOK(Waits(t)) /\ ProcessBehind(Waits(t), contract) /\ Waits(t).step = "wait"
    BY <1>1, <1>2, WaitsOK DEF Process
  <1>. QED
    BY <1>1, <1>5, <1>6, Continues

LEMMA KillData ==
    ASSUME Data, NEW p \in Terminals, Kill(p) \/ Lose(p)
    PROVE  Data'
  <1>1. /\ Goes(p, Idle) /\ UNCHANGED <<file, promised>> /\ Continue(p)
        /\ (AsksNothing \/ Asks(p, None))
    BY DEF Kill, Lose, AsksNothing
  <1>2. Idle.step = "none"
    BY DEF Idle, Begun
  <1>. QED
    BY <1>1, <1>2, IdleOK, Continues

(* What is written has the boards that were loaded, and the one the command *)
(* is about.                                                               *)
LEMMA RewrittenOK ==
    ASSUME Data, NEW p \in Terminals, At(p, "load"),
           terminal[p].command \in {"create", "accept"} \/ Stored(terminal[p].board)
    PROVE  LET content == Rewritten(terminal[p], file.boards)
           IN  /\ content \in Contents /\ AllBehind(content, contract)
               /\ DOMAIN content = DOMAIN file.boards \cup {terminal[p].board}
  <1>. DEFINE t == terminal[p]
              b == t.board
              boards == file.boards
              content == Rewritten(t, boards)
  <1>1. /\ t \in Process /\ InHand(t) /\ b \in Boards
        /\ ProcessBehind(t, contract)
        /\ boards \in Contents /\ AllBehind(boards, contract)
    BY AtFacts DEF At, Data, Shared
  <1>2. DOMAIN boards \subseteq Boards /\ \A c \in DOMAIN boards : boards[c] \in StoredEntry
    BY <1>1 DEF Contents
  <1>3. t.key \in Principals /\ (t.command # "vouch" =>
            t.state \in ChatBoardState /\ NotAhead(t.state, contract[b]))
    BY <1>1, AbsentAssumption DEF InHand, ProcessBehind
  <1>. HIDE DEF t, b, boards
  <1>4. CASE t.command \in {"create", "accept"}
    <2>1. content = [c \in DOMAIN boards \cup {b} |->
                        IF c = b THEN Entry(t.key, t.state) ELSE boards[c]]
      BY <1>4 DEF Rewritten, AddBoard, b
    <2>2. Entry(t.key, t.state) \in StoredEntry /\ Entry(t.key, t.state).state = t.state
      BY <1>3, <1>4 DEF Entry, StoredEntry
    <2>3. content \in [DOMAIN boards \cup {b} -> StoredEntry]
      BY <1>2, <2>1, <2>2
    <2>4. content \in Contents
      BY <1>1, <1>2, <2>3 DEF Contents
    <2>5. AllBehind(content, contract)
      BY <1>1, <1>3, <1>4, <2>1, <2>2 DEF AllBehind
    <2>. QED
      BY <2>3, <2>4, <2>5 DEF t, b, boards
  <1>5. CASE t.command = "vouch"
    <2>1. b \in DOMAIN boards /\ boards[b] \in StoredEntry
      BY <1>2, <1>5 DEF Stored, t, b, boards
    <2>. DEFINE e == [boards[b] EXCEPT !.self_authorized_member = t.key]
                f == [e EXCEPT !.invite_chain = t.chain]
    <2>2. t.key \in Members /\ t.chain \subseteq Members
      BY <1>1, <1>5 DEF InHand, Process, t
    <2>3. e \in StoredEntry /\ e.state = boards[b].state
      BY <2>1, <2>2 DEF StoredEntry
    <2>. HIDE DEF e
    <2>4. f \in StoredEntry /\ f.state = boards[b].state
      BY <2>2, <2>3 DEF StoredEntry
    <2>5. content = [boards EXCEPT ![b] = f]
      BY <1>5, <2>1 DEF Rewritten, StoreAuthorizedMember, e, b
    <2>. HIDE DEF f, content
    <2>6. content \in [DOMAIN boards -> StoredEntry] /\ DOMAIN content = DOMAIN boards
      BY <1>2, <2>4, <2>5
    <2>7. content \in Contents
      BY <1>2, <2>6 DEF Contents
    <2>8. AllBehind(content, contract)
      BY <1>1, <2>1, <2>4, <2>5 DEF AllBehind
    <2>. QED
      BY <2>1, <2>6, <2>7, <2>8 DEF t, b, boards, content
  <1>6. CASE t.command \notin {"create", "accept", "vouch"}
    <2>1. b \in DOMAIN boards /\ boards[b] \in StoredEntry
      BY <1>2, <1>6 DEF Stored, t, b, boards
    <2>. DEFINE f == [boards[b] EXCEPT !.state = t.state]
    <2>2. f \in StoredEntry /\ f.state = t.state
      BY <1>3, <1>6, <2>1 DEF StoredEntry
    <2>3. content = [boards EXCEPT ![b] = f]
      BY <1>6, <2>1 DEF Rewritten, UpdateBoardState, b
    <2>. HIDE DEF f, content
    <2>4. content \in [DOMAIN boards -> StoredEntry] /\ DOMAIN content = DOMAIN boards
      BY <1>2, <2>2, <2>3
    <2>5. content \in Contents
      BY <1>2, <2>4 DEF Contents
    <2>6. AllBehind(content, contract)
      BY <1>1, <1>3, <1>6, <2>1, <2>2, <2>3 DEF AllBehind
    <2>. QED
      BY <2>1, <2>4, <2>5, <2>6 DEF t, b, boards, content
  <1>. QED
    BY <1>4, <1>5, <1>6

LEMMA LoadData ==
    ASSUME Data, NEW p \in Terminals, Load(p)
    PROVE  Data'
  <1>. DEFINE t == terminal[p]
              found == Readable /\ (t.command \in {"create", "accept"} \/ Stored(t.board))
              content == Rewritten(t, file.boards)
              u == [t EXCEPT !.step = "truncate", !.fresh = TRUE, !.content = content]
  <1>1. /\ At(p, "load") /\ Goes(p, IF found THEN u ELSE Idle)
        /\ UNCHANGED <<file, promised>> /\ AsksNothing /\ Continue(p)
    BY DEF Load, AsksNothing
  <1>2. /\ t \in Process /\ ProcessBehind(t, contract) /\ InHand(t)
        /\ request[p] = None /\ t.board \in Boards
    BY <1>1, AtFacts DEF At
  <1>3. CASE ~found
    <2>1. Goes(p, Idle) /\ Idle.step = "none"
      BY <1>1, <1>3 DEF Idle, Begun
    <2>. QED
      BY <1>1, <1>2, <2>1, IdleOK, Continues
  <1>4. CASE found
    <2>1. /\ content \in Contents /\ AllBehind(content, contract)
          /\ t.board \in DOMAIN content
      BY <1>1, <1>4, RewrittenOK
    <2>2. Goes(p, u)
      BY <1>1, <1>4
    <2>. HIDE DEF content, found
    <2>3. /\ u \in Process /\ u.step = "truncate" /\ u.content = content
          /\ u.command = t.command /\ u.board = t.board /\ u.key = t.key
          /\ u.state = t.state /\ u.delta = t.delta
      BY <1>2, <2>1 DEF Process, StepNames
    <2>. HIDE DEF u
    <2>4. InHand(u)
      BY <1>1, <1>2, <2>3 DEF InHand, At
    <2>5. ProcessOK(u) /\ ProcessBehind(u, contract)
      BY <1>2, <2>1, <2>3, <2>4 DEF ProcessOK, ProcessBehind, Writing
    <2>. QED
      BY <1>1, <1>2, <2>2, <2>3, <2>5, Continues
  <1>. QED
    BY <1>3, <1>4

LEMMA TruncateData ==
    ASSUME Data, NEW p \in Terminals, Truncate(p)
    PROVE  Data'
  <1>. DEFINE t == terminal[p]
              u == [t EXCEPT !.step = "fill"]
  <1>1. /\ At(p, "truncate") /\ Goes(p, u) /\ file' = Empty
        /\ UNCHANGED promised /\ AsksNothing /\ Continue(p)
    BY DEF Truncate, AsksNothing
  <1>2. /\ t \in Process /\ ProcessOK(t) /\ ProcessBehind(t, contract) /\ InHand(t)
        /\ request[p] = None /\ t.board \in Boards
    BY <1>1, AtFacts DEF At
  <1>3. /\ u \in Process /\ u.step = "fill" /\ u.content = t.content
        /\ u.command = t.command /\ u.board = t.board /\ u.key = t.key
        /\ u.state = t.state /\ u.delta = t.delta
    BY <1>2 DEF Process, StepNames
  <1>. HIDE DEF u
  <1>4. InHand(u)
    BY <1>1, <1>2, <1>3 DEF InHand, At
  <1>5. ProcessOK(u) /\ ProcessBehind(u, contract)
    BY <1>1, <1>2, <1>3, <1>4 DEF ProcessOK, ProcessBehind, Writing, At
  <1>6. (Memory /\ Requests)'
    BY <1>1, <1>2, <1>3, <1>5, Moves DEF Data, Continue
  <1>7. Empty.boards \in Contents /\ DOMAIN Empty.boards = {}
    <2>1. Empty.boards = [b \in {} |-> None] /\ Empty.boards \in [{} -> StoredEntry]
      BY DEF Empty
    <2>. QED
      BY <2>1 DEF Contents
  <1>8. Shared'
    BY <1>1, <1>7 DEF Data, Shared, Continue, counters, Empty, AllBehind
  <1>. QED
    BY <1>6, <1>8 DEF Data

(* What is left in hand after the file is written.                         *)
LEMMA AfterWriteOK ==
    ASSUME Data, NEW p \in Terminals, At(p, "fill")
    PROVE  LET u == AfterWrite(terminal[p])
           IN  /\ ProcessOK(u) /\ ProcessBehind(u, contract) /\ ~Writing(u)
               /\ u.step = "wait" <=> terminal[p].command = "message"
  <1>. DEFINE t == terminal[p]
              u == AfterWrite(t)
  <1>1. /\ t \in Process /\ ProcessOK(t) /\ ProcessBehind(t, contract) /\ InHand(t)
        /\ t.board \in Boards /\ t.step = "fill"
    BY AtFacts DEF At
  <1>. HIDE DEF t
  <1>2. CASE t.command = "accept"
    <2>. DEFINE a == [t EXCEPT !.command = "vouch"]
                b == [a EXCEPT !.step = "load"]
                c == [b EXCEPT !.state = None]
                d == [c EXCEPT !.content = None]
    <2>1. a \in Process /\ a.command = "vouch" /\ a.board = t.board /\ a.key = t.key
      BY <1>1 DEF Process, CommandNames
    <2>. HIDE DEF a
    <2>2. /\ b \in Process /\ b.step = "load"
          /\ b.command = "vouch" /\ b.board = t.board /\ b.key = t.key
      BY <2>1 DEF Process, StepNames
    <2>. HIDE DEF b
    <2>3. /\ c \in Process /\ c.step = "load" /\ c.state = None
          /\ c.command = "vouch" /\ c.board = t.board /\ c.key = t.key
      BY <2>2 DEF Process
    <2>. HIDE DEF c
    <2>4. /\ d \in Process /\ d.step = "load" /\ d.state = None /\ d.content = None
          /\ d.command = "vouch" /\ d.board = t.board /\ d.key = t.key
      BY <2>3 DEF Process
    <2>5. u = d
      BY <1>2 DEF AfterWrite, a, b, c
    <2>. HIDE DEF d, u
    <2>6. InHand(u)
      BY <1>1, <1>2, <2>4, <2>5 DEF InHand
    <2>. QED
      BY <1>1, <1>2, <2>4, <2>5, <2>6 DEF ProcessOK, ProcessBehind, Writing, t, u
  <1>3. CASE t.command = "message"
    <2>1. u = Waits(t)
      BY <1>3 DEF AfterWrite
    <2>2. ProcessOK(u) /\ ProcessBehind(u, contract) /\ u.step = "wait"
      BY <1>1, <1>3, <2>1, WaitsOK DEF Process
    <2>. QED
      BY <1>3, <2>2 DEF Writing, t
  <1>4. CASE t.command = "nickname"
    <2>. DEFINE a == [t EXCEPT !.step = "compose"]
                b == [a EXCEPT !.content = None]
    <2>1. /\ a \in Process /\ a.step = "compose" /\ a.command = t.command
          /\ a.board = t.board /\ a.key = t.key /\ a.state = t.state /\ a.delta = t.delta
      BY <1>1 DEF Process, StepNames
    <2>. HIDE DEF a
    <2>2. /\ b \in Process /\ b.step = "compose" /\ b.command = t.command /\ b.content = None
          /\ b.board = t.board /\ b.key = t.key /\ b.state = t.state /\ b.delta = t.delta
      BY <2>1 DEF Process
    <2>3. u = b
      BY <1>4 DEF AfterWrite, a
    <2>. HIDE DEF b, u
    <2>4. InHand(u)
      BY <1>1, <1>4, <2>2, <2>3 DEF InHand
    <2>. QED
      BY <1>1, <1>4, <2>2, <2>3, <2>4 DEF ProcessOK, ProcessBehind, Writing, t, u
  <1>5. CASE t.command \notin {"accept", "message", "nickname"}
    <2>1. u = Idle /\ Idle.step = "none"
      BY <1>5 DEF AfterWrite, Idle, Begun
    <2>. QED
      BY <1>5, <2>1, IdleOK DEF Writing, t
  <1>. QED
    BY <1>2, <1>3, <1>4, <1>5

(* Another process, which no longer holds what the file holds.             *)
LEMMA OvertakenOK ==
    ASSUME NEW t, ProcessOK(t), ProcessBehind(t, contract)
    PROVE  LET u == [t EXCEPT !.fresh = ~Writing(t)]
           IN  ProcessOK(u) /\ ProcessBehind(u, contract) /\ u.step = t.step
  <1>. DEFINE w == ~Writing(t)
              u == [t EXCEPT !.fresh = w]
  <1>1. w \in BOOLEAN /\ t \in Process
    BY DEF ProcessOK, Writing
  <1>. HIDE DEF w
  <1>2. /\ u \in Process /\ u.command = t.command /\ u.step = t.step /\ u.board = t.board
        /\ u.key = t.key /\ u.state = t.state /\ u.delta = t.delta /\ u.message = t.message
        /\ u.content = t.content
    BY <1>1 DEF Process
  <1>. HIDE DEF u
  <1>3. InHand(t) => InHand(u)
    BY <1>2 DEF InHand
  <1>4. ProcessOK(u) /\ ProcessBehind(u, contract)
    BY <1>2, <1>3 DEF ProcessOK, ProcessBehind, Writing
  <1>. QED
    BY <1>2, <1>4 DEF u, w

LEMMA PromisedType ==
    ASSUME Shared, NEW t, t.content \in Contents, t.board \in Boards,
           t.board \in DOMAIN t.content
    PROVE  Fulfilled(t) \in [Boards -> [key : Principals,
                                        self_authorized_member : Members \cup {None}]
                                            \cup {None}]
  <1>. DEFINE c == t.content[t.board]
  <1>1. c \in StoredEntry
    BY DEF Contents
  <1>. HIDE DEF c
  <1>2. Credentials(c) \in [key : Principals, self_authorized_member : Members \cup {None}]
    BY <1>1 DEF Credentials, StoredEntry
  <1>. QED
    BY <1>2 DEF Fulfilled, Forgotten, Shared, c

LEMMA FillData ==
    ASSUME Data, NEW p \in Terminals, Fill(p)
    PROVE  Data'
  <1>. DEFINE t == terminal[p]
              u == AfterWrite(t)
              other(q) == [terminal[q] EXCEPT !.fresh = ~Writing(terminal[q])]
  <1>1. /\ At(p, "fill") /\ file' \in {Whole(t.content), Broken}
        /\ terminal' = [q \in Terminals |-> IF q = p THEN u ELSE other(q)]
        /\ IF t.command = "message" THEN Asks(p, Update(t, t.delta)) ELSE AsksNothing
        /\ promised' = Fulfilled(t) /\ Continue(p)
    BY DEF Fill
  <1>2. /\ t \in Process /\ ProcessOK(t) /\ ProcessBehind(t, contract) /\ InHand(t)
        /\ request[p] = None /\ t.board \in Boards /\ t.step = "fill"
    BY <1>1, AtFacts DEF At
  <1>3. /\ t.content \in Contents /\ AllBehind(t.content, contract)
        /\ t.board \in DOMAIN t.content
    BY <1>2 DEF ProcessOK, ProcessBehind, Writing
  <1>4. /\ ProcessOK(u) /\ ProcessBehind(u, contract) /\ ~Writing(u)
        /\ u.step = "wait" <=> t.command = "message"
    BY <1>1, AfterWriteOK
  <1>5. ASSUME NEW q \in Terminals
        PROVE  /\ ProcessOK(other(q)) /\ ProcessBehind(other(q), contract)
               /\ other(q).step = terminal[q].step
    BY OvertakenOK, AtFacts
  <1>. HIDE DEF t, u, other
  <1>6. terminal'[p] = u /\ \A q \in Terminals \ {p} : terminal'[q] = other(q)
    BY <1>1
  <1>7. Memory'
    <2>1. UNCHANGED contract
      BY <1>1 DEF Continue
    <2>2. \A q \in Terminals : ProcessOK(terminal'[q]) /\ ProcessBehind(terminal'[q], contract)
      BY <1>4, <1>5, <1>6
    <2>3. terminal' \in [Terminals -> Process]
      BY <1>1, <1>4, <1>5 DEF ProcessOK
    <2>4. \A q \in Terminals : (ProcessOK(terminal[q]) /\ ProcessBehind(terminal[q], contract))'
      BY <2>1, <2>2 DEF ProcessOK, ProcessBehind
    <2>. QED
      BY <2>3, <2>4 DEF Memory
  <1>8. Requests'
    <2>1. UNCHANGED contract
      BY <1>1 DEF Continue
    <2>2. CASE t.command = "message"
      <3>. DEFINE r == Update(t, t.delta)
      <3>1. Plain(t.delta)
        BY <1>2, <2>2 DEF InHand
      <3>2. RequestOK(r) /\ RequestBehind(r, contract)
        BY <1>2, <3>1, PlainNext, UpdateOK DEF Plain
      <3>3. r \in Request /\ r # None
        BY <3>2, AbsentAssumption DEF RequestOK
      <3>. HIDE DEF r
      <3>4. request' = [request EXCEPT ![p] = r] /\ request \in [Terminals -> Request \cup {None}]
        BY <1>1, <2>2 DEF Asks, r, Data, Requests
      <3>5. request'[p] = r /\ \A q \in Terminals \ {p} : request'[q] = request[q]
        BY <3>4
      <3>6. request' \in [Terminals -> Request \cup {None}]
        BY <3>3, <3>4
      <3>. QED
        BY <1>4, <1>5, <1>6, <2>1, <2>2, <3>2, <3>3, <3>5, <3>6 DEF Data, Requests
    <2>3. CASE t.command # "message"
      BY <1>1, <1>2, <1>4, <1>5, <1>6, <2>1, <2>3 DEF Data, Requests, AsksNothing
    <2>. QED
      BY <2>2, <2>3
  <1>9. Shared'
    <2>1. promised' \in [Boards -> [key : Principals,
                                    self_authorized_member : Members \cup {None}]
                                        \cup {None}]
      BY <1>1, <1>2, <1>3, PromisedType DEF Data
    <2>2. UNCHANGED <<contract, commands, others>>
      BY <1>1 DEF Continue, counters
    <2>3. /\ file' \in [text : {"whole", "empty", "broken"}, boards : Contents]
          /\ AllBehind(file'.boards, contract)
      <3>1. Broken.boards \in Contents /\ DOMAIN Broken.boards = {} /\ Broken.text = "broken"
        <4>1. Broken.boards = [b \in {} |-> None] /\ Broken.boards \in [{} -> StoredEntry]
          BY DEF Broken
        <4>. QED
          BY <4>1 DEF Contents, Broken
      <3>. QED
        BY <1>1, <1>3, <3>1 DEF Whole, Broken, AllBehind
    <2>. QED
      BY <2>1, <2>2, <2>3 DEF Data, Shared
  <1>. QED
    BY <1>7, <1>8, <1>9 DEF Data

(* The boards at the node change, and copies of them stay behind.          *)
LEMMA NodeMoves ==
    ASSUME Data, contract' \in Nodes, AllAdvanced(contract, contract')
    PROVE  /\ AllBehind(file.boards, contract')
           /\ \A q \in Terminals :
                /\ ProcessBehind(terminal[q], contract')
                /\ request[q] # None => RequestBehind(request[q], contract')
  BY ContentLater, ProcessLater, RequestLater DEF Data, Shared, Memory, Requests

(* Board b becomes d there.                                                *)
LEMMA BoardMoves ==
    ASSUME Data, NEW b \in Boards, NEW d, Advanced(contract[b], d),
           contract' = [contract EXCEPT ![b] = d]
    PROVE  contract' \in Nodes /\ AllAdvanced(contract, contract')
  BY DEF Data, Shared, Nodes, Advanced, AllAdvanced

LEMMA DeliverNode ==
    ASSUME Data, NEW p \in Terminals, Deliver(p)
    PROVE  contract' \in Nodes /\ AllAdvanced(contract, contract')
  <1>. DEFINE r == request[p]
  <1>1. /\ contract' = IF Accepted(r) THEN [contract EXCEPT ![r.board] = After(r)]
                       ELSE contract
        /\ RequestOK(r) /\ RequestBehind(r, contract)
    BY DEF Deliver, Data, Requests
  <1>2. CASE ~Accepted(r)
    BY <1>1, <1>2 DEF Data, Shared, Advanced, AllAdvanced
  <1>3. CASE Accepted(r)
    <2>1. Advanced(contract[r.board], After(r)) /\ r.board \in Boards
      BY <1>1, <1>3, Delivered DEF Data, RequestOK, Request
    <2>. QED
      BY <1>1, <1>3, <2>1, BoardMoves
  <1>. QED
    BY <1>2, <1>3

LEMMA DeliverData ==
    ASSUME Data, NEW p \in Terminals, Deliver(p)
    PROVE  Data'
  <1>. DEFINE t == terminal[p]
              u == [t EXCEPT !.step = "load"]
              v == IF t.command = "create" /\ Accepted(request[p]) THEN u ELSE Idle
  <1>1. /\ request[p] # None /\ Goes(p, v) /\ Asks(p, None)
        /\ UNCHANGED <<file, commands, others, promised>>
    BY DEF Deliver, counters
  <1>2. /\ contract' \in Nodes /\ AllBehind(file.boards, contract')
        /\ \A q \in Terminals :
            /\ ProcessBehind(terminal[q], contract')
            /\ request[q] # None => RequestBehind(request[q], contract')
    BY DeliverNode, NodeMoves
  <1>3. /\ t \in Process /\ ProcessOK(t) /\ t.step \in {"none", "wait"}
    BY <1>1, AtFacts DEF Data, Requests
  <1>4. ProcessOK(v) /\ ProcessBehind(v, contract') /\ v.step # "wait"
    <2>1. CASE t.command = "create" /\ Accepted(request[p])
      <3>1. InHand(t) /\ t.content = None /\ t.board \in Boards
        BY <1>3, <2>1 DEF ProcessOK, Writing
      <3>2. /\ u \in Process /\ u.step = "load" /\ u.content = t.content
            /\ u.command = t.command /\ u.board = t.board /\ u.key = t.key
            /\ u.state = t.state
        BY <1>3 DEF Process, StepNames
      <3>3. v = u
        BY <2>1
      <3>. HIDE DEF u, v
      <3>4. InHand(u)
        BY <2>1, <3>1, <3>2 DEF InHand
      <3>. QED
        BY <1>2, <3>1, <3>2, <3>3, <3>4 DEF ProcessOK, ProcessBehind, Writing
    <2>2. CASE ~(t.command = "create" /\ Accepted(request[p]))
      <3>1. v = Idle /\ Idle.step = "none" /\ Idle.state = None
        BY <2>2 DEF Idle, Begun
      <3>. QED
        BY <3>1, IdleOK DEF ProcessBehind, Writing
    <2>. QED
      BY <2>1, <2>2
  <1>. HIDE DEF v
  <1>5. terminal'[p] = v /\ \A q \in Terminals \ {p} : terminal'[q] = terminal[q]
    BY <1>1 DEF Goes, Data, Memory
  <1>6. Memory'
    <2>1. terminal' \in [Terminals -> Process]
      BY <1>1, <1>4 DEF Goes, Data, Memory, ProcessOK
    <2>2. \A q \in Terminals : ProcessOK(terminal'[q]) /\ ProcessBehind(terminal'[q], contract')
      BY <1>2, <1>4, <1>5 DEF Data, Memory
    <2>. QED
      BY <2>1, <2>2 DEF Memory
  <1>7. Requests'
    <2>1. request'[p] = None /\ \A q \in Terminals \ {p} : request'[q] = request[q]
      BY <1>1 DEF Asks, Data, Requests
    <2>2. request' \in [Terminals -> Request \cup {None}]
      BY <1>1 DEF Asks, Data, Requests
    <2>. QED
      BY <1>2, <1>4, <1>5, <2>1, <2>2 DEF Data, Requests
  <1>8. Shared'
    BY <1>1, <1>2 DEF Data, Shared
  <1>. QED
    BY <1>6, <1>7, <1>8 DEF Data

LEMMA OthersNode ==
    ASSUME Data, NEW b \in Boards, Others(b)
    PROVE  contract' \in Nodes /\ AllAdvanced(contract, contract')
  <1>1. PICK d \in OthersDeltas(contract[b], b) :
            /\ Accepts(contract[b], d)
            /\ contract' = [contract EXCEPT ![b] = Apply(contract[b], d)]
    BY DEF Others
  <1>2. contract[b] \in ChatBoardState
    BY FetchedFacts DEF Others
  <1>3. d \in ChatBoardStateDelta /\ AtMostNext(d, contract[b])
    BY <1>2, OthersType DEF Data
  <1>. QED
    BY <1>1, <1>2, <1>3, UpdateAdvances, BoardMoves

LEMMA OthersData ==
    ASSUME Data, NEW b \in Boards, Others(b)
    PROVE  Data'
  <1>1. /\ contract' \in Nodes /\ AllBehind(file.boards, contract')
        /\ \A q \in Terminals :
            /\ ProcessBehind(terminal[q], contract')
            /\ request[q] # None => RequestBehind(request[q], contract')
    BY OthersNode, NodeMoves
  <1>2. /\ UNCHANGED <<file, terminal, request, commands, promised>>
        /\ others' = others + 1 /\ others < MaxOthers
    BY DEF Others
  <1>3. others' \in 0..MaxOthers
    BY <1>2, BoundsAssumption DEF Data, Shared
  <1>4. Shared'
    BY <1>1, <1>2, <1>3 DEF Data, Shared
  <1>5. Memory' /\ Requests'
    BY <1>1, <1>2 DEF Data, Memory, Requests
  <1>. QED
    BY <1>4, <1>5 DEF Data

LEMMA CommandsData ==
    ASSUME Data, NEW p \in Terminals, Commands(p)
    PROVE  Data'
  <1>1. PICK b \in Boards :
            \/ CreateBoard(p, b) \/ SendMessage(p, b) \/ SendReply(p, b) \/ SetNickname(p, b)
            \/ RepublishBoard(p, b) \/ UpdateConfig(p, b) \/ BanMember(p, b)
            \/ \E m \in Invited[b] : AcceptInvitation(p, b, m) \/ SendMessageWithKey(p, b, m)
    BY DEF Commands
  <1>2. SendReply(p, b) => SendMessage(p, b)
    BY DEF SendReply
  <1>. QED
    BY <1>1, <1>2, CreateBoardData, SendMessageData, SetNicknameData, RepublishBoardData,
       UpdateConfigData, BanMemberData, AcceptInvitationData, SendMessageWithKeyData

LEMMA StepsData ==
    ASSUME Data, NEW p \in Terminals, Steps(p)
    PROVE  Data'
  BY ComposeMessageData, ComposeNicknameData, LoadData, TruncateData, FillData, KillData,
     DeliverData
  DEF Steps

LEMMA NextData == Data /\ [Next]_vars => Data'
  <1>1. ASSUME Data, UNCHANGED vars
        PROVE  Data'
    BY <1>1 DEF vars, Data, Shared, Memory, Requests
  <1>. QED
    BY <1>1, CommandsData, StepsData, OthersData DEF Next

---------------------------------------------------------------------------
(* Kept is invariant.                                                      *)

LEMMA InitKept == Init => Kept
  BY DEF Init, Kept

(* Nothing is written, and nobody begins to write.                         *)
LEMMA QuietKept ==
    ASSUME Data, Kept, NEW p \in Terminals, NEW t, Goes(p, t), ~Writing(t),
           UNCHANGED <<file, promised>>
    PROVE  Kept'
  <1>1. terminal'[p] = t /\ \A q \in Terminals \ {p} : terminal'[q] = terminal[q]
    BY DEF Goes, Data, Memory
  <1>2. \A q \in Terminals : Writing(terminal'[q]) => terminal'[q] = terminal[q]
    BY <1>1
  <1>. SUFFICES ASSUME NEW b \in Boards, promised[b] # None
                PROVE  /\ Readable => Stored(b) /\ Credentials(file.boards[b]) = promised[b]
                       /\ \A q \in Terminals : Writing(terminal'[q]) /\ terminal'[q].fresh =>
                            Keeps(terminal'[q], promised[b], b)
    BY DEF Kept, Readable, Stored, Writing
  <1>. QED
    BY <1>2 DEF Kept

LEMMA BeginKept ==
    ASSUME Data, Kept, NEW p \in Terminals, Commands(p)
    PROVE  Kept'
  <1>1. PICK b \in Boards :
            \/ CreateBoard(p, b) \/ SendMessage(p, b) \/ SendReply(p, b) \/ SetNickname(p, b)
            \/ RepublishBoard(p, b) \/ UpdateConfig(p, b) \/ BanMember(p, b)
            \/ \E m \in Invited[b] : AcceptInvitation(p, b, m) \/ SendMessageWithKey(p, b, m)
    BY DEF Commands
  <1>2. UNCHANGED <<file, promised>>
    BY <1>1
    DEF CreateBoard, SendMessage, SendReply, SetNickname, RepublishBoard, UpdateConfig,
        BanMember, AcceptInvitation, SendMessageWithKey, Start
  <1>3. \E t : Goes(p, t) /\ ~Writing(t)
    <2>1. CASE CreateBoard(p, b)
      <3>1. PICK n \in Nicknames :
                Goes(p, Begun("create", "wait", b, Owner, CreatedBoard(n)))
        BY <2>1 DEF CreateBoard
      <3>. QED
        BY <3>1 DEF Begun, Writing
    <2>2. CASE SendMessage(p, b) \/ SendReply(p, b)
      <3>1. PICK m : Goes(p, [Begun("message", "compose", b, file.boards[b].key,
                                    file.boards[b].state) EXCEPT !.message = m])
        BY <2>2 DEF SendMessage, SendReply
      <3>. QED
        BY <3>1 DEF Begun, Writing
    <2>3. CASE SetNickname(p, b)
      <3>1. PICK s, d : Goes(p, [Begun("nickname", "load", b, file.boards[b].key, s) EXCEPT
                                    !.delta = d])
        BY <2>3 DEF SetNickname
      <3>. QED
        BY <3>1 DEF Begun, Writing
    <2>4. CASE RepublishBoard(p, b)
      BY <2>4 DEF RepublishBoard, Waits, Begun, Writing
    <2>5. CASE UpdateConfig(p, b) \/ BanMember(p, b)
      <3>1. PICK t, d : Sends(p, t, d)
        BY <2>5 DEF UpdateConfig, BanMember
      <3>. QED
        BY <3>1 DEF Sends, Waits, Begun, Writing
    <2>6. CASE \E m \in Invited[b] : AcceptInvitation(p, b, m)
      BY <2>6 DEF AcceptInvitation, Begun, Writing
    <2>7. CASE \E m \in Invited[b] : SendMessageWithKey(p, b, m)
      <3>1. PICK t, d : Sends(p, t, d)
        BY <2>7 DEF SendMessageWithKey
      <3>. QED
        BY <3>1 DEF Sends, Waits, Begun, Writing
    <2>. QED
      BY <1>1, <2>1, <2>2, <2>3, <2>4, <2>5, <2>6, <2>7
  <1>. QED
    BY <1>2, <1>3, QuietKept

LEMMA ComposeKept ==
    ASSUME Data, Kept, NEW p \in Terminals,
           ComposeMessage(p) \/ ComposeNickname(p) \/ Kill(p) \/ Lose(p) \/ Deliver(p)
    PROVE  Kept'
  <1>1. UNCHANGED <<file, promised>>
    BY DEF ComposeMessage, ComposeNickname, Kill, Lose, Deliver
  <1>2. ~Writing(Idle)
    BY DEF Idle, Begun, Writing
  <1>3. terminal[p] \in Process
    BY AtFacts
  <1>4. \E t : Goes(p, t) /\ ~Writing(t)
    <2>1. CASE ComposeMessage(p)
      <3>1. (\E d, s, v : Goes(p, Composed(terminal[p], d, s, v))) \/ Goes(p, Idle)
        BY <2>1 DEF ComposeMessage, Composed
      <3>2. \A d, s, v : Composed(terminal[p], d, s, v).step = "load"
        BY <1>3 DEF Composed, Process
      <3>. QED
        BY <1>2, <3>1, <3>2 DEF Writing
    <2>2. CASE ComposeNickname(p)
      BY <2>2 DEF ComposeNickname, Sends, Waits, Begun, Writing
    <2>3. CASE Kill(p) \/ Lose(p)
      BY <1>2, <2>3 DEF Kill, Lose
    <2>4. CASE Deliver(p)
      BY <1>2, <1>3, <2>4 DEF Deliver, Process, Writing
    <2>. QED
      BY <2>1, <2>2, <2>3, <2>4
  <1>. QED
    BY <1>1, <1>4, QuietKept

(* What was just loaded has what was promised, and what is made of it too. *)
LEMMA RewrittenKeeps ==
    ASSUME Data, Kept, NEW p \in Terminals, At(p, "load"), Readable,
           terminal[p].command \in {"create", "accept"} \/ Stored(terminal[p].board),
           NEW b \in Boards, promised[b] # None,
           terminal[p].command \notin {"create", "accept", "vouch"} \/ terminal[p].board # b
    PROVE  LET content == Rewritten(terminal[p], file.boards)
           IN  b \in DOMAIN content /\ Credentials(content[b]) = promised[b]
  <1>. DEFINE t == terminal[p]
              boards == file.boards
              content == Rewritten(t, boards)
  <1>1. /\ b \in DOMAIN boards /\ Credentials(boards[b]) = promised[b]
        /\ boards[b] \in StoredEntry
    BY StoredType DEF Kept, Stored, Data
  <1>. HIDE DEF t
  <1>2. CASE t.command \in {"create", "accept"}
    BY <1>1, <1>2 DEF Rewritten, AddBoard, t
  <1>3. CASE t.command = "vouch"
    BY <1>1, <1>3 DEF Rewritten, StoreAuthorizedMember, t
  <1>4. CASE t.command \notin {"create", "accept", "vouch"}
    BY <1>1, <1>4 DEF Rewritten, UpdateBoardState, Credentials, StoredEntry, t
  <1>. QED
    BY <1>2, <1>3, <1>4

LEMMA LoadKept ==
    ASSUME Data, Kept, NEW p \in Terminals, Load(p)
    PROVE  Kept'
  <1>. DEFINE t == terminal[p]
              found == Readable /\ (t.command \in {"create", "accept"} \/ Stored(t.board))
              content == Rewritten(t, file.boards)
              u == [t EXCEPT !.step = "truncate", !.fresh = TRUE, !.content = content]
  <1>1. /\ At(p, "load") /\ Goes(p, IF found THEN u ELSE Idle)
        /\ UNCHANGED <<file, promised>>
    BY DEF Load
  <1>2. CASE ~found
    BY <1>1, <1>2, QuietKept DEF Idle, Begun, Writing
  <1>3. CASE found
    <2>1. content \in Contents
      BY <1>1, <1>3, RewrittenOK
    <2>2. t \in Process
      BY AtFacts
    <2>3. Goes(p, u)
      BY <1>1, <1>3
    <2>4. ASSUME NEW b \in Boards, promised[b] # None,
                 t.command \notin {"create", "accept", "vouch"} \/ t.board # b
          PROVE  b \in DOMAIN content /\ Credentials(content[b]) = promised[b]
      BY <1>1, <1>3, <2>4, RewrittenKeeps
    <2>. HIDE DEF content, found
    <2>5. u.command = t.command /\ u.board = t.board /\ u.content = content
      BY <2>1, <2>2 DEF Process
    <2>. HIDE DEF u
    <2>6. terminal'[p] = u /\ \A q \in Terminals \ {p} : terminal'[q] = terminal[q]
      BY <2>3 DEF Goes, Data, Memory
    <2>7. ASSUME NEW b \in Boards, promised[b] # None
          PROVE  Keeps(u, promised[b], b)
      BY <2>4, <2>5, <2>7 DEF Keeps
    <2>8. ASSUME NEW b \in Boards, promised[b] # None
          PROVE  /\ Readable => Stored(b) /\ Credentials(file.boards[b]) = promised[b]
                 /\ \A q \in Terminals : Writing(terminal'[q]) /\ terminal'[q].fresh =>
                        Keeps(terminal'[q], promised[b], b)
      BY <2>6, <2>7, <2>8 DEF Kept
    <2>. QED
      BY <1>1, <2>8 DEF Kept, Readable, Stored, Writing
  <1>. QED
    BY <1>2, <1>3

LEMMA TruncateKept ==
    ASSUME Data, Kept, NEW p \in Terminals, Truncate(p)
    PROVE  Kept'
  <1>. DEFINE t == terminal[p]
              u == [t EXCEPT !.step = "fill"]
  <1>1. /\ t.step = "truncate" /\ Goes(p, u) /\ file' = Empty /\ UNCHANGED promised
    BY DEF Truncate, At
  <1>2. /\ u.command = t.command /\ u.board = t.board /\ u.content = t.content
        /\ u.fresh = t.fresh
    BY AtFacts DEF Process
  <1>. HIDE DEF u
  <1>3. terminal'[p] = u /\ \A q \in Terminals \ {p} : terminal'[q] = terminal[q]
    BY <1>1 DEF Goes, Data, Memory
  <1>4. ~Readable'
    BY <1>1 DEF Readable, Empty
  <1>5. ASSUME NEW b \in Boards, promised[b] # None, NEW q \in Terminals,
               Writing(terminal'[q]), terminal'[q].fresh
        PROVE  Keeps(terminal'[q], promised[b], b)
    <2>1. CASE q = p
      BY <1>1, <1>2, <1>3, <1>5, <2>1 DEF Kept, Keeps, Writing
    <2>2. CASE q # p
      BY <1>3, <1>5, <2>2 DEF Kept
    <2>. QED
      BY <2>1, <2>2
  <1>. QED
    BY <1>1, <1>4, <1>5 DEF Kept, Writing

(* After a write no other write in hand is fresh.  What the write itself   *)
(* had in hand is what is then promised.                                   *)
LEMMA FillKept ==
    ASSUME Data, Kept, NEW p \in Terminals, Fill(p)
    PROVE  Kept'
  <1>. DEFINE t == terminal[p]
              other(q) == [terminal[q] EXCEPT !.fresh = ~Writing(terminal[q])]
  <1>1. /\ At(p, "fill") /\ file' \in {Whole(t.content), Broken}
        /\ terminal' = [q \in Terminals |-> IF q = p THEN AfterWrite(t) ELSE other(q)]
        /\ promised' = Fulfilled(t)
    BY DEF Fill
  <1>2. /\ t.content \in Contents /\ t.board \in DOMAIN t.content /\ t.board \in Boards
        /\ Writing(t)
    BY <1>1, AtFacts DEF ProcessOK, Writing, At
  <1>3. ASSUME NEW q \in Terminals
        PROVE  ~(Writing(terminal'[q]) /\ terminal'[q].fresh)
    <2>1. CASE q = p
      BY <1>1, <2>1, AfterWriteOK
    <2>2. CASE q # p
      <3>1. terminal'[q] = other(q)
        BY <1>1, <2>2
      <3>2. other(q).fresh = ~Writing(terminal[q]) /\ other(q).step = terminal[q].step
        BY AtFacts DEF Process
      <3>. QED
        BY <3>1, <3>2 DEF Writing
    <2>. QED
      BY <2>1, <2>2
  <1>4. ASSUME NEW b \in Boards, promised'[b] # None
        PROVE  b \in DOMAIN t.content /\ Credentials(t.content[b]) = promised'[b]
    <2>1. t.fresh
      BY <1>1, <1>4 DEF Fulfilled, Forgotten
    <2>2. promised \in [Boards -> [key : Principals,
                                   self_authorized_member : Members \cup {None}] \cup {None}]
      BY DEF Data, Shared
    <2>3. CASE t.command \in {"create", "vouch"}
      <3>1. promised' = [promised EXCEPT ![t.board] = Credentials(t.content[t.board])]
        BY <1>1, <2>1, <2>3 DEF Fulfilled
      <3>2. CASE b = t.board
        BY <1>2, <2>2, <3>1, <3>2
      <3>3. CASE b # t.board
        <4>1. promised'[b] = promised[b]
          BY <2>2, <3>1, <3>3
        <4>. QED
          BY <1>2, <1>4, <2>1, <3>3, <4>1 DEF Kept, Keeps
      <3>. QED
        BY <3>2, <3>3
    <2>4. CASE t.command = "accept"
      <3>1. promised' = [promised EXCEPT ![t.board] = None]
        BY <1>1, <2>1, <2>4 DEF Fulfilled, Forgotten
      <3>2. b # t.board /\ promised'[b] = promised[b]
        BY <1>4, <2>2, <3>1
      <3>. QED
        BY <1>2, <1>4, <2>1, <3>2 DEF Kept, Keeps
    <2>5. CASE t.command \notin {"create", "vouch", "accept"}
      <3>1. promised' = promised
        BY <1>1, <2>1, <2>5 DEF Fulfilled, Forgotten
      <3>. QED
        BY <1>2, <1>4, <2>1, <2>5, <3>1 DEF Kept, Keeps
    <2>. QED
      BY <2>3, <2>4, <2>5
  <1>5. ASSUME NEW b \in Boards, promised'[b] # None, Readable'
        PROVE  (Stored(b) /\ Credentials(file.boards[b]) = promised[b])'
    <2>1. file' = Whole(t.content)
      BY <1>1, <1>5 DEF Readable, Broken
    <2>. QED
      BY <1>4, <1>5, <2>1 DEF Stored, Whole
  <1>. QED
    BY <1>3, <1>5 DEF Kept, Writing

LEMMA NextKept == Data /\ Kept /\ [Next]_vars => Kept'
  <1>1. ASSUME Kept, UNCHANGED vars
        PROVE  Kept'
    BY <1>1 DEF vars, Kept, Readable, Stored, Writing
  <1>2. ASSUME Data, Kept, NEW b \in Boards, Others(b)
        PROVE  Kept'
    BY <1>2 DEF Others, Kept, Readable, Stored, Writing
  <1>3. ASSUME Data, Kept, NEW p \in Terminals, Steps(p)
        PROVE  Kept'
    BY <1>3, ComposeKept, LoadKept, TruncateKept, FillKept DEF Steps
  <1>. QED
    BY <1>1, <1>2, <1>3, BeginKept DEF Next

---------------------------------------------------------------------------

(* The inductive invariant: what the processes have in memory and in       *)
(* flight, and what a write in hand keeps.                                 *)
THEOREM CliInvariant == Spec => []IInv
  <1>1. Init => IInv
    BY InitData, InitKept DEF IInv
  <1>2. IInv /\ [Next]_vars => IInv'
    BY NextData, NextKept DEF IInv
  <1>. QED
    BY <1>1, <1>2, PTL DEF Spec

(* The file, the boards at the node, what commands hold between their      *)
(* steps and what they ask of the node keep their types, whichever commands *)
(* run at once and wherever they are killed.                               *)
THEOREM CliTypes == Spec => []TypeOK
  <1>1. IInv => TypeOK
    <2>. SUFFICES ASSUME Data PROVE TypeOK
      BY DEF IInv
    <2>1. /\ file.text \in {"whole", "empty", "broken"}
          /\ \A b \in DOMAIN file.boards : b \in Boards /\ file.boards[b] \in StoredEntry
      BY DEF Data, Shared, Contents
    <2>2. \A p \in Terminals :
            /\ IF Writing(terminal[p]) THEN terminal[p].board \in DOMAIN terminal[p].content
               ELSE terminal[p].content = None
            /\ request[p] # None =>
                \/ request[p].delta \in ChatBoardStateDelta
                \/ request[p].delta = None /\ request[p].state \in ChatBoardState
            /\ terminal[p].step = "wait" => request[p] # None
      BY DEF Data, Memory, Requests, ProcessOK, RequestOK
    <2>. QED
      BY <2>1, <2>2 DEF TypeOK, StoredEntry, Data, Shared, Nodes
  <1>. QED
    BY <1>1, CliInvariant, PTL

(* What create and accept reported to have stored stays in boards.json, as *)
(* long as no write overtakes another and no other invitation to the board *)
(* is accepted.                                                            *)
THEOREM CredentialsStay == Spec => []CredentialsKept
  <1>1. IInv => CredentialsKept
    BY DEF IInv, Kept, CredentialsKept
  <1>. QED
    BY <1>1, CliInvariant, PTL

(* A board at the node changes its configuration by one version at a time, *)
(* whatever old deltas and copies arrive there.                            *)
THEOREM ConfigurationsFollow == Spec => ConfigurationsInOrder
  <1>. DEFINE A == \A b \in Boards : contract[b] # None =>
                    LET now == contract[b].configuration
                        next == contract'[b].configuration
                    IN  next # now =>
                            next.configuration_version = now.configuration_version + 1
  <1>1. IInv /\ [Next]_vars => AllAdvanced(contract, contract')
    <2>1. ASSUME Data, UNCHANGED contract
          PROVE  AllAdvanced(contract, contract')
      BY <2>1 DEF AllAdvanced, Advanced
    <2>2. ASSUME NEW p \in Terminals, Commands(p)
          PROVE  UNCHANGED contract
      BY <2>2
      DEF Commands, CreateBoard, SendMessage, SendReply, SetNickname, RepublishBoard,
          UpdateConfig, BanMember, AcceptInvitation, SendMessageWithKey, Start
    <2>3. ASSUME NEW p \in Terminals, Steps(p), ~Deliver(p)
          PROVE  UNCHANGED contract
      BY <2>3
      DEF Steps, ComposeMessage, ComposeNickname, Load, Truncate, Fill, Kill, Lose, Continue
    <2>. QED
      BY <2>1, <2>2, <2>3, DeliverNode, OthersNode DEF IInv, Next, vars
  <1>2. IInv /\ [Next]_vars => [A]_vars
    BY <1>1 DEF AllAdvanced, Advanced, SameOrNext
  <1>. QED
    BY <1>2, CliInvariant, PTL DEF Spec, ConfigurationsInOrder

---------------------------------------------------------------------------
(* What a message relies on, and who is barred from a board.               *)

(* A board whose members have complete chains and whose authors are        *)
(* members, with such bans.                                                *)
Orderly(s) == ChainsValid(s.members) /\ VerifyMessages(s) /\ BansFromAbove(s.bans)

(* The cleanup drops a ban if its banner is banned: who is barred remains  *)
(* so, by the ban of the topmost.                                          *)
LEMMA StillBarred ==
    ASSUME NEW t \in ChatBoardState, BansFromAbove(t.bans),
           NEW S \in SUBSET Members, ChainsValid(S), NEW a \in S, Barred(t, a)
    PROVE  Barred(Cleanup(t), a)
  <1>. DEFINE c == Cleanup(t)
              Above(m) == Required({m}, Members)
              banned == BannedUsers(t.bans)
              left == BannedUsers(c.bans)
              D == {m \in S : Above(m) \cap banned # {} => Above(m) \cap left # {}}
  <1>1. \A b \in t.bans : b.banned_by = Owner \/ b.banned_by \notin banned => b \in c.bans
    BY DEF Cleanup, ChatBoardState, Participants
  <1>2. ASSUME NEW m \in S, Inviter[m] \in {Owner} \cup D, Above(m) \cap banned # {}
        PROVE  Above(m) \cap left # {}
    <2>. DEFINE i == Inviter[m]
    <2>1. /\ m \in Above(m)
          /\ i \in Members => Above(m) = {m} \cup Above(i)
          /\ i \notin Members => Above(m) = {m}
      BY AboveIs
    <2>2. CASE i \in Members /\ Above(i) \cap banned # {}
      <3>1. i \in D
        BY <1>2, <2>2, OwnerAssumption
      <3>. QED
        BY <2>1, <2>2, <3>1
    <2>3. CASE ~(i \in Members /\ Above(i) \cap banned # {})
      <3>1. m \in banned /\ Above(m) \cap banned = {m}
        BY <1>2, <2>1, <2>3
      <3>2. PICK b \in t.bans : b.banned_user = m
        BY <3>1 DEF BannedUsers
      <3>3. b.banned_by = Owner \/ (b.banned_by # m /\ b.banned_by \in Above(m))
        BY <3>2 DEF BansFromAbove, FromAbove
      <3>. HIDE DEF banned, c
      <3>4. b \in c.bans
        BY <1>1, <3>1, <3>3
      <3>5. m \in left
        BY <3>2, <3>4 DEF BannedUsers
      <3>. QED
        BY <2>1, <3>5
    <2>. QED
      BY <2>2, <2>3
  <1>3. D \in SUBSET S /\ ClosedUnder({Owner}, S, D)
    BY <1>2 DEF ClosedUnder
  <1>. HIDE DEF D
  <1>4. S \subseteq D
    BY <1>3, ReachedLeast DEF ChainsValid, Rooted
  <1>. QED
    BY <1>4 DEF D, Barred

(* Who an update removes is barred afterwards.                             *)
LEMMA RemovedIsBarred ==
    ASSUME NEW s \in ChatBoardState, NEW d \in ChatBoardStateDelta, Accepts(s, d),
           Orderly(s), BansFromAbove(d.bans),
           NEW a \in s.members \cup d.members, a \notin Applied(s, d).members
    PROVE  Barred(Apply(s, d), a)
  <1>. DEFINE t == Applied(s, d)
              S == s.members \cup d.members
              B == BannedUsers(t.bans)
              D == {m \in S : Required({m}, Members) \cap B # {}}
  <1>1. t \in ChatBoardState /\ S \in SUBSET Members /\ ChainsValid(S)
    BY AppliedType, ChainsValidAdding
    DEF Accepts, MembersAccepted, Orderly, ChatBoardState, ChatBoardStateDelta
  <1>2. BansFromAbove(t.bans)
    BY DEF Applied, BansAfter, NewestBans, BansFromAbove, Orderly
  <1>3. B \subseteq Members
    BY <1>2 DEF BannedUsers, BansFromAbove, FromAbove
  <1>4. a \in B \cup Reached(B, S)
    BY DEF Applied, MembersAfter
  <1>. HIDE DEF B, S
  <1>5. ASSUME NEW m \in S, Inviter[m] \in B \cup D
        PROVE  m \in D
    <2>1. m \in Members /\ Inviter[m] \in Members
      BY <1>1, <1>3, <1>5
    <2>2. /\ Inviter[m] \in Required({Inviter[m]}, Members)
          /\ Required({m}, Members) = {m} \cup Required({Inviter[m]}, Members)
      BY <2>1, AboveIs
    <2>. QED
      BY <1>5, <2>2
  <1>6. D \in SUBSET S /\ ClosedUnder(B, S, D)
    BY <1>5 DEF ClosedUnder
  <1>7. a \in S /\ a \in Members
    BY <1>1 DEF S
  <1>. HIDE DEF D
  <1>8. a \in B \cup D
    BY <1>4, <1>6, ReachedLeast
  <1>9. a \in Required({a}, Members)
    BY <1>7, AboveIs
  <1>10. Barred(t, a)
    BY <1>7, <1>8, <1>9 DEF D, B, Barred
  <1>. QED
    BY <1>1, <1>2, <1>7, <1>10, StillBarred DEF Apply

(* So a message of the board or the update is on the board afterwards, if  *)
(* it may be.                                                              *)
LEMMA MessageStays ==
    ASSUME NEW s \in ChatBoardState, NEW d \in ChatBoardStateDelta, Accepts(s, d),
           Orderly(s), BansFromAbove(d.bans),
           NEW m \in s.recent_messages \cup d.recent_messages,
           m.author \in Participants(s.members \cup d.members)
    PROVE  ~Missing(m, Apply(s, d))
  <1>. DEFINE t == Applied(s, d)
  <1>1. t \in ChatBoardState
    BY AppliedType DEF Accepts
  <1>2. /\ Apply(s, d).configuration = t.configuration
        /\ Apply(s, d).recent_messages = t.recent_messages
    BY <1>1, CleanupFacts DEF Apply
  <1>3. m.author \in Participants(t.members) /\ m.size <= t.configuration.max_message_size
            => m \in t.recent_messages
    BY DEF Applied, MessagesAfter
  <1>4. m.author \notin Participants(t.members) => Barred(Apply(s, d), m.author)
    BY RemovedIsBarred DEF Participants
  <1>. HIDE DEF t
  <1>. QED
    BY <1>2, <1>3, <1>4 DEF Missing

(* An update with bans from above leaves an orderly board.                 *)
LEMMA ApplyOrderly ==
    ASSUME NEW s \in ChatBoardState, NEW d \in ChatBoardStateDelta, Accepts(s, d),
           Orderly(s), BansFromAbove(d.bans)
    PROVE  Orderly(Apply(s, d))
  <1>. DEFINE t == Applied(s, d)
              c == Cleanup(t)
  <1>1. t \in ChatBoardState
    BY AppliedType DEF Accepts
  <1>2. ChainsValid(t.members)
    BY AppliedChains DEF Orderly
  <1>3. VerifyMessages(t)
    BY DEF Applied, MessagesAfter, VerifyMessages
  <1>4. BansFromAbove(t.bans)
    BY DEF Applied, BansAfter, NewestBans, BansFromAbove, Orderly
  <1>5. /\ c.recent_messages = t.recent_messages /\ c.bans \subseteq t.bans
        /\ c.members = Required(Authors(t), t.members)
        /\ Authors(t) \cap t.members \subseteq c.members
    BY <1>1, CleanupFacts DEF Authors
  <1>. HIDE DEF t, c
  <1>6. ChainsValid(c.members)
    BY <1>2, <1>5, ChainsValidPruning
  <1>7. VerifyMessages(c)
    BY <1>3, <1>5 DEF VerifyMessages, Authors, Participants
  <1>8. BansFromAbove(c.bans)
    BY <1>4, <1>5 DEF BansFromAbove
  <1>. QED
    BY <1>6, <1>7, <1>8 DEF Orderly, Apply, c, t

(* A message is by the owner, or brings its author's record, if it relies  *)
(* on that.                                                                *)
Relies(d, standing) ==
    /\ d \in ChatBoardStateDelta /\ d.bans = {}
    /\ \A m \in d.recent_messages : /\ standing = "owner" => m.author = Owner
                                    /\ standing = "vouched" => m.author \in d.members

(* What is in a file, in a process and in a request.                       *)
OrderlyContent(boards) == \A b \in DOMAIN boards : Orderly(boards[b].state)

OrderlyProcess(t) ==
    /\ t.state # None => Orderly(t.state)
    /\ Writing(t) => OrderlyContent(t.content)
    /\ t.command = "message" =>
        /\ t.step = "compose" => t.message.author = t.key
        /\ t.step \in {"load", "truncate", "fill"} => Relies(t.delta, t.standing)
    /\ t.command = "nickname" /\ t.step \notin {"none", "wait"} => t.delta.bans = {}

OrderlyRequest(r) ==
    /\ IF r.delta = None THEN Orderly(r.state) ELSE BansFromAbove(r.delta.bans)
    /\ r.command = "message" => r.delta # None /\ Relies(r.delta, r.standing)
    /\ r.command = "republish" => r.delta = None

(* The inductive invariant: all boards are orderly, wherever they are, and *)
(* every request about a message has what it relies on.                    *)
AllOrderly ==
    /\ \A b \in Boards : contract[b] # None => Orderly(contract[b])
    /\ OrderlyContent(file.boards)
    /\ \A p \in Terminals :
        /\ OrderlyProcess(terminal[p])
        /\ request[p] # None => OrderlyRequest(request[p])

(* One process goes on, and asks the node for something or not.            *)
LEMMA MovesOrderly ==
    ASSUME Data, AllOrderly, NEW p \in Terminals, NEW t, Goes(p, t), OrderlyProcess(t),
           UNCHANGED contract, OrderlyContent(file'.boards),
           \/ AsksNothing \/ Asks(p, None)
           \/ \E r : Asks(p, r) /\ OrderlyRequest(r)
    PROVE  AllOrderly'
  <1>1. terminal'[p] = t /\ \A q \in Terminals \ {p} : terminal'[q] = terminal[q]
    BY DEF Goes, Data, Memory
  <1>2. \A q \in Terminals : OrderlyProcess(terminal'[q])
    BY <1>1 DEF AllOrderly
  <1>3. \A q \in Terminals : request'[q] # None => OrderlyRequest(request'[q])
    BY DEF AllOrderly, AsksNothing, Asks, Data, Requests
  <1>. QED
    BY <1>2, <1>3 DEF AllOrderly, OrderlyContent

(* What commands compose has no bans, but for a ban.                       *)
LEMMA NoBans ==
    /\ BansFromAbove({})
    /\ EmptyDelta.bans = {} /\ EmptyDelta.members = {}
    /\ \A s, b, key, m : /\ MessageDelta(s, b, key, m).bans = {}
                         /\ MessageDelta(s, b, key, m).members = RejoinMembers(s, b, key)
                         /\ MessageDelta(s, b, key, m).recent_messages = {m}
  BY DEF BansFromAbove, MessageDelta, EmptyDelta

(* A board with nobody but its owner is orderly.                           *)
LEMMA CreatedOrderly == ASSUME NEW n PROVE Orderly(CreatedBoard(n))
  <1>1. ChainsValid({})
    BY DEF ChainsValid, Rooted, Reached
  <1>. QED
    BY <1>1 DEF CreatedBoard, Orderly, VerifyMessages, BansFromAbove

(* A process without a command has nothing.                                *)
LEMMA IdleOrderly == OrderlyProcess(Idle) /\ Idle.step = "none"
  BY DEF Idle, Begun, OrderlyProcess, Writing

(* One that waits for an answer has nothing any more.                      *)
LEMMA WaitsOrderly == ASSUME NEW t PROVE OrderlyProcess(Waits(t))
  BY DEF Waits, Begun, OrderlyProcess, Writing

(* The first steps.                                                        *)
LEMMA CreateOrderly ==
    ASSUME Data, AllOrderly, NEW p \in Terminals, NEW b \in Boards, CreateBoard(p, b)
    PROVE  AllOrderly'
  <1>1. PICK n \in Nicknames :
            LET t == Begun("create", "wait", b, Owner, CreatedBoard(n))
            IN  Goes(p, t) /\ Asks(p, Put(t))
    BY DEF CreateBoard
  <1>. DEFINE t == Begun("create", "wait", b, Owner, CreatedBoard(n))
  <1>2. t.command = "create" /\ t.step = "wait" /\ t.state = CreatedBoard(n)
    BY DEF Begun
  <1>. HIDE DEF t
  <1>3. Goes(p, t) /\ Asks(p, Put(t)) /\ UNCHANGED <<file, contract>>
    BY <1>1 DEF t, CreateBoard, Start
  <1>4. OrderlyProcess(t)
    BY <1>2, CreatedOrderly DEF OrderlyProcess, Writing
  <1>5. OrderlyRequest(Put(t))
    BY <1>2, CreatedOrderly DEF OrderlyRequest, Put
  <1>. QED
    BY <1>3, <1>4, <1>5, MovesOrderly DEF AllOrderly

(* Accepting an invitation takes the board as it is fetched.               *)
LEMMA AcceptOrderly ==
    ASSUME Data, AllOrderly, NEW p \in Terminals, NEW b \in Boards, NEW m \in Invited[b],
           AcceptInvitation(p, b, m)
    PROVE  AllOrderly'
  <1>1. PICK chain : Goes(p, [Begun("accept", "load", b, m, contract[b]) EXCEPT !.chain = chain])
    BY DEF AcceptInvitation
  <1>. DEFINE t == [Begun("accept", "load", b, m, contract[b]) EXCEPT !.chain = chain]
  <1>2. t.command = "accept" /\ t.step = "load" /\ t.state = contract[b]
    BY DEF Begun
  <1>3. Goes(p, t) /\ AsksNothing /\ UNCHANGED <<file, contract>>
    BY <1>1 DEF AcceptInvitation, Start
  <1>. HIDE DEF t
  <1>4. OrderlyProcess(t)
    BY <1>2 DEF OrderlyProcess, Writing, AllOrderly, AcceptInvitation, Fetchable
  <1>. QED
    BY <1>3, <1>4, MovesOrderly DEF AllOrderly

(* A stored copy is orderly.                                               *)
LEMMA StoredOrderly ==
    ASSUME AllOrderly, NEW b, Stored(b)
    PROVE  Orderly(file.boards[b].state)
  BY DEF AllOrderly, OrderlyContent, Stored

(* A message is signed with the key of the entry.                          *)
LEMMA SendOrderly ==
    ASSUME Data, AllOrderly, NEW p \in Terminals, NEW b \in Boards, SendMessage(p, b)
    PROVE  AllOrderly'
  <1>. DEFINE entry == file.boards[b]
              begun == Begun("message", "compose", b, entry.key, entry.state)
  <1>1. PICK size \in Sizes :
            Goes(p, [begun EXCEPT !.message = ComposedMessage(entry.key, size)])
    BY DEF SendMessage
  <1>. DEFINE t == [begun EXCEPT !.message = ComposedMessage(entry.key, size)]
  <1>2. /\ t.command = "message" /\ t.step = "compose" /\ t.state = entry.state
        /\ t.key = entry.key /\ t.message = ComposedMessage(entry.key, size)
    BY DEF Begun
  <1>3. Goes(p, t) /\ AsksNothing /\ UNCHANGED <<file, contract>> /\ Stored(b)
    BY <1>1 DEF SendMessage, Start
  <1>. HIDE DEF t
  <1>4. t.message.author = t.key
    BY <1>2 DEF ComposedMessage
  <1>5. OrderlyProcess(t)
    BY <1>2, <1>3, <1>4, StoredOrderly DEF OrderlyProcess, Writing
  <1>. QED
    BY <1>3, <1>5, MovesOrderly DEF AllOrderly

(* A nickname changes the copy in its infos only.                          *)
LEMMA SetNicknameOrderly ==
    ASSUME Data, AllOrderly, NEW p \in Terminals, NEW b \in Boards, SetNickname(p, b)
    PROVE  AllOrderly'
  <1>. DEFINE entry == file.boards[b]
              state(infos) == [entry.state EXCEPT !.member_info = infos]
              delta(infos) == [EmptyDelta EXCEPT !.member_info = infos]
              begun(infos) == Begun("nickname", "load", b, entry.key, state(infos))
  <1>1. PICK i, j : Goes(p, [begun(i) EXCEPT !.delta = delta(j)])
    BY DEF SetNickname
  <1>. DEFINE s == state(i)
              d == delta(j)
              t == [begun(i) EXCEPT !.delta = d]
  <1>2. /\ t.command = "nickname" /\ t.step = "load" /\ t.state = s /\ t.delta = d
    BY DEF Begun
  <1>3. Goes(p, t) /\ AsksNothing /\ UNCHANGED <<file, contract>> /\ Stored(b)
    BY <1>1 DEF SetNickname, Start
  <1>4. entry.state \in ChatBoardState /\ Orderly(entry.state)
    BY <1>3, StoredType, StoredOrderly DEF Data, StoredEntry
  <1>5. s.members = entry.state.members /\ s.bans = entry.state.bans
        /\ s.recent_messages = entry.state.recent_messages
    BY <1>4 DEF ChatBoardState
  <1>6. d.bans = {}
    BY DEF EmptyDelta
  <1>. HIDE DEF t, s, d
  <1>7. Orderly(s)
    BY <1>4, <1>5 DEF Orderly, VerifyMessages
  <1>8. OrderlyProcess(t)
    BY <1>2, <1>6, <1>7 DEF OrderlyProcess, Writing
  <1>. QED
    BY <1>3, <1>8, MovesOrderly DEF AllOrderly

(* Republishing puts the stored copy.                                      *)
LEMMA RepublishOrderly ==
    ASSUME Data, AllOrderly, NEW p \in Terminals, NEW b \in Boards, RepublishBoard(p, b)
    PROVE  AllOrderly'
  <1>. DEFINE entry == file.boards[b]
              t == Begun("republish", "wait", b, entry.key, entry.state)
  <1>1. /\ Goes(p, Waits(t)) /\ Asks(p, Put(t)) /\ UNCHANGED <<file, contract>>
        /\ Orderly(entry.state)
    BY StoredOrderly DEF RepublishBoard, Start
  <1>2. t.command = "republish" /\ t.state = entry.state
    BY DEF Begun
  <1>. HIDE DEF t
  <1>3. OrderlyRequest(Put(t))
    BY <1>1, <1>2 DEF OrderlyRequest, Put
  <1>. QED
    BY <1>1, <1>3, WaitsOrderly, MovesOrderly DEF AllOrderly

(* A command that sends a delta.                                           *)
LEMMA SendsOrderly ==
    ASSUME Data, AllOrderly, NEW p \in Terminals, NEW t, NEW d \in ChatBoardStateDelta,
           Sends(p, t, d), UNCHANGED <<file, contract>>, BansFromAbove(d.bans),
           t.command # "republish", t.command = "message" => Relies(d, t.standing)
    PROVE  AllOrderly'
  <1>1. OrderlyRequest(Update(t, d))
    BY AbsentAssumption DEF OrderlyRequest, Update
  <1>. QED
    BY <1>1, WaitsOrderly, MovesOrderly DEF Sends, AllOrderly

(* A configuration brings no bans.                                         *)
LEMMA UpdateConfigOrderly ==
    ASSUME Data, AllOrderly, NEW p \in Terminals, NEW b \in Boards, UpdateConfig(p, b)
    PROVE  AllOrderly'
  <1>. DEFINE t == Begun("config", "wait", b, Owner, contract[b])
              delta(limit) == [EmptyDelta EXCEPT !.configuration =
                                NewConfiguration(contract[b].configuration, limit)]
  <1>1. PICK limit \in BanLimits : Sends(p, t, delta(limit))
    BY DEF UpdateConfig
  <1>2. delta(limit) \in ChatBoardStateDelta /\ UNCHANGED <<file, contract>>
    BY FetchedFacts DEF UpdateConfig, Start
  <1>3. delta(limit).bans = {} /\ t.command = "config"
    BY DEF Begun, EmptyDelta
  <1>. HIDE DEF delta, t
  <1>. QED
    BY <1>1, <1>2, <1>3, NoBans, SendsOrderly

(* ban_member lets the owner and those above the member ban.               *)
LEMMA BanMemberOrderly ==
    ASSUME Data, AllOrderly, NEW p \in Terminals, NEW b \in Boards, BanMember(p, b)
    PROVE  AllOrderly'
  <1>. DEFINE key == file.boards[b].key
              t == Begun("ban", "wait", b, key, contract[b])
              ban(target) == [id |-> NextId, banned_by |-> key, banned_user |-> target]
              delta(target) == [EmptyDelta EXCEPT !.bans = {ban(target)}]
  <1>1. PICK target \in Members : /\ Sends(p, t, delta(target))
                                 /\ MayBan(key, target, contract[b])
    BY DEF BanMember
  <1>2. /\ contract[b] \in ChatBoardState /\ key \in Principals /\ UNCHANGED <<file, contract>>
    BY FetchedFacts, StoredType DEF BanMember, Data, StoredEntry, Start
  <1>3. delta(target) \in ChatBoardStateDelta
    BY <1>2, BanDeltaType DEF Plain, Data
  <1>4. FromAbove(ban(target))
    <2>1. key = Owner \/ (key # target /\ key \in Required({target}, Members))
      BY <1>1, <1>2, AboveMonotonic DEF MayBan, InChainOf, ChatBoardState
    <2>. QED
      BY <2>1 DEF FromAbove
  <1>5. delta(target).bans = {ban(target)} /\ t.command = "ban"
    BY DEF Begun, EmptyDelta
  <1>. HIDE DEF delta, t, ban
  <1>6. BansFromAbove(delta(target).bans)
    BY <1>4, <1>5 DEF BansFromAbove
  <1>. QED
    BY <1>1, <1>2, <1>3, <1>5, <1>6, SendsOrderly

(* With a key from the command line the author is listed.                  *)
LEMMA SendWithKeyOrderly ==
    ASSUME Data, AllOrderly, NEW p \in Terminals, NEW b \in Boards, NEW m \in Invited[b],
           SendMessageWithKey(p, b, m)
    PROVE  AllOrderly'
  <1>. DEFINE t == [Begun("message", "wait", b, m, contract[b]) EXCEPT !.standing = "listed"]
              delta(size) == MessageDelta(contract[b], b, m, ComposedMessage(m, size))
  <1>1. PICK size \in Sizes : Sends(p, t, delta(size))
    BY DEF SendMessageWithKey
  <1>2. /\ contract[b] \in ChatBoardState /\ m \in Principals /\ UNCHANGED <<file, contract>>
    BY FetchedFacts, BoardsAssumption DEF SendMessageWithKey, Principals, Start
  <1>3. delta(size) \in ChatBoardStateDelta
    BY <1>2, MessageType, MessageDeltaType DEF Data, Plain
  <1>4. delta(size).bans = {} /\ t.standing = "listed" /\ t.command = "message"
    BY NoBans DEF Begun
  <1>. HIDE DEF delta, t
  <1>5. Relies(delta(size), t.standing)
    BY <1>3, <1>4 DEF Relies
  <1>. QED
    BY <1>1, <1>2, <1>3, <1>4, <1>5, NoBans, SendsOrderly

(* The later steps.                                                        *)
LEMMA ComposedRelies ==
    ASSUME Shared, NEW s \in ChatBoardState, NEW b, NEW key \in Principals,
           NEW m \in Message, m.author = key
    PROVE  Relies(MessageDelta(s, b, key, m), Standing(s, b, key))
  <1>. DEFINE d == MessageDelta(s, b, key, m)
              v == Standing(s, b, key)
  <1>1. d \in ChatBoardStateDelta /\ d.bans = {} /\ d.recent_messages = {m}
        /\ d.members = RejoinMembers(s, b, key)
    BY MessageDeltaType, NoBans DEF Plain
  <1>2. v = "owner" => key = Owner
    BY DEF Standing
  <1>3. v = "vouched" => key \in RejoinMembers(s, b, key)
    BY DEF Standing, RejoinMembers
  <1>. HIDE DEF d, v
  <1>4. Relies(d, v)
    BY <1>1, <1>2, <1>3 DEF Relies
  <1>. QED
    BY <1>4 DEF d, v

(* The message is applied to the copy before that is stored.               *)
LEMMA ComposeMessageOrderly ==
    ASSUME Data, AllOrderly, NEW p \in Terminals, ComposeMessage(p)
    PROVE  AllOrderly'
  <1>. DEFINE t == terminal[p]
              d == MessageDelta(t.state, t.board, t.key, t.message)
              s == Apply(t.state, d)
              v == Standing(t.state, t.board, t.key)
              u == Composed(t, d, s, v)
  <1>1. /\ t.step = "compose" /\ t.command = "message"
        /\ Goes(p, IF Accepts(t.state, d) THEN u ELSE Idle)
        /\ UNCHANGED <<file, contract>> /\ AsksNothing
    BY DEF ComposeMessage, AsksNothing, Composed, Continue, At
  <1>2. t \in Process /\ InHand(t)
    BY <1>1, AtFacts
  <1>3. /\ t.key \in Principals /\ t.state \in ChatBoardState /\ t.message \in Message
        /\ t.state # None
    BY <1>1, <1>2, AbsentAssumption DEF InHand
  <1>4. OrderlyProcess(t)
    BY DEF AllOrderly
  <1>5. CASE ~Accepts(t.state, d)
    BY <1>1, <1>5, IdleOrderly, MovesOrderly DEF AllOrderly
  <1>6. CASE Accepts(t.state, d)
    <2>1. Relies(d, v) /\ Orderly(t.state) /\ v \in Standings
      BY <1>1, <1>3, <1>4, ComposedRelies DEF Data, OrderlyProcess, Standing, Standings
    <2>2. d \in ChatBoardStateDelta /\ BansFromAbove(d.bans)
      BY <2>1, NoBans DEF Relies
    <2>. HIDE DEF d
    <2>3. Orderly(s) /\ s \in ChatBoardState
      BY <1>3, <1>6, <2>1, <2>2, ApplyOrderly, ApplyType
    <2>. HIDE DEF s, v
    <2>4. /\ u.step = "load" /\ u.delta = d /\ u.state = s /\ u.command = t.command
          /\ u.standing = v
      BY <1>2, <2>1, <2>2, <2>3, ComposedProcess
    <2>5. Goes(p, u)
      BY <1>1, <1>6
    <2>. HIDE DEF u
    <2>6. OrderlyProcess(u)
      BY <1>1, <2>1, <2>3, <2>4 DEF OrderlyProcess, Writing
    <2>. QED
      BY <1>1, <2>5, <2>6, MovesOrderly DEF AllOrderly
  <1>. QED
    BY <1>5, <1>6

(* The delta of a nickname is sent after the copy was stored.              *)
LEMMA ComposeNicknameOrderly ==
    ASSUME Data, AllOrderly, NEW p \in Terminals, ComposeNickname(p)
    PROVE  AllOrderly'
  <1>. DEFINE t == terminal[p]
              members == RejoinMembers(t.state, t.board, t.key)
              d == [t.delta EXCEPT !.members = members]
  <1>1. /\ t.step = "compose" /\ t.command = "nickname" /\ Sends(p, t, d)
        /\ UNCHANGED <<file, contract>>
    BY DEF ComposeNickname, Continue, At
  <1>2. InHand(t) /\ OrderlyProcess(t)
    BY <1>1, AtFacts DEF AllOrderly
  <1>3. t.delta \in ChatBoardStateDelta /\ t.delta.bans = {} /\ members \subseteq Members
    BY <1>1, <1>2, RejoinType DEF InHand, Plain, OrderlyProcess, Data
  <1>. HIDE DEF t, members
  <1>4. d \in ChatBoardStateDelta /\ d.bans = {}
    BY <1>3 DEF ChatBoardStateDelta
  <1>. QED
    BY <1>1, <1>4, NoBans, SendsOrderly

(* A process that is killed or cut off has nothing any more.               *)
LEMMA StopOrderly ==
    ASSUME Data, AllOrderly, NEW p \in Terminals, Kill(p) \/ Lose(p)
    PROVE  AllOrderly'
  <1>1. /\ Goes(p, Idle) /\ UNCHANGED <<file, contract>>
        /\ AsksNothing \/ Asks(p, None)
    BY DEF Kill, Lose, Continue, AsksNothing
  <1>. QED
    BY <1>1, IdleOrderly, MovesOrderly DEF AllOrderly

(* What is to be written is what was loaded, with the copy in hand.        *)
LEMMA LoadOrderly ==
    ASSUME Data, AllOrderly, NEW p \in Terminals, Load(p)
    PROVE  AllOrderly'
  <1>. DEFINE t == terminal[p]
              found == Readable /\ (t.command \in {"create", "accept"} \/ Stored(t.board))
              content == Rewritten(t, file.boards)
              u == [t EXCEPT !.step = "truncate", !.fresh = TRUE, !.content = content]
  <1>1. /\ At(p, "load") /\ Goes(p, IF found THEN u ELSE Idle)
        /\ UNCHANGED <<file, contract>> /\ AsksNothing
    BY DEF Load, AsksNothing, Continue
  <1>2. /\ t \in Process /\ InHand(t) /\ t.board \in Boards /\ OrderlyProcess(t)
        /\ t.step = "load"
    BY <1>1, AtFacts DEF At, AllOrderly
  <1>3. CASE ~found
    BY <1>1, <1>3, IdleOrderly, MovesOrderly DEF AllOrderly
  <1>4. CASE found
    <2>1. OrderlyContent(content)
      <3>1. /\ OrderlyContent(file.boards)
            /\ \A b \in DOMAIN file.boards : file.boards[b] \in StoredEntry
        BY DEF AllOrderly, Data, Shared, Contents
      <3>2. t.command # "vouch" => Orderly(t.state)
        BY <1>2, AbsentAssumption DEF InHand, OrderlyProcess
      <3>. HIDE DEF t
      <3>3. CASE t.command \in {"create", "accept"}
        BY <3>1, <3>2, <3>3 DEF Rewritten, AddBoard, Entry, OrderlyContent
      <3>4. CASE t.command = "vouch"
        BY <3>1, <3>4 DEF Rewritten, StoreAuthorizedMember, OrderlyContent, StoredEntry
      <3>5. CASE t.command \notin {"create", "accept", "vouch"}
        BY <3>1, <3>2, <3>5 DEF Rewritten, UpdateBoardState, OrderlyContent, StoredEntry
      <3>. QED
        BY <3>3, <3>4, <3>5
    <2>2. content \in Contents /\ Goes(p, u)
      BY <1>1, <1>4, RewrittenOK
    <2>. HIDE DEF content, found
    <2>3. /\ u.step = "truncate" /\ u.content = content /\ u.command = t.command
          /\ u.state = t.state /\ u.delta = t.delta /\ u.standing = t.standing
      BY <1>2, <2>2 DEF Process
    <2>. HIDE DEF u
    <2>4. OrderlyProcess(u)
      BY <1>2, <2>1, <2>3 DEF OrderlyProcess
    <2>. QED
      BY <1>1, <2>2, <2>4, MovesOrderly DEF AllOrderly
  <1>. QED
    BY <1>3, <1>4

(* Opening the file for writing leaves nothing in it.                      *)
LEMMA TruncateOrderly ==
    ASSUME Data, AllOrderly, NEW p \in Terminals, Truncate(p)
    PROVE  AllOrderly'
  <1>. DEFINE t == terminal[p]
              u == [t EXCEPT !.step = "fill"]
  <1>1. /\ t.step = "truncate" /\ Goes(p, u) /\ file' = Empty /\ AsksNothing
        /\ UNCHANGED contract
    BY DEF Truncate, AsksNothing, Continue, At
  <1>2. /\ u.step = "fill" /\ u.content = t.content /\ u.command = t.command
        /\ u.state = t.state /\ u.delta = t.delta /\ u.standing = t.standing
    BY AtFacts DEF Process
  <1>. HIDE DEF u
  <1>3. OrderlyProcess(t)
    BY DEF AllOrderly
  <1>4. OrderlyProcess(u)
    BY <1>1, <1>2, <1>3 DEF OrderlyProcess, Writing
  <1>5. OrderlyContent(file'.boards)
    BY <1>1 DEF Empty, OrderlyContent
  <1>. QED
    BY <1>1, <1>4, <1>5, MovesOrderly

(* After the write a process holds what it held, or less.                  *)
LEMMA FillOrderly ==
    ASSUME Data, AllOrderly, NEW p \in Terminals, Fill(p)
    PROVE  AllOrderly'
  <1>. DEFINE t == terminal[p]
              u == AfterWrite(t)
              other(q) == [terminal[q] EXCEPT !.fresh = ~Writing(terminal[q])]
  <1>1. /\ t.step = "fill" /\ file' \in {Whole(t.content), Broken}
        /\ terminal' = [q \in Terminals |-> IF q = p THEN u ELSE other(q)]
        /\ IF t.command = "message" THEN Asks(p, Update(t, t.delta)) ELSE AsksNothing
        /\ UNCHANGED contract
    BY DEF Fill, Continue, At
  <1>2. /\ t \in Process /\ InHand(t) /\ OrderlyProcess(t)
        /\ \A q \in Terminals : terminal[q] \in Process /\ OrderlyProcess(terminal[q])
    BY <1>1, AtFacts DEF AllOrderly
  <1>3. OrderlyProcess(u)
    <2>1. CASE t.command = "accept"
      <3>1. u.command = "vouch" /\ u.step = "load" /\ u.state = None
        BY <1>2, <2>1 DEF AfterWrite, Process
      <3>. QED
        BY <3>1 DEF OrderlyProcess, Writing
    <2>2. CASE t.command = "message"
      BY <2>2, WaitsOrderly DEF AfterWrite
    <2>3. CASE t.command = "nickname"
      <3>1. /\ u.command = t.command /\ u.step = "compose" /\ u.state = t.state
            /\ u.delta = t.delta
        BY <1>2, <2>3 DEF AfterWrite, Process
      <3>. HIDE DEF u
      <3>. QED
        BY <1>1, <1>2, <2>3, <3>1 DEF OrderlyProcess, Writing
    <2>4. CASE t.command \notin {"accept", "message", "nickname"}
      BY <2>4, IdleOrderly DEF AfterWrite
    <2>. QED
      BY <2>1, <2>2, <2>3, <2>4
  <1>4. ASSUME NEW q \in Terminals
        PROVE  OrderlyProcess(other(q))
    <2>. DEFINE a == terminal[q]
                w == ~Writing(a)
                b == [a EXCEPT !.fresh = w]
    <2>1. /\ b.command = a.command /\ b.step = a.step /\ b.state = a.state /\ b.delta = a.delta
          /\ b.message = a.message /\ b.key = a.key /\ b.content = a.content
          /\ b.standing = a.standing
      BY <1>2 DEF Process
    <2>2. OrderlyProcess(a)
      BY <1>2
    <2>. HIDE DEF a, b
    <2>3. OrderlyProcess(b)
      BY <2>1, <2>2 DEF OrderlyProcess, Writing
    <2>. QED
      BY <2>3 DEF a, b
  <1>5. OrderlyContent(file'.boards)
    BY <1>1, <1>2 DEF Whole, Broken, OrderlyProcess, OrderlyContent, Writing
  <1>6. ASSUME NEW q \in Terminals, request'[q] # None
        PROVE  OrderlyRequest(request'[q])
    <2>1. CASE t.command # "message"
      BY <1>1, <1>6, <2>1 DEF AsksNothing, AllOrderly
    <2>2. CASE t.command = "message"
      <3>. DEFINE r == Update(t, t.delta)
      <3>1. Relies(t.delta, t.standing)
        BY <1>1, <1>2, <2>2 DEF OrderlyProcess
      <3>2. OrderlyRequest(r)
        BY <2>2, <3>1, NoBans, AbsentAssumption DEF OrderlyRequest, Update, Relies
      <3>. HIDE DEF r
      <3>3. request'[q] = r \/ request'[q] = request[q]
        BY <1>1, <2>2 DEF Asks, Data, Requests, r
      <3>. QED
        BY <1>6, <3>2, <3>3 DEF AllOrderly
    <2>. QED
      BY <2>1, <2>2
  <1>. HIDE DEF u, other
  <1>7. \A q \in Terminals : OrderlyProcess(terminal'[q])
    BY <1>1, <1>3, <1>4
  <1>. QED
    BY <1>1, <1>5, <1>6, <1>7 DEF AllOrderly

(* What a request leaves at the node.                                      *)
LEMMA DeliveredOrderly ==
    ASSUME Shared, AllOrderly, NEW r, RequestOK(r), OrderlyRequest(r), Accepted(r)
    PROVE  Orderly(After(r))
  <1>. DEFINE s == contract[r.board]
  <1>1. s \in ChatBoardState \cup {None} /\ (s # None => Orderly(s))
    BY DEF RequestOK, Request, Shared, Nodes, AllOrderly
  <1>2. CASE r.delta # None
    <2>1. /\ s \in ChatBoardState /\ r.delta \in ChatBoardStateDelta /\ Accepts(s, r.delta)
          /\ BansFromAbove(r.delta.bans) /\ After(r) = Apply(s, r.delta)
      BY <1>1, <1>2 DEF Accepted, RequestOK, OrderlyRequest, After
    <2>. QED
      BY <1>1, <2>1, ApplyOrderly, AbsentAssumption
  <1>3. CASE r.delta = None
    <2>. DEFINE d == Delta(r.state, s)
    <2>1. /\ r.state \in ChatBoardState /\ Orderly(r.state)
          /\ PutAccepted(s, r.state) /\ After(r) = PutAfter(s, r.state)
      BY <1>3, AbsentAssumption DEF RequestOK, OrderlyRequest, Accepted, After
    <2>2. CASE s # None
      <3>1. s \in ChatBoardState /\ Accepts(s, d) /\ d \in ChatBoardStateDelta
        BY <1>1, <2>1, <2>2, DeltaType DEF PutAccepted, MergeAccepts
      <3>2. BansFromAbove(d.bans)
        BY <2>1 DEF Delta, Orderly, BansFromAbove
      <3>3. After(r) = s \/ After(r) = Apply(s, d)
        BY <2>1, <2>2 DEF PutAfter, Merge
      <3>. HIDE DEF s, d
      <3>. QED
        BY <1>1, <2>2, <3>1, <3>2, <3>3, ApplyOrderly
    <2>. QED
      BY <2>1, <2>2 DEF PutAfter
  <1>. QED
    BY <1>2, <1>3

(* One board at the node changes.                                          *)
LEMMA BoardOrderly ==
    ASSUME Data, AllOrderly, NEW b, NEW d, Orderly(d),
           contract' = [contract EXCEPT ![b] = d]
    PROVE  \A c \in Boards : contract'[c] # None => Orderly(contract'[c])
  BY DEF Data, Shared, Nodes, AllOrderly

(* The node takes a request or refuses it.                                 *)
LEMMA DeliverOrderly ==
    ASSUME Data, AllOrderly, NEW p \in Terminals, Deliver(p)
    PROVE  AllOrderly'
  <1>. DEFINE r == request[p]
              t == terminal[p]
              u == [t EXCEPT !.step = "load"]
              v == IF t.command = "create" /\ Accepted(r) THEN u ELSE Idle
  <1>1. /\ r # None /\ Goes(p, v) /\ Asks(p, None) /\ UNCHANGED file
        /\ contract' = IF Accepted(r) THEN [contract EXCEPT ![r.board] = After(r)]
                       ELSE contract
    BY DEF Deliver
  <1>2. /\ RequestOK(r) /\ OrderlyRequest(r) /\ t \in Process /\ OrderlyProcess(t)
    BY <1>1 DEF Data, Memory, Requests, AllOrderly
  <1>3. \A b \in Boards : contract'[b] # None => Orderly(contract'[b])
    <2>1. CASE Accepted(r)
      BY <1>1, <1>2, <2>1, DeliveredOrderly, BoardOrderly DEF Data
    <2>2. CASE ~Accepted(r)
      BY <1>1, <2>2 DEF AllOrderly
    <2>. QED
      BY <2>1, <2>2
  <1>4. OrderlyProcess(v)
    <2>1. CASE t.command = "create" /\ Accepted(r)
      <3>1. /\ u.step = "load" /\ u.state = t.state /\ u.command = "create" /\ v = u
        BY <1>2, <2>1 DEF Process
      <3>. HIDE DEF u, v
      <3>. QED
        BY <1>2, <3>1 DEF OrderlyProcess, Writing
    <2>2. CASE ~(t.command = "create" /\ Accepted(r))
      BY <2>2, IdleOrderly
    <2>. QED
      BY <2>1, <2>2
  <1>. HIDE DEF v
  <1>5. terminal'[p] = v /\ \A q \in Terminals \ {p} : terminal'[q] = terminal[q]
    BY <1>1 DEF Goes, Data, Memory
  <1>6. request'[p] = None /\ \A q \in Terminals \ {p} : request'[q] = request[q]
    BY <1>1 DEF Asks, Data, Requests
  <1>. QED
    BY <1>1, <1>3, <1>4, <1>5, <1>6 DEF AllOrderly

(* Other people's bans are the owner's.                                    *)
LEMMA OthersOrderly ==
    ASSUME Data, AllOrderly, NEW b \in Boards, Others(b)
    PROVE  AllOrderly'
  <1>. DEFINE s == contract[b]
  <1>1. PICK d \in OthersDeltas(s, b) :
            /\ Accepts(s, d)
            /\ contract' = [contract EXCEPT ![b] = Apply(s, d)]
    BY DEF Others
  <1>2. s \in ChatBoardState /\ Orderly(s)
    BY FetchedFacts DEF Others, Fetchable, AllOrderly
  <1>3. d \in ChatBoardStateDelta
    BY <1>2, OthersType DEF Data
  <1>4. \A x \in d.bans : x.banned_by = Owner /\ x.banned_user \in s.members
    <2>. DEFINE ban(m) == [id |-> NextId, banned_by |-> Owner, banned_user |-> m]
    <2>1. d.bans = {} \/ \E m \in s.members : d = [EmptyDelta EXCEPT !.bans = {ban(m)}]
      BY <1>1, NoBans DEF OthersDeltas, EmptyDelta
    <2>. QED
      BY <2>1 DEF EmptyDelta
  <1>5. BansFromAbove(d.bans)
    BY <1>2, <1>4 DEF BansFromAbove, FromAbove, ChatBoardState
  <1>6. UNCHANGED <<file, terminal, request>>
    BY DEF Others
  <1>7. Orderly(Apply(s, d))
    BY <1>1, <1>2, <1>3, <1>5, ApplyOrderly
  <1>8. \A c \in Boards : contract'[c] # None => Orderly(contract'[c])
    BY <1>1, <1>7, BoardOrderly
  <1>. QED
    BY <1>6, <1>8 DEF AllOrderly

(* Every step leaves all boards orderly.                                   *)
LEMMA NextOrderly == Data /\ AllOrderly /\ [Next]_vars => AllOrderly'
  <1>1. ASSUME AllOrderly, UNCHANGED vars
        PROVE  AllOrderly'
    BY <1>1 DEF vars, AllOrderly
  <1>2. ASSUME Data, AllOrderly, NEW p \in Terminals, Commands(p)
        PROVE  AllOrderly'
    <2>1. PICK b \in Boards :
            \/ CreateBoard(p, b) \/ SendMessage(p, b) \/ SendReply(p, b) \/ SetNickname(p, b)
            \/ RepublishBoard(p, b) \/ UpdateConfig(p, b) \/ BanMember(p, b)
            \/ \E m \in Invited[b] : AcceptInvitation(p, b, m) \/ SendMessageWithKey(p, b, m)
      BY <1>2 DEF Commands
    <2>2. SendReply(p, b) => SendMessage(p, b)
      BY DEF SendReply
    <2>. QED
      BY <1>2, <2>1, <2>2, CreateOrderly, SendOrderly, SetNicknameOrderly, RepublishOrderly,
         UpdateConfigOrderly, BanMemberOrderly, AcceptOrderly, SendWithKeyOrderly
  <1>3. ASSUME Data, AllOrderly, NEW p \in Terminals, Steps(p)
        PROVE  AllOrderly'
    BY <1>3, ComposeMessageOrderly, ComposeNicknameOrderly, LoadOrderly, TruncateOrderly,
       FillOrderly, StopOrderly, DeliverOrderly
    DEF Steps
  <1>. QED
    BY <1>1, <1>2, <1>3, OthersOrderly DEF Next

(* Boards published with bans from above stay orderly.                     *)
LEMMA AlwaysOrderly ==
    ASSUME \A s \in Published : BansFromAbove(s.bans)
    PROVE  Spec => []AllOrderly
  <1>1. Init => AllOrderly
    <2>. SUFFICES ASSUME Init PROVE AllOrderly
      OBVIOUS
    <2>1. ASSUME NEW b \in Boards, contract[b] # None
          PROVE  Orderly(contract[b])
      BY <2>1, PublishedAssumption DEF Init, Verify, VerifyMembers, Orderly
    <2>2. file.boards = [b \in {} |-> None]
      BY DEF Init, Whole
    <2>3. OrderlyContent(file.boards)
      BY <2>2 DEF OrderlyContent
    <2>4. \A p \in Terminals : OrderlyProcess(terminal[p]) /\ request[p] = None
      BY IdleOrderly DEF Init
    <2>. QED
      BY <2>1, <2>3, <2>4 DEF AllOrderly
  <1>2. IInv /\ AllOrderly /\ [Next]_vars => AllOrderly'
    BY NextOrderly DEF IInv
  <1>. QED
    BY <1>1, <1>2, CliInvariant, PTL DEF Spec

(* What the request of a message leaves at the node.                       *)
LEMMA MessageTaken ==
    ASSUME Data, AllOrderly, NEW p \in Terminals, Taken(p, "message"),
           NEW m \in Dropped(request[p].delta.recent_messages, request[p].board)
    PROVE  \/ request[p].standing = "none"
           \/ /\ request[p].standing = "listed"
              /\ m.author \notin contract[request[p].board].members
  <1>. DEFINE r == request[p]
              s == contract[r.board]
  <1>1. /\ r # None /\ RequestOK(r) /\ OrderlyRequest(r) /\ r.command = "message"
        /\ Accepted(r)
    BY DEF Taken, Deliver, Data, Requests, AllOrderly
  <1>2. /\ r.delta # None /\ Relies(r.delta, r.standing) /\ r.board \in Boards
        /\ r.standing \in Standings
    BY <1>1 DEF OrderlyRequest, RequestOK, Request
  <1>3. /\ s \in ChatBoardState /\ Orderly(s) /\ r.delta \in ChatBoardStateDelta
        /\ Accepts(s, r.delta) /\ After(r) = Apply(s, r.delta) /\ BansFromAbove(r.delta.bans)
    BY <1>1, <1>2, NoBans DEF Accepted, After, Relies, Data, Shared, Nodes, AllOrderly
  <1>4. contract'[r.board] = Apply(s, r.delta)
    BY <1>1, <1>2, <1>3 DEF Taken, Deliver, Data, Shared, Nodes
  <1>5. m \in r.delta.recent_messages /\ Missing(m, Apply(s, r.delta))
    BY <1>4 DEF Dropped
  <1>6. m.author \notin Participants(s.members \cup r.delta.members)
    <2>. HIDE DEF s
    <2>. QED
      BY <1>3, <1>5, MessageStays
  <1>7. r.standing \in {"none", "listed"}
    BY <1>2, <1>5, <1>6 DEF Relies, Standings, Participants
  <1>. QED
    BY <1>6, <1>7 DEF Participants

(* What a board put at the node again leaves there.                        *)
LEMMA RepublishTaken ==
    ASSUME Data, AllOrderly, NEW p \in Terminals, Taken(p, "republish")
    PROVE  Dropped(request[p].state.recent_messages, request[p].board) = {}
  <1>. DEFINE r == request[p]
              s == contract[r.board]
              d == Delta(r.state, s)
  <1>1. /\ r # None /\ RequestOK(r) /\ OrderlyRequest(r) /\ r.command = "republish"
        /\ Accepted(r)
    BY DEF Taken, Deliver, Data, Requests, AllOrderly
  <1>2. /\ r.delta = None /\ r.state \in ChatBoardState /\ Orderly(r.state)
        /\ r.board \in Boards /\ PutAccepted(s, r.state)
    BY <1>1, AbsentAssumption DEF OrderlyRequest, RequestOK, Request, Accepted
  <1>3. s \in ChatBoardState \cup {None} /\ (s # None => Orderly(s))
    BY <1>2 DEF Data, Shared, Nodes, AllOrderly
  <1>4. contract'[r.board] = PutAfter(s, r.state)
    BY <1>1, <1>2 DEF Taken, Deliver, After, Data, Shared, Nodes
  <1>5. ASSUME NEW m \in r.state.recent_messages
        PROVE  ~Missing(m, PutAfter(s, r.state))
    <2>1. CASE s = None
      BY <1>5, <2>1 DEF PutAfter, Missing
    <2>2. CASE s # None /\ d = EmptyDelta
      <3>1. r.state.recent_messages \ s.recent_messages = {}
        BY <2>2 DEF Delta, EmptyDelta
      <3>. QED
        BY <1>5, <2>2, <3>1 DEF PutAfter, Merge, Missing
    <2>3. CASE s # None /\ d # EmptyDelta
      <3>1. /\ s \in ChatBoardState /\ Orderly(s) /\ d \in ChatBoardStateDelta /\ Accepts(s, d)
            /\ PutAfter(s, r.state) = Apply(s, d)
        BY <1>2, <1>3, <2>3, DeltaType DEF PutAccepted, MergeAccepts, PutAfter, Merge
      <3>2. BansFromAbove(d.bans)
        BY <1>2 DEF Delta, Orderly, BansFromAbove
      <3>3. /\ m \in s.recent_messages \cup d.recent_messages
            /\ m.author \in Participants(s.members \cup d.members)
        BY <1>2, <1>5 DEF Delta, Orderly, VerifyMessages, Participants
      <3>. HIDE DEF s, d
      <3>. QED
        BY <3>1, <3>2, <3>3, MessageStays
    <2>. QED
      BY <2>1, <2>2, <2>3
  <1>. QED
    BY <1>4, <1>5 DEF Dropped

(* Every message the node took the delta of is on the board, if it may be  *)
(* and its author was rightly taken for a member or added with it.  The     *)
(* hypothesis is needed: a ban by an admin who is not above the banned is   *)
(* dropped when the admin is banned in the update that removes somebody by  *)
(* it.                                                                     *)
THEOREM MessagesArrive ==
    ASSUME \A s \in Published : BansFromAbove(s.bans)
    PROVE  Spec => MessageArrives
  <1>. DEFINE A == \A p \in Terminals : Taken(p, "message") =>
                    LET r == request[p] IN
                    \A m \in Dropped(r.delta.recent_messages, r.board) :
                        \/ r.standing = "none"
                        \/ r.standing = "listed" /\ m.author \notin contract[r.board].members
  <1>1. IInv /\ AllOrderly /\ [Next]_vars => [A]_vars
    BY MessageTaken DEF IInv
  <1>. QED
    BY <1>1, AlwaysOrderly, CliInvariant, PTL DEF Spec, MessageArrives

(* A board that was republished has every message of the copy that may be  *)
(* on it.                                                                  *)
THEOREM RepublishingRestores ==
    ASSUME \A s \in Published : BansFromAbove(s.bans)
    PROVE  Spec => RepublishRestores
  <1>. DEFINE A == \A p \in Terminals : Taken(p, "republish") =>
                    Dropped(request[p].state.recent_messages, request[p].board) = {}
  <1>1. IInv /\ AllOrderly /\ [Next]_vars => [A]_vars
    BY RepublishTaken DEF IInv
  <1>. QED
    BY <1>1, AlwaysOrderly, CliInvariant, PTL DEF Spec, RepublishRestores
=============================================================================
