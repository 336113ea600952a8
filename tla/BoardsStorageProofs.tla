------------------------ MODULE BoardsStorageProofs ------------------------
(***************************************************************************)
(* What the delegate keeps of the web client's boards, for any boards,     *)
(* keys, numbers of tabs, saves and lost connections.                      *)
(*                                                                         *)
(* SavedUnlessBlind looks at the delegate only; why it holds is in what is *)
(* under way.  A tab that has not loaded has sent no save, so that what it *)
(* was answered is still what is stored; a tab that has holds every board  *)
(* that is stored, and each save it sent holds all of the save before.     *)
(***************************************************************************)
EXTENDS BoardsStorage, SequenceTheorems, TLAPS

Delegate == {"current", "legacy"}
GetRequest == [op : {"Get"}, from : Delegate]
StoreRequest == [op : {"Store"}, value : SomeBoards]
GetAnswer == [op : {"Get"}, from : Delegate, value : {None} \cup SomeBoards]
OtherAnswer == [op : {"NotFound", "Store"}]
Received == [from : Delegate, value : SomeBoards]
Demand == GetRequest \cup StoreRequest
Message == GetAnswer \cup OtherAnswer

(* TypeOK, with what is under way, and nothing is while no tab is open.    *)
Types ==
    /\ TypeOK
    /\ requests \in Seq(Demand)
    /\ answers \in Seq(Message)
    /\ deferred \in Seq(Received)
    /\ pending # None => pending \in [save : DOMAIN saves, migrates : BOOLEAN]
    /\ connected => open
    /\ ~open => requests = <<>> /\ answers = <<>> /\ deferred = <<>> /\ due = {}

(* What has to be stored at all times.                                     *)
Owed == kept \ left

Loading ==
    /\ \A i \in 1..Len(requests) : requests[i].op # "Store"
    /\ \A i \in 1..Len(answers) :
            answers[i].op = "Get" /\ answers[i].from = "current"
                => Owed \subseteq Present(answers[i].value)
    /\ \A i \in 1..Len(deferred) :
            deferred[i].from = "current" => Owed \subseteq Present(deferred[i].value)

Loaded ==
    /\ Owed \subseteq Present(boards)
    /\ \A i \in 1..Len(requests) : requests[i].op = "Store" =>
            /\ Owed \subseteq Present(requests[i].value)
            /\ Present(requests[i].value) \ left \subseteq Present(boards)
            /\ \A j \in (i + 1)..Len(requests) : requests[j].op = "Store" =>
                    Present(requests[i].value) \ left \subseteq Present(requests[j].value)

Secured ==
    blind \/ /\ Owed \subseteq Present(current)
             /\ IF loaded = "yes" THEN Loaded ELSE Loading

IInv == Types /\ Secured

---------------------------------------------------------------------------
(* Types.                                                                  *)

Outcomes == {"waiting", "Ok", "Err"}

(* What saves returned, as a sequence.                                     *)
LEMMA SavesFacts ==
    ASSUME TypeOK
    PROVE  /\ saves \in Seq(Outcomes) /\ Len(saves) \in 0..MaxSaves
           /\ DOMAIN saves = 1..Len(saves)
  <1>1. PICK n \in 0..MaxSaves : saves \in [1..n -> Outcomes]
    BY DEF TypeOK, Outcomes
  <1>. QED
    BY <1>1, BoundsAssumption, LenProperties, SeqDef

LEMMA SavesType ==
    ASSUME NEW s \in Seq(Outcomes), Len(s) \in 0..MaxSaves
    PROVE  s \in UNION {[1..n -> {"waiting", "Ok", "Err"}] : n \in 0..MaxSaves}
  BY LenProperties DEF Outcomes

LEMMA CancelledFacts ==
    ASSUME TypeOK
    PROVE  /\ Cancelled(saves) \in Seq(Outcomes) /\ Len(Cancelled(saves)) = Len(saves)
           /\ \A i \in 1..Len(saves) : Cancelled(saves)[i] # "waiting"
  <1>. DEFINE e(i) == IF saves[i] = "waiting" THEN "Err" ELSE saves[i]
  <1>1. /\ saves \in Seq(Outcomes) /\ Len(saves) \in Nat
        /\ DOMAIN saves = 1..Len(saves) /\ \A i \in 1..Len(saves) : saves[i] \in Outcomes
    BY SavesFacts, LenProperties, BoundsAssumption
  <1>2. Cancelled(saves) = [i \in 1..Len(saves) |-> e(i)]
    BY <1>1 DEF Cancelled
  <1>3. Cancelled(saves) \in [1..Len(saves) -> Outcomes]
    BY <1>1, <1>2 DEF Outcomes
  <1>4. Cancelled(saves) \in Seq(Outcomes)
    BY <1>1, <1>3, SeqDef
  <1>. QED
    BY <1>1, <1>2, <1>3, <1>4, LenProperties

(* complete_pending_request.                                               *)
LEMMA CompleteFacts ==
    ASSUME Types, NEW result \in {"Ok", "Err"}, Complete(result)
    PROVE  /\ saves' \in UNION {[1..n -> {"waiting", "Ok", "Err"}] : n \in 0..MaxSaves}
           /\ pending' = None
  <1>1. CASE pending = None
    BY <1>1 DEF Complete, Types, TypeOK
  <1>2. CASE pending # None
    <2>1. pending.save \in 1..Len(saves) /\ saves' = [saves EXCEPT ![pending.save] = result]
      BY <1>2, SavesFacts DEF Complete, Types
    <2>2. saves' \in Seq(Outcomes) /\ Len(saves') = Len(saves)
      BY <2>1, SavesFacts, ExceptSeq DEF Types, Outcomes
    <2>. QED
      BY <2>2, SavesFacts, SavesType DEF Complete, Types
  <1>. QED
    BY <1>1, <1>2

LEMMA PresentFacts ==
    /\ \A v \in SomeBoards : Present(v) = {b \in Boards : v[b] # None}
    /\ Present(None) = {} /\ Present(NotInstalled) = {}
    /\ NoBoards \in SomeBoards /\ Present(NoBoards) = {}
  BY AbsentAssumption DEF Present, SomeBoards, NoBoards

LEMMA InitTypes == Init => Types
  <1>. SUFFICES ASSUME Init
                PROVE  Types
    OBVIOUS
  <1>1. saves \in UNION {[1..n -> {"waiting", "Ok", "Err"}] : n \in 0..MaxSaves}
    BY BoundsAssumption, SavesType, EmptySeq DEF Init
  <1>2. /\ tabs \in 0..MaxTabs /\ losses \in 0..MaxLosses
        /\ kept \cup left \subseteq Boards
    BY BoundsAssumption DEF Init, Present
  <1>. QED
    BY <1>1, <1>2, PresentFacts, EmptySeq DEF Init, Types, TypeOK

(* The head of a queue, and what is left of it.                            *)
LEMMA Dequeued ==
    ASSUME NEW S, NEW q \in Seq(S), q # <<>>
    PROVE  /\ Head(q) \in S /\ Tail(q) \in Seq(S) /\ Len(q) \in Nat \ {0}
           /\ Head(q) = q[1] /\ Len(Tail(q)) = Len(q) - 1
           /\ \A i \in 1..Len(Tail(q)) : Tail(q)[i] = q[i + 1]
  BY HeadTailProperties, EmptySeq

LEMMA TabTypes ==
    ASSUME Types, OpenTab \/ Connect \/ Disconnect \/ CloseTab
    PROVE  Types'
  <1>. USE DEF Types, TypeOK
  <1>1. CASE OpenTab
    <2>1. tabs' \in 0..MaxTabs
      BY <1>1, BoundsAssumption DEF OpenTab
    <2>. QED
      BY <1>1, <2>1, PresentFacts DEF OpenTab, delegates, channel, calls
  <1>2. CASE Connect
    <2>1. Get("current") \in Demand /\ Get("legacy") \in Demand
      BY DEF Get, Demand, GetRequest, Delegate
    <2>2. <<Get("current")>> \in Seq(Demand) /\ <<Get("current"), Get("legacy")>> \in Seq(Demand)
      BY <2>1
    <2>3. requests' \in Seq(Demand)
      BY <1>2, <2>2 DEF Connect
    <2>4. open /\ attempted' \in BOOLEAN
      BY <1>2 DEF Connect
    <2>. QED
      BY <1>2, <2>3, <2>4 DEF Connect, delegates, calls
  <1>3. CASE Disconnect
    <2>1. answers' \in Seq(Message)
      BY <1>3, SubSeqProperties, LenProperties, ElementOfSeq DEF Disconnect, Message
    <2>2. losses' \in 0..MaxLosses
      BY <1>3, BoundsAssumption DEF Disconnect
    <2>. QED
      BY <1>3, <2>1, <2>2, EmptySeq DEF Disconnect, Message, delegates, calls
  <1>4. CASE CloseTab
    <2>1. saves' \in UNION {[1..n -> {"waiting", "Ok", "Err"}] : n \in 0..MaxSaves}
      BY <1>4, CancelledFacts, SavesFacts, SavesType DEF CloseTab
    <2>. QED
      BY <1>4, <2>1, EmptySeq DEF CloseTab, delegates
  <1>. QED
    BY <1>1, <1>2, <1>3, <1>4

LEMMA UserTypes ==
    ASSUME Types, NEW b \in Boards, NEW k \in Keys,
           Leave(b) \/ Join(b, k) \/ Rekey(b, k) \/ Touch
    PROVE  Types'
  <1>1. open /\ left' \subseteq Boards /\ due' \subseteq {"save", "migration"}
    BY DEF Types, TypeOK, Leave, Join, Rekey, Touch
  <1>2. boards' \in SomeBoards
    BY DEF Types, TypeOK, Leave, Join, Rekey, Touch, SomeBoards
  <1>3. UNCHANGED <<delegates, migrationDone, tab, channel, loaded, deferred, calls, blind>>
    BY DEF Leave, Join, Rekey, Touch
  <1>. QED
    BY <1>1, <1>2, <1>3 DEF Types, TypeOK, delegates, tab, channel, calls

LEMMA SaveTypes ==
    ASSUME Types, NEW kind \in {"save", "migration"}, Save(kind)
    PROVE  Types'
  <1>. DEFINE id == Len(saves) + 1
  <1>. DEFINE x == IF connected THEN "waiting" ELSE "Err"
  <1>1. saves' = Append(Cancelled(saves), x)
    BY DEF Save
  <1>2. /\ Cancelled(saves) \in Seq(Outcomes) /\ Len(Cancelled(saves)) = Len(saves)
        /\ Len(saves) \in Nat /\ id <= MaxSaves /\ MaxSaves \in Nat
    BY CancelledFacts, SavesFacts, BoundsAssumption DEF Save, Types
  <1>3. saves' \in Seq(Outcomes) /\ Len(saves') = id /\ saves'[id] = x
    <2>. DEFINE s == Cancelled(saves)
    <2>1. s \in Seq(Outcomes) /\ Len(s) = Len(saves) /\ x \in Outcomes
      BY <1>2 DEF Outcomes
    <2>2. /\ Append(s, x) \in Seq(Outcomes) /\ Len(Append(s, x)) = Len(s) + 1
          /\ Append(s, x)[Len(s) + 1] = x
      BY <2>1, AppendProperties
    <2>. QED
      BY <1>1, <2>1, <2>2
  <1>4. saves' \in UNION {[1..n -> {"waiting", "Ok", "Err"}] : n \in 0..MaxSaves}
    BY <1>2, <1>3, SavesType
  <1>5. DOMAIN saves' = 1..id /\ id \in 1..id
    BY <1>2, <1>3, LenProperties
  <1>6. CASE connected
    <2>1. pending' = [save |-> id, migrates |-> kind = "migration"]
      BY <1>6 DEF Save
    <2>2. pending' \in [save : DOMAIN saves', migrates : BOOLEAN] /\ pending'.save = id
      BY <1>5, <2>1
    <2>3. requests' = Append(requests, Store(boards))
      BY <1>6 DEF Save
    <2>4. Store(boards) \in Demand
      BY DEF Store, Demand, StoreRequest, Types, TypeOK
    <2>5. requests' \in Seq(Demand)
      BY <2>3, <2>4, AppendProperties DEF Demand, Types
    <2>6. blind' \in BOOLEAN
      BY DEF Save, Types, TypeOK
    <2>. QED
      BY <1>1, <1>3, <1>4, <1>6, <2>2, <2>5, <2>6
      DEF Types, TypeOK, Save, Demand, delegates, tab
  <1>7. CASE ~connected
    <2>1. pending' = None /\ requests' = requests /\ blind' = blind
      BY <1>7 DEF Save, Types, TypeOK
    <2>. QED
      BY <1>4, <1>7, <2>1 DEF Types, TypeOK, Save, delegates, tab
  <1>. QED
    BY <1>6, <1>7

LEMMA TimeoutTypes ==
    ASSUME Types, Timeout
    PROVE  Types'
  <1>1. saves' \in UNION {[1..n -> {"waiting", "Ok", "Err"}] : n \in 0..MaxSaves}
    BY CancelledFacts, SavesFacts, SavesType DEF Timeout, Types
  <1>. QED
    BY <1>1 DEF Types, TypeOK, Timeout, delegates, tab, channel

LEMMA MergeTypes ==
    ASSUME Types, MergeBoards
    PROVE  Types'
  <1>1. Head(deferred) \in Received /\ deferred' \in Seq(Received) /\ open
    BY Dequeued DEF MergeBoards, Types
  <1>2. boards' \in SomeBoards
    BY <1>1 DEF MergeBoards, Merged, Received, SomeBoards, Types, TypeOK
  <1>3. loaded' \in {"no", "yes", "partly"}
    BY DEF MergeBoards, Types, TypeOK
  <1>. QED
    BY <1>1, <1>2, <1>3 DEF MergeBoards, Types, TypeOK, delegates, tab, channel, calls

LEMMA NodeTypes ==
    ASSUME Types, AnswerGet \/ AnswerStore \/ RefuseStore
    PROVE  Types'
  <1>1. /\ requests # <<>> /\ open /\ Head(requests) \in Demand
        /\ requests' = Tail(requests) /\ requests' \in Seq(Demand)
    <2>1. requests # <<>> /\ requests' = Tail(requests)
      BY DEF AnswerGet, AnswerStore, RefuseStore
    <2>. QED
      BY <2>1, Dequeued DEF Types
  <1>2. CASE AnswerGet
    <2>1. PICK a : /\ answers' = Append(answers, a)
                   /\ a = IF Value(Head(requests).from) = NotInstalled
                          THEN [op |-> "NotFound"]
                          ELSE [op |-> "Get", from |-> Head(requests).from,
                                value |-> Value(Head(requests).from)]
      BY <1>2 DEF AnswerGet
    <2>2. Head(requests).from \in Delegate
      BY <1>1, <1>2 DEF AnswerGet, Demand, GetRequest, StoreRequest
    <2>3. Value(Head(requests).from) \in {None, NotInstalled} \cup SomeBoards
      BY <2>2, LegacyAssumption DEF Value, Types, TypeOK, SomeBoards
    <2>4. a \in Message
      BY <2>1, <2>2, <2>3 DEF Message, GetAnswer, OtherAnswer
    <2>5. answers' \in Seq(Message)
      BY <2>1, <2>4, AppendProperties DEF Types, Message
    <2>. QED
      BY <1>1, <1>2, <2>5
      DEF AnswerGet, Types, TypeOK, Message, Demand, delegates, tab, calls
  <1>3. CASE AnswerStore
    <2>1. Head(requests).value \in SomeBoards
      BY <1>1, <1>3 DEF AnswerStore, Demand, GetRequest, StoreRequest
    <2>2. answers' \in Seq(Message)
      BY <1>3, AppendProperties DEF AnswerStore, Types, Message, OtherAnswer
    <2>3. kept' \cup left \subseteq Boards
      BY <1>3 DEF AnswerStore, Present, Types, TypeOK
    <2>. QED
      BY <1>1, <1>3, <2>1, <2>2, <2>3
      DEF AnswerStore, Types, TypeOK, Message, Demand, tab, calls
  <1>4. CASE RefuseStore
    BY <1>1, <1>4 DEF RefuseStore, Types, TypeOK, Demand, delegates, tab, calls
  <1>. QED
    BY <1>2, <1>3, <1>4

LEMMA HandleTypes ==
    ASSUME Types, Handle
    PROVE  Types'
  <1>1. /\ answers # <<>> /\ open /\ Head(answers) \in Message
        /\ answers' = Tail(answers) /\ answers' \in Seq(Message)
    <2>1. answers # <<>> /\ answers' = Tail(answers)
      BY DEF Handle, ReceiveBoards, ReceiveNoBoards, ReceiveNotFound, ReceiveStored
    <2>. QED
      BY <2>1, Dequeued DEF Types
  <1>2. CASE ReceiveBoards
    <2>1. [from |-> Head(answers).from, value |-> Head(answers).value] \in Received
      BY <1>1, <1>2 DEF ReceiveBoards, Message, GetAnswer, OtherAnswer, Received
    <2>2. deferred' \in Seq(Received)
      BY <1>2, <2>1, AppendProperties DEF ReceiveBoards, Types
    <2>3. migrationDone' \in BOOLEAN /\ due' \subseteq {"save", "migration"}
      BY <1>2 DEF ReceiveBoards, Types, TypeOK
    <2>. QED
      BY <1>1, <1>2, <2>2, <2>3, CompleteFacts
      DEF ReceiveBoards, Types, TypeOK, Message, delegates, tab
  <1>3. CASE ReceiveNoBoards
    <2>1. loaded' \in {"no", "yes", "partly"}
      BY <1>3 DEF ReceiveNoBoards, Types, TypeOK
    <2>. QED
      BY <1>1, <1>3, <2>1, CompleteFacts
      DEF ReceiveNoBoards, Types, TypeOK, Message, delegates, tab
  <1>4. CASE ReceiveNotFound
    BY <1>1, <1>4 DEF ReceiveNotFound, Types, TypeOK, Message, delegates, tab, calls
  <1>5. CASE ReceiveStored
    <2>1. migrationDone' \in BOOLEAN
      BY <1>5 DEF ReceiveStored, Types, TypeOK
    <2>. QED
      BY <1>1, <1>5, <2>1, CompleteFacts
      DEF ReceiveStored, Types, TypeOK, Message, delegates, tab
  <1>. QED
    BY <1>2, <1>3, <1>4, <1>5 DEF Handle

LEMMA NextTypes ==
    ASSUME Types, [Next]_vars
    PROVE  Types'
  <1>1. CASE UNCHANGED vars
    BY <1>1 DEF vars, delegates, tab, channel, calls, Types, TypeOK
  <1>2. ASSUME NEW b \in Boards, Leave(b)
        PROVE  Types'
    <2>1. PICK k : k = boards[b]
      OBVIOUS
    <2>2. k \in Keys
      BY <1>2, <2>1 DEF Leave, Types, TypeOK, SomeBoards
    <2>. QED
      BY <1>2, <2>2, UserTypes
  <1>3. CASE Touch
    <2>1. PICK b \in Boards : boards[b] # None
      BY <1>3 DEF Touch, NoBoards, Types, TypeOK, SomeBoards
    <2>2. boards[b] \in Keys
      BY <2>1 DEF Types, TypeOK, SomeBoards
    <2>. QED
      BY <1>3, <2>1, <2>2, UserTypes
  <1>. QED
    BY <1>1, <1>2, <1>3, TabTypes, UserTypes, SaveTypes, TimeoutTypes, MergeTypes, NodeTypes,
       HandleTypes DEF Next, Node

---------------------------------------------------------------------------
(* What is stored.                                                         *)

LEMMA InitSecured == Init => Secured
  BY PresentFacts DEF Init, Secured, Owed, Loaded, Loading

(* While what is secured does not change, queues may lose what they hold.  *)
LEMMA FewerUnderWay ==
    ASSUME IInv, UNCHANGED <<current, kept, left, blind, boards, loaded>>,
           \A i \in 1..Len(requests)' : requests'[i].op # "Store",
           \A i \in 1..Len(answers)' : i \in 1..Len(answers) /\ answers'[i] = answers[i],
           \A i \in 1..Len(deferred)' : i \in 1..Len(deferred) /\ deferred'[i] = deferred[i]
    PROVE  Secured'
  <1>1. Owed' = Owed
    BY DEF Owed
  <1>2. loaded = "yes" /\ Loaded => Loaded'
    BY <1>1 DEF Loaded
  <1>3. Loading => Loading'
    BY <1>1 DEF Loading
  <1>. QED
    BY <1>1, <1>2, <1>3 DEF IInv, Secured

LEMMA TabSecured ==
    ASSUME IInv, OpenTab \/ Connect \/ Disconnect \/ CloseTab
    PROVE  Secured'
  <1>1. CASE OpenTab
    <2>1. requests' = <<>> /\ answers' = <<>> /\ deferred' = <<>> /\ loaded' = "no"
      BY <1>1 DEF OpenTab, IInv, Types, channel
    <2>2. Loading'
      BY <2>1, EmptySeq DEF Loading
    <2>. QED
      BY <1>1, <2>1, <2>2 DEF OpenTab, IInv, Secured, Owed, delegates
  <1>2. CASE Connect
    <2>1. \A i \in 1..Len(requests') : requests'[i].op = "Get"
      BY <1>2 DEF Connect, Get
    <2>. QED
      BY <1>2, <2>1, FewerUnderWay DEF Connect, delegates
  <1>3. CASE Disconnect
    <2>1. answers \in Seq(Message)
      BY DEF IInv, Types
    <2>2. PICK n \in 0..Len(answers) : answers' = SubSeq(answers, 1, n)
      BY <1>3 DEF Disconnect
    <2>3. \A i \in 1..Len(answers') : i \in 1..Len(answers) /\ answers'[i] = answers[i]
      BY <2>1, <2>2, SubSeqProperties, LenProperties
    <2>4. requests' = <<>> /\ UNCHANGED <<current, kept, left, blind, boards, loaded, deferred>>
      BY <1>3 DEF Disconnect, delegates
    <2>. QED
      BY <2>3, <2>4, FewerUnderWay
  <1>4. CASE CloseTab
    BY <1>4, FewerUnderWay DEF CloseTab, delegates
  <1>. QED
    BY <1>1, <1>2, <1>3, <1>4

(* What the user does to the boards in memory, and what is owed after it.  *)
LEMMA UserSecured ==
    ASSUME IInv, NEW b \in Boards, NEW k \in Keys,
           Leave(b) \/ Join(b, k) \/ Rekey(b, k) \/ Touch
    PROVE  Secured'
  <1>1. /\ UNCHANGED <<current, kept, loaded, blind, requests, answers, deferred>>
        /\ left \subseteq left'
    BY DEF Leave, Join, Rekey, Touch, delegates, channel
  <1>2. Present(boards) \ left' \subseteq Present(boards)'
    <2>1. boards \in SomeBoards
      BY DEF IInv, Types, TypeOK
    <2>2. CASE Leave(b)
      <3>1. boards' = [boards EXCEPT ![b] = None] /\ b \in left'
        BY <2>2 DEF Leave
      <3>2. boards' \in SomeBoards
        BY <2>1, <3>1 DEF SomeBoards
      <3>3. \A c \in Boards : boards'[c] = IF c = b THEN None ELSE boards[c]
        BY <2>1, <3>1 DEF SomeBoards
      <3>4. /\ Present(boards) = {c \in Boards : boards[c] # None}
            /\ Present(boards)' = {c \in Boards : boards'[c] # None}
        BY <2>1, <3>2, PresentFacts
      <3>. QED
        BY <3>1, <3>3, <3>4
    <2>3. CASE Join(b, k) \/ Rekey(b, k)
      <3>1. boards' = [boards EXCEPT ![b] = k] /\ k # None
        BY <2>3, NoneAssumption DEF Join, Rekey
      <3>2. boards' \in SomeBoards
        BY <2>1, <3>1 DEF SomeBoards
      <3>3. \A c \in Boards : boards'[c] = IF c = b THEN k ELSE boards[c]
        BY <2>1, <3>1 DEF SomeBoards
      <3>4. /\ Present(boards) = {c \in Boards : boards[c] # None}
            /\ Present(boards)' = {c \in Boards : boards'[c] # None}
        BY <2>1, <3>2, PresentFacts
      <3>. QED
        BY <3>1, <3>3, <3>4
    <2>4. CASE Touch
      BY <2>4 DEF Touch
    <2>. QED
      BY <2>2, <2>3, <2>4
  <1>3. Owed' \subseteq Owed /\ Owed' \cap left' = {}
    BY <1>1 DEF Owed
  <1>4. Loading => Loading'
    BY <1>1, <1>3 DEF Loading
  <1>5. Loaded => Loaded'
    BY <1>1, <1>2, <1>3 DEF Loaded
  <1>. QED
    BY <1>1, <1>3, <1>4, <1>5 DEF IInv, Secured

LEMMA SaveSecured ==
    ASSUME IInv, NEW kind, Save(kind)
    PROVE  Secured'
  <1>. SUFFICES ASSUME ~blind'
                PROVE  Secured'
    BY DEF Secured
  <1>1. /\ ~blind /\ (connected => loaded = "yes")
        /\ UNCHANGED <<current, kept, left, boards, loaded, answers, deferred>>
    BY DEF Save, delegates
  <1>2. Owed' = Owed
    BY <1>1 DEF Owed
  <1>3. CASE ~connected
    <2>1. UNCHANGED requests
      BY <1>3 DEF Save
    <2>. QED
      BY <1>1, <1>2, <2>1 DEF IInv, Secured, Loading, Loaded
  <1>4. CASE connected
    <2>1. requests \in Seq(Demand) /\ boards \in SomeBoards /\ Loaded /\ loaded' = "yes"
      BY <1>1, <1>4 DEF IInv, Types, TypeOK, Secured
    <2>2. requests' = Append(requests, Store(boards)) /\ Store(boards) \in Demand
      BY <1>4, <2>1 DEF Save, Store, Demand, StoreRequest
    <2>3. /\ Len(requests) \in Nat /\ Len(requests') = Len(requests) + 1
          /\ \A i \in 1..Len(requests) : requests'[i] = requests[i]
          /\ requests'[Len(requests) + 1] = Store(boards)
      BY <2>1, <2>2, AppendProperties, LenProperties
    <2>4. Store(boards).value = boards
      BY DEF Store
    <2>5. Loaded'
      BY <1>1, <1>2, <2>1, <2>3, <2>4 DEF Loaded
    <2>. QED
      BY <1>1, <1>2, <2>1, <2>5 DEF IInv, Secured
  <1>. QED
    BY <1>3, <1>4

LEMMA TimeoutSecured ==
    ASSUME IInv, Timeout \/ UNCHANGED vars
    PROVE  Secured'
  <1>1. UNCHANGED <<current, kept, left, boards, loaded, answers, deferred, requests, blind>>
    BY DEF Timeout, vars, delegates, channel
  <1>. QED
    BY <1>1 DEF IInv, Secured, Owed, Loading, Loaded

(* Merging takes no board out; unless it is ended it takes in all it is given. *)
LEMMA MergeSecured ==
    ASSUME IInv, MergeBoards
    PROVE  Secured'
  <1>. DEFINE v == Head(deferred).value
              clashes == {b \in Present(v) : boards[b] \notin {None, v[b]}}
              shared == {b \in Present(v) : boards[b] = v[b]}
  <1>1. /\ UNCHANGED <<current, kept, left, blind, requests, answers>>
        /\ deferred # <<>> /\ deferred' = Tail(deferred)
    BY DEF MergeBoards, delegates, channel
  <1>2. PICK refused \in SUBSET shared, looked \in SUBSET Present(v) :
            /\ clashes \cup refused = {} => looked = Present(v)
            /\ boards' = Merged(v, looked)
            /\ loaded' = IF Head(deferred).from # "current" \/ loaded = "yes" THEN loaded
                         ELSE IF clashes \cup refused = {} THEN "yes" ELSE "partly"
    BY DEF MergeBoards
  <1>3. /\ deferred \in Seq(Received) /\ boards \in SomeBoards
    BY DEF IInv, Types, TypeOK
  <1>4. /\ Head(deferred) \in Received /\ Head(deferred) = deferred[1] /\ Len(deferred) \in Nat \ {0}
        /\ \A i \in 1..Len(deferred') : i + 1 \in 1..Len(deferred) /\ deferred'[i] = deferred[i + 1]
    <2>1. Len(deferred') = Len(deferred) - 1
      BY <1>1, <1>3, Dequeued
    <2>. QED
      BY <1>1, <1>3, <2>1, Dequeued
  <1>5. v \in SomeBoards
    BY <1>4 DEF Received
  <1>6. boards' = [b \in Boards |-> IF boards[b] = None /\ b \in looked THEN v[b] ELSE boards[b]]
    BY <1>2 DEF Merged
  <1>7. boards' \in SomeBoards
    BY <1>3, <1>5, <1>6 DEF SomeBoards
  <1>8. Present(boards) \cup looked \subseteq Present(boards)'
    BY <1>2, <1>3, <1>5, <1>6, <1>7, PresentFacts
  <1>9. Owed' = Owed
    BY <1>1 DEF Owed
  <1>10. CASE loaded = "yes"
    <2>1. Loaded => Loaded'
      BY <1>1, <1>8, <1>9 DEF Loaded
    <2>. QED
      BY <1>1, <1>2, <1>9, <1>10, <2>1 DEF IInv, Secured
  <1>11. CASE loaded # "yes" /\ loaded' = "yes"
    <2>1. Head(deferred).from = "current" /\ looked = Present(v)
      BY <1>1, <1>2, <1>11
    <2>2. Loading => Loaded'
      BY <1>1, <1>4, <1>8, <1>9, <2>1 DEF Loaded, Loading
    <2>. QED
      BY <1>1, <1>9, <1>11, <2>2 DEF IInv, Secured
  <1>12. CASE loaded # "yes" /\ loaded' # "yes"
    <2>1. Loading => Loading'
      BY <1>1, <1>4, <1>9 DEF Loading
    <2>. QED
      BY <1>1, <1>9, <1>12, <2>1 DEF IInv, Secured
  <1>. QED
    BY <1>10, <1>11, <1>12

LEMMA NodeSecured ==
    ASSUME IInv, AnswerGet \/ AnswerStore \/ RefuseStore
    PROVE  Secured'
  <1>. DEFINE r == Head(requests)
  <1>1. /\ UNCHANGED <<left, blind, boards, loaded, deferred>>
        /\ requests # <<>> /\ requests' = Tail(requests)
    BY DEF AnswerGet, AnswerStore, RefuseStore, delegates
  <1>2. requests \in Seq(Demand) /\ answers \in Seq(Message)
    BY DEF IInv, Types
  <1>3. /\ r \in Demand /\ r = requests[1] /\ Len(requests) \in Nat \ {0}
        /\ \A i \in 1..Len(requests') : i + 1 \in 1..Len(requests) /\ requests'[i] = requests[i + 1]
        /\ Len(requests') = Len(requests) - 1
    <2>1. Len(requests') = Len(requests) - 1
      BY <1>1, <1>2, Dequeued
    <2>. QED
      BY <1>1, <1>2, <2>1, Dequeued
  <1>4. CASE AnswerGet
    <2>1. UNCHANGED <<current, kept>> /\ Owed' = Owed
      BY <1>1, <1>4 DEF AnswerGet, delegates, Owed
    <2>2. PICK a : /\ answers' = Append(answers, a)
                   /\ a = IF Value(r.from) = NotInstalled THEN [op |-> "NotFound"]
                          ELSE [op |-> "Get", from |-> r.from, value |-> Value(r.from)]
      BY <1>4 DEF AnswerGet
    <2>3. a.op = "Get" /\ a.from = "current" => a.value = current
      BY <2>2 DEF Value
    <2>4. a \in Message
      <3>1. answers' \in Seq(Message) /\ answers' = Append(answers, a)
        BY <2>2, NodeTypes DEF IInv, Types
      <3>2. Len(answers') = Len(answers) + 1 /\ answers'[Len(answers) + 1] = a /\ Len(answers) \in Nat
        BY <1>2, <3>1, AppendProperties, LenProperties
      <3>. QED
        BY <3>1, <3>2, ElementOfSeq
    <2>5. /\ Len(answers) \in Nat /\ Len(answers') = Len(answers) + 1
          /\ \A i \in 1..Len(answers) : answers'[i] = answers[i]
          /\ answers'[Len(answers) + 1] = a
      BY <1>2, <2>2, <2>4, AppendProperties, LenProperties
    <2>6. Loading /\ Owed \subseteq Present(current) => Loading'
      BY <1>1, <1>3, <2>1, <2>3, <2>5 DEF Loading
    <2>7. Loaded => Loaded'
      BY <1>1, <1>3, <2>1 DEF Loaded
    <2>. QED
      BY <1>1, <2>1, <2>6, <2>7 DEF IInv, Secured
  <1>5. CASE AnswerStore
    <2>1. r.op = "Store" /\ current' = r.value /\ kept' = kept \cup Present(r.value)
      BY <1>5 DEF AnswerStore
    <2>2. Loading => FALSE
      BY <1>3, <2>1 DEF Loading
    <2>3. Owed' = Owed \cup (Present(r.value) \ left)
      BY <1>1, <2>1 DEF Owed
    <2>4. Loaded => Owed' \subseteq Present(current')
      BY <1>3, <2>1, <2>3 DEF Loaded
    <2>5. Loaded => Loaded'
      <3>. SUFFICES ASSUME Loaded
                    PROVE  Loaded'
        OBVIOUS
      <3>1. Present(r.value) \ left \subseteq Present(boards)
        BY <1>3, <2>1 DEF Loaded
      <3>2. \A i \in 2..Len(requests) : requests[i].op = "Store" =>
                Present(r.value) \ left \subseteq Present(requests[i].value)
        BY <1>3, <2>1 DEF Loaded
      <3>3. \A i \in 1..Len(requests') : i + 1 \in 2..Len(requests)
        BY <1>3
      <3>. QED
        BY <1>1, <1>3, <2>3, <3>1, <3>2, <3>3 DEF Loaded
    <2>. QED
      BY <1>1, <2>2, <2>4, <2>5 DEF IInv, Secured
  <1>6. CASE RefuseStore
    <2>1. UNCHANGED <<current, kept, answers>> /\ Owed' = Owed
      BY <1>1, <1>6 DEF RefuseStore, delegates, Owed
    <2>2. Loading => Loading'
      BY <1>1, <1>3, <2>1 DEF Loading
    <2>3. Loaded => Loaded'
      BY <1>1, <1>3, <2>1 DEF Loaded
    <2>. QED
      BY <1>1, <2>1, <2>2, <2>3 DEF IInv, Secured
  <1>. QED
    BY <1>4, <1>5, <1>6

LEMMA HandleSecured ==
    ASSUME IInv, Handle
    PROVE  Secured'
  <1>1. /\ UNCHANGED <<current, kept, left, blind, boards, requests>>
        /\ answers # <<>> /\ answers' = Tail(answers) /\ answers \in Seq(Message)
        /\ Owed' = Owed
    BY DEF Handle, ReceiveBoards, ReceiveNoBoards, ReceiveNotFound, ReceiveStored, delegates,
           IInv, Types, Owed
  <1>2. /\ Head(answers) = answers[1] /\ Len(answers) \in Nat \ {0}
        /\ \A i \in 1..Len(answers') : i + 1 \in 1..Len(answers) /\ answers'[i] = answers[i + 1]
    <2>1. Len(answers') = Len(answers) - 1
      BY <1>1, Dequeued
    <2>. QED
      BY <1>1, <2>1, Dequeued
  <1>3. Loaded => Loaded'
    BY <1>1 DEF Loaded
  <1>4. CASE ReceiveNotFound \/ ReceiveStored
    <2>1. UNCHANGED <<loaded, deferred>>
      BY <1>4 DEF ReceiveNotFound, ReceiveStored
    <2>2. Loading => Loading'
      BY <1>1, <1>2, <2>1 DEF Loading
    <2>. QED
      BY <1>1, <1>3, <2>1, <2>2 DEF IInv, Secured
  <1>5. CASE ReceiveNoBoards
    <2>. DEFINE a == Head(answers)
    <2>1. /\ a.op = "Get" /\ a.value = None /\ UNCHANGED deferred
          /\ loaded' = IF a.from = "current" THEN "yes" ELSE loaded
      BY <1>5 DEF ReceiveNoBoards
    <2>2. Loading => Loading'
      BY <1>1, <1>2, <2>1 DEF Loading
    <2>3. Loading /\ a.from = "current" => Loaded'
      <3>. SUFFICES ASSUME Loading, a.from = "current"
                    PROVE  Loaded'
        OBVIOUS
      <3>1. Owed = {}
        BY <1>2, <2>1, PresentFacts DEF Loading
      <3>. QED
        BY <1>1, <3>1 DEF Loading, Loaded
    <2>. QED
      BY <1>1, <1>3, <2>1, <2>2, <2>3 DEF IInv, Secured
  <1>6. CASE ReceiveBoards
    <2>. DEFINE a == Head(answers)
                d == [from |-> a.from, value |-> a.value]
    <2>1. a.op = "Get" /\ UNCHANGED loaded /\ deferred' = Append(deferred, d) /\ a.value # None
      BY <1>6 DEF ReceiveBoards
    <2>2. deferred \in Seq(Received) /\ d \in Received
      <3>1. a \in Message
        BY <1>1, Dequeued
      <3>. QED
        BY <2>1, <3>1 DEF IInv, Types, Message, GetAnswer, OtherAnswer, Received
    <2>3. /\ Len(deferred) \in Nat /\ Len(deferred') = Len(deferred) + 1
          /\ \A i \in 1..Len(deferred) : deferred'[i] = deferred[i]
          /\ deferred'[Len(deferred) + 1] = d
      BY <2>1, <2>2, AppendProperties, LenProperties
    <2>4. Loading => (d.from = "current" => Owed \subseteq Present(d.value))
      BY <1>2, <2>1 DEF Loading
    <2>. HIDE DEF d
    <2>5. Loading => \A i \in 1..Len(deferred') :
              deferred'[i].from = "current" => Owed \subseteq Present(deferred'[i].value)
      BY <2>3, <2>4 DEF Loading
    <2>6. Loading => Loading'
      BY <1>1, <1>2, <2>5 DEF Loading
    <2>. QED
      BY <1>1, <1>3, <2>1, <2>6 DEF IInv, Secured
  <1>. QED
    BY <1>4, <1>5, <1>6 DEF Handle

LEMMA NextSecured ==
    ASSUME IInv, [Next]_vars
    PROVE  Secured'
  <1>1. ASSUME NEW b \in Boards, Leave(b)
        PROVE  Secured'
    <2>1. boards[b] \in Keys
      BY <1>1 DEF Leave, IInv, Types, TypeOK, SomeBoards
    <2>. QED
      BY <1>1, <2>1, UserSecured
  <1>2. CASE Touch
    <2>1. PICK b \in Boards : boards[b] # None
      BY <1>2 DEF Touch, NoBoards, IInv, Types, TypeOK, SomeBoards
    <2>2. boards[b] \in Keys
      BY <2>1 DEF IInv, Types, TypeOK, SomeBoards
    <2>. QED
      BY <1>2, <2>1, <2>2, UserSecured
  <1>. QED
    BY <1>1, <1>2, TabSecured, UserSecured, SaveSecured, TimeoutSecured, MergeSecured,
       NodeSecured, HandleSecured DEF Next, Node

(* Whatever is stored, asked or answered, the tab and the delegate keep     *)
(* their shapes, and a registered sender is that of a save that waits.      *)
THEOREM StorageTypes == Spec => []TypeOK
  <1>1. Types /\ [Next]_vars => Types'
    BY NextTypes
  <1>2. Types => TypeOK
    BY DEF Types
  <1>. QED
    BY InitTypes, <1>1, <1>2, PTL DEF Spec

(* A board that was stored and not left is stored for ever, whatever is     *)
(* lost, late, refused or closed, and in whatever order answers, merges and *)
(* saves run, unless a tab saved before its boards were all loaded.         *)
THEOREM BoardsStaySaved == Spec => []SavedUnlessBlind
  <1>1. Init => IInv
    BY InitTypes, InitSecured DEF IInv
  <1>2. IInv /\ [Next]_vars => IInv'
    BY NextTypes, NextSecured DEF IInv
  <1>3. IInv => SavedUnlessBlind
    BY DEF IInv, Secured, Owed, SavedUnlessBlind
  <1>. QED
    BY <1>1, <1>2, <1>3, PTL DEF Spec
=============================================================================
