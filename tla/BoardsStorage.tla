--------------------------- MODULE BoardsStorage ---------------------------
(***************************************************************************)
(* How the web client keeps its boards in the chat delegate                *)
(* (ui/src/components/app/chat_delegate.rs and response_handler.rs).       *)
(*                                                                         *)
(* A tab starts with no boards, asks the delegate for the stored ones and, *)
(* once per tab, the delegate of an older version too, and merges what it  *)
(* gets.  Every change of a user saves all boards of the tab at once.      *)
(* Loading, merging and saving are tasks of their own, so they interleave; *)
(* requests and answers travel over one connection in order and may be     *)
(* lost with it.  Of a board the model keeps the user's key (self_sk),     *)
(* which Boards::merge insists on; board states merge as in BoardState.    *)
(* A board that was left is not joined again.                              *)
(***************************************************************************)
EXTENDS Naturals, Sequences

CONSTANTS
    Boards,
    Keys,           \* signing keys of the user
    None,           \* no board, no value under a key, no pending request
    NotInstalled,   \* the older delegate is unknown to the node
    LegacyValues,   \* what the older delegate may have
    MaxTabs,        \* bound on the tabs opened, one after the other
    MaxLosses,      \* bound on the connections lost
    MaxSaves        \* bound on the saves

ASSUME NoneAssumption == None \notin Keys
ASSUME BoundsAssumption == {MaxTabs, MaxLosses, MaxSaves} \subseteq Nat

VARIABLES
    current,        \* what the delegate has under BOARDS_STORAGE_KEY
    legacy,         \* what the older delegate has there
    migrationDone,  \* LEGACY_MIGRATION_FLAG in localStorage
    tabs, losses,   \* tabs opened and connections lost so far
    open,           \* a tab is open
    connected,
    boards,         \* BOARDS, the boards in the memory of the tab
    loaded,         \* the answer to its first request is not merged yet, is
                    \* merged, or only in part
    attempted,      \* LEGACY_MIGRATION_ATTEMPTED
    deferred,       \* boards received and still to be merged (setTimeout)
    due,            \* saves spawned and not yet begun
    saves,          \* what save_boards_to_delegate returned, for each save
    pending,        \* PENDING_REQUESTS: the save whose sender is registered
    requests,       \* to the node
    answers,        \* from the node
    kept,           \* history: boards stored at some time
    left,           \* history: boards the user has left
    blind           \* history: something was saved before loading was complete

delegates == <<current, legacy, kept>>
tab == <<tabs, losses, open, attempted>>
channel == <<connected, requests, answers>>
calls == <<saves, pending>>
vars == <<delegates, migrationDone, tab, channel, boards, loaded, deferred, due,
          calls, left, blind>>

ASSUME LegacyAssumption ==
    LegacyValues \subseteq {None, NotInstalled} \cup [Boards -> Keys \cup {None}]

ASSUME AbsentAssumption ==
    None # NotInstalled /\ {None, NotInstalled} \cap [Boards -> Keys \cup {None}] = {}

NoBoards == [b \in Boards |-> None]
SomeBoards == [Boards -> Keys \cup {None}]
Present(v) == IF v \in {None, NotInstalled} THEN {} ELSE {b \in Boards : v[b] # None}

Get(d) == [op |-> "Get", from |-> d]
Store(v) == [op |-> "Store", value |-> v]

Init ==
    /\ current \in {None} \cup SomeBoards
    /\ legacy \in LegacyValues
    /\ migrationDone = FALSE
    /\ tabs = 0 /\ losses = 0 /\ open = FALSE /\ connected = FALSE
    /\ boards = NoBoards /\ loaded = "no" /\ attempted = FALSE
    /\ deferred = <<>> /\ due = {} /\ requests = <<>> /\ answers = <<>>
    /\ saves = <<>> /\ pending = None
    /\ kept = Present(current) /\ left = {} /\ blind = FALSE

---------------------------------------------------------------------------
(* The tab and its connection.                                             *)

OpenTab ==
    /\ ~open /\ tabs < MaxTabs
    /\ open' = TRUE /\ tabs' = tabs + 1
    /\ boards' = NoBoards /\ loaded' = "no" /\ attempted' = FALSE
    /\ UNCHANGED <<delegates, migrationDone, losses, channel, deferred, due, calls, left, blind>>

(* Deviation (LoadsEventually): a connection after the first loads nothing. *)
ConnectOnce ==
    /\ open /\ ~connected
    /\ connected' = TRUE
    /\ requests' = IF losses = 0 THEN <<Get("current")>> ELSE <<>>
    /\ attempted' = (attempted \/ ~migrationDone)
    /\ UNCHANGED <<delegates, migrationDone, tabs, losses, open, answers, boards,
                   loaded, deferred, due, calls, left, blind>>

(* set_up_chat_delegate: every new connection loads the boards, and the     *)
(* first one of a tab those of the older delegate.                          *)
Connect ==
    /\ open /\ ~connected
    /\ connected' = TRUE
    /\ requests' = IF migrationDone \/ attempted THEN <<Get("current")>>
                   ELSE <<Get("current"), Get("legacy")>>
    /\ attempted' = (attempted \/ ~migrationDone)
    /\ UNCHANGED <<delegates, migrationDone, tabs, losses, open, answers, boards,
                   loaded, deferred, due, calls, left, blind>>

(* Answers that have arrived are handled before the loss is noticed.        *)
Disconnect ==
    /\ connected /\ losses < MaxLosses
    /\ connected' = FALSE /\ losses' = losses + 1
    /\ requests' = <<>>
    /\ \E n \in 0..Len(answers) : answers' = SubSeq(answers, 1, n)
    /\ UNCHANGED <<delegates, migrationDone, tabs, open, attempted, boards, loaded,
                   deferred, due, calls, left, blind>>

Cancelled(s) == [i \in DOMAIN s |-> IF s[i] = "waiting" THEN "Err" ELSE s[i]]

CloseTab ==
    /\ open
    /\ open' = FALSE /\ connected' = FALSE
    /\ requests' = <<>> /\ answers' = <<>> /\ deferred' = <<>> /\ due' = {}
    /\ pending' = None /\ saves' = Cancelled(saves)
    /\ UNCHANGED <<delegates, migrationDone, tabs, losses, attempted, boards, loaded,
                   left, blind>>

---------------------------------------------------------------------------
(* The user.                                                               *)

(* A board is created, or an invitation or an identity accepted.            *)
Join(b, k) ==
    /\ open /\ boards[b] = None /\ b \notin left
    /\ boards' = [boards EXCEPT ![b] = k]
    /\ due' = due \cup {"save"}
    /\ UNCHANGED <<delegates, migrationDone, tab, channel, loaded, deferred, calls, left, blind>>

(* Accepting an invitation to a board one is in already takes its key.      *)
Rekey(b, k) ==
    /\ open /\ boards[b] \notin {None, k}
    /\ boards' = [boards EXCEPT ![b] = k]
    /\ due' = due \cup {"save"}
    /\ UNCHANGED <<delegates, migrationDone, tab, channel, loaded, deferred, calls, left, blind>>

Leave(b) ==
    /\ open /\ boards[b] # None
    /\ boards' = [boards EXCEPT ![b] = None]
    /\ left' = left \cup {b}
    /\ due' = due \cup {"save"}
    /\ UNCHANGED <<delegates, migrationDone, tab, channel, loaded, deferred, calls, blind>>

(* Messages read, another board selected or an update received: the boards  *)
(* are saved as they are.                                                   *)
Touch ==
    /\ open /\ boards # NoBoards
    /\ due' = due \cup {"save"}
    /\ UNCHANGED <<delegates, migrationDone, tab, channel, boards, loaded, deferred,
                   calls, left, blind>>

---------------------------------------------------------------------------
(* Saving.                                                                 *)

(* Deviation (TypeOK): the sender stays registered if nothing was sent.     *)
SaveLeavingSender(kind) ==
    LET id == Len(saves) + 1 IN
    /\ kind \in due /\ id <= MaxSaves
    /\ due' = due \ {kind}
    /\ saves' = Append(Cancelled(saves), IF connected THEN "waiting" ELSE "Err")
    /\ pending' = [save |-> id, migrates |-> kind = "migration"]
    /\ requests' = IF connected THEN Append(requests, Store(boards)) ELSE requests
    /\ blind' = (blind \/ (connected /\ loaded # "yes"))
    /\ UNCHANGED <<delegates, migrationDone, tab, connected, answers, boards, loaded,
                   deferred, left>>

(* save_boards_to_delegate reads the boards, registers a sender under the   *)
(* storage key, in place of one that is registered there, and sends.  If it *)
(* cannot send it takes the sender out again.                               *)
Save(kind) ==
    LET id == Len(saves) + 1 IN
    /\ kind \in due /\ id <= MaxSaves
    /\ due' = due \ {kind}
    /\ saves' = Append(Cancelled(saves), IF connected THEN "waiting" ELSE "Err")
    /\ pending' = IF connected THEN [save |-> id, migrates |-> kind = "migration"] ELSE None
    /\ requests' = IF connected THEN Append(requests, Store(boards)) ELSE requests
    /\ blind' = (blind \/ (connected /\ loaded # "yes"))
    /\ UNCHANGED <<delegates, migrationDone, tab, connected, answers, boards, loaded,
                   deferred, left>>

(* Deviation (SavesReturn): a request is waited for while connected.        *)
TimeoutOfUnsent ==
    /\ pending # None /\ ~connected
    /\ saves' = Cancelled(saves) /\ pending' = None
    /\ UNCHANGED <<delegates, migrationDone, tab, channel, boards, loaded, deferred,
                   due, left, blind>>

(* No answer for thirty seconds.                                            *)
Timeout ==
    /\ pending # None
    /\ saves' = Cancelled(saves) /\ pending' = None
    /\ UNCHANGED <<delegates, migrationDone, tab, channel, boards, loaded, deferred,
                   due, left, blind>>

---------------------------------------------------------------------------
(* The node, which runs the delegates.                                     *)

Value(d) == IF d = "current" THEN current ELSE legacy

AnswerGet ==
    LET d == Head(requests).from IN
    /\ requests # <<>> /\ Head(requests).op = "Get"
    /\ requests' = Tail(requests)
    /\ answers' = Append(answers,
                    IF Value(d) = NotInstalled THEN [op |-> "NotFound"]
                    ELSE [op |-> "Get", from |-> d, value |-> Value(d)])
    /\ UNCHANGED <<delegates, migrationDone, tab, connected, boards, loaded, deferred,
                   due, calls, left, blind>>

AnswerStore ==
    LET r == Head(requests) IN
    /\ requests # <<>> /\ r.op = "Store"
    /\ requests' = Tail(requests)
    /\ current' = r.value
    /\ kept' = kept \cup Present(r.value)
    /\ answers' = Append(answers, [op |-> "Store"])
    /\ UNCHANGED <<legacy, migrationDone, tab, connected, boards, loaded, deferred,
                   due, calls, left, blind>>

(* The host refuses the write, and the error completes no request.          *)
RefuseStore ==
    /\ requests # <<>> /\ Head(requests).op = "Store"
    /\ requests' = Tail(requests)
    /\ UNCHANGED <<delegates, migrationDone, tab, connected, answers, boards, loaded,
                   deferred, due, calls, left, blind>>

---------------------------------------------------------------------------
(* Answers, as handle_api_response and the message loop handle them.       *)

(* complete_pending_request: whatever was asked under the same key, an      *)
(* answer completes it; a save takes nothing but a StoreResponse.           *)
Complete(result) ==
    /\ pending' = None
    /\ saves' = IF pending = None THEN saves ELSE [saves EXCEPT ![pending.save] = result]

(* Deviation (SavedUnlessBlind): the answer is taken for merged at once.    *)
ReceiveBoardsAsLoaded ==
    LET a == Head(answers) IN
    /\ answers # <<>> /\ a.op = "Get" /\ a.value # None
    /\ answers' = Tail(answers)
    /\ Complete("Err")
    /\ deferred' = Append(deferred, [from |-> a.from, value |-> a.value])
    /\ loaded' = "yes"
    /\ due' = due \cup {"migration" : d \in {a.from} \cap {"legacy"}}
    /\ migrationDone' = (migrationDone \/ a.from = "current")
    /\ UNCHANGED <<delegates, tab, connected, requests, boards, left, blind>>

(* Boards of the older delegate are saved to the current one, and the       *)
(* migration is done when that returned; the current one having any boards  *)
(* at all, it is done already.                                              *)
ReceiveBoards ==
    LET a == Head(answers) IN
    /\ answers # <<>> /\ a.op = "Get" /\ a.value # None
    /\ answers' = Tail(answers)
    /\ Complete("Err")
    /\ deferred' = Append(deferred, [from |-> a.from, value |-> a.value])
    /\ due' = due \cup {"migration" : d \in {a.from} \cap {"legacy"}}
    /\ migrationDone' = (migrationDone \/ a.from = "current")
    /\ UNCHANGED <<delegates, tab, connected, requests, boards, loaded, left, blind>>

(* Neither delegate having any is a reason to be done, too.                 *)
ReceiveNoBoards ==
    LET a == Head(answers) IN
    /\ answers # <<>> /\ a.op = "Get" /\ a.value = None
    /\ answers' = Tail(answers)
    /\ Complete("Err")
    /\ loaded' = IF a.from = "current" THEN "yes" ELSE loaded
    /\ migrationDone' = TRUE
    /\ UNCHANGED <<delegates, tab, connected, requests, boards, deferred, due, left, blind>>

ReceiveNotFound ==
    /\ answers # <<>> /\ Head(answers).op = "NotFound"
    /\ answers' = Tail(answers)
    /\ migrationDone' = TRUE
    /\ UNCHANGED <<delegates, tab, connected, requests, boards, loaded, deferred, due,
                   calls, left, blind>>

ReceiveStored ==
    /\ answers # <<>> /\ Head(answers).op = "Store"
    /\ answers' = Tail(answers)
    /\ Complete("Ok")
    /\ migrationDone' = (migrationDone \/ (pending # None /\ pending.migrates))
    /\ UNCHANGED <<delegates, tab, connected, requests, boards, loaded, deferred, due,
                   left, blind>>

(* Boards::merge: boards not in memory are added.  One that is there under  *)
(* another key ends the merge, and so does one whose state refuses what was *)
(* stored (BoardReplicas); the boards after it are not looked at, and the   *)
(* order is that of a hash map.                                             *)
Merged(v, looked) ==
    [b \in Boards |-> IF boards[b] = None /\ b \in looked THEN v[b] ELSE boards[b]]

MergeBoards ==
    LET v == Head(deferred).value
        clashes == {b \in Present(v) : boards[b] \notin {None, v[b]}}
        shared == {b \in Present(v) : boards[b] = v[b]}
    IN  /\ deferred # <<>>
        /\ deferred' = Tail(deferred)
        /\ \E refused \in SUBSET shared, looked \in SUBSET Present(v) :
            LET ends == clashes \cup refused IN
            /\ IF ends = {} THEN looked = Present(v) ELSE looked \cap ends = {}
            /\ boards' = Merged(v, looked)
            /\ loaded' = IF Head(deferred).from # "current" \/ loaded = "yes" THEN loaded
                         ELSE IF ends = {} THEN "yes" ELSE "partly"
        /\ UNCHANGED <<delegates, migrationDone, tab, channel, due, calls, left, blind>>

---------------------------------------------------------------------------

Handle ==
    ReceiveBoards \/ ReceiveNoBoards \/ ReceiveNotFound \/ ReceiveStored
Node == AnswerGet \/ AnswerStore

Next ==
    \/ OpenTab \/ Connect \/ Disconnect \/ CloseTab
    \/ \E b \in Boards : Leave(b) \/ \E k \in Keys : Join(b, k) \/ Rekey(b, k)
    \/ Touch
    \/ \E kind \in {"save", "migration"} : Save(kind)
    \/ Timeout \/ MergeBoards \/ Handle \/ Node \/ RefuseStore

Spec == Init /\ [][Next]_vars

(* A tab reconnects, its timers expire and its tasks run; the node answers. *)
FairSpec ==
    /\ Spec
    /\ WF_vars(Connect) /\ WF_vars(Timeout)
    /\ WF_vars(MergeBoards) /\ WF_vars(Handle) /\ WF_vars(Node)

---------------------------------------------------------------------------

TypeOK ==
    /\ current \in {None} \cup SomeBoards
    /\ legacy \in LegacyValues
    /\ tabs \in 0..MaxTabs /\ losses \in 0..MaxLosses
    /\ {migrationDone, open, connected, attempted, blind} \subseteq BOOLEAN
    /\ boards \in SomeBoards /\ loaded \in {"no", "yes", "partly"}
    /\ due \subseteq {"save", "migration"}
    /\ saves \in UNION {[1..n -> {"waiting", "Ok", "Err"}] : n \in 0..MaxSaves}
    /\ pending # None => saves[pending.save] = "waiting"
    /\ kept \cup left \subseteq Boards

(* Whatever fails, is late or is closed, a board once saved and not left is *)
(* still stored, unless a tab saved before it had loaded all its boards.    *)
SavedUnlessBlind == blind \/ kept \ left \subseteq Present(current)

(* No save waits for ever: an answer, a later save or the timeout ends it.  *)
Waiting(i) == i \in DOMAIN saves /\ saves[i] = "waiting"
SavesReturn == \A i \in 1..MaxSaves : Waiting(i) ~> ~Waiting(i)

(* A tab that stays open loads its boards, however often it reconnects.     *)
LoadsEventually == (open /\ loaded = "no") ~> (~open \/ loaded # "no")
=============================================================================
