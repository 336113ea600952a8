----------------------------- MODULE BoardSync -----------------------------
(***************************************************************************)
(* How the web client keeps one of its boards in step with the board's     *)
(* contract (ui/src/components/app/freenet_api/ and sync_info.rs).         *)
(*                                                                         *)
(* The synchronizer takes one message at a time from a queue: requests of  *)
(* the user interface, timers, the answers of the node, the loss of the    *)
(* connection.  Handlers write the board and its sync status partly at     *)
(* once and partly in closures deferred with setTimeout(0), which run in   *)
(* order but between any two messages.  Boards are independent of one      *)
(* another here.  A board state is the set of the changes it contains: the *)
(* merge of states is what BoardReplicas is about.                         *)
(***************************************************************************)
EXTENDS Naturals, Sequences

CONSTANTS
    Own, Others,    \* changes the user makes, changes others make
    None,           \* no board, nothing stored, no contract
    MaxTroubles     \* bound on connections lost or refused, on timers that run
                    \* out with work under way, and on returns to the page

ASSUME ChangesAssumption == Own \cap Others = {}
ASSUME NoneAssumption == \A s \in SUBSET (Own \cup Others) : None # s
ASSUME BoundAssumption == MaxTroubles \in Nat

VARIABLES
    link,       \* the WebSocket is open
    api,        \* WEB_API is set
    connected,  \* SYNC_STATUS is Connected
    queue,      \* messages to the synchronizer
    deferred,   \* closures under way
    timers,     \* "connect", "process", or "check": ProcessBoards when the
                \* subscription it was set for has had its time
    mine,       \* the board in BOARDS
    status,     \* its sync_status
    aged,       \* it has been Subscribing for REPUT_DELAY_MS
    baseline,   \* its last_synced_state
    invite,     \* the status of its entry of PENDING_INVITES
    inviteAged, \* that has been Subscribing for INVITATION_TIMEOUT_MS
    stored,     \* the board as the delegate has it
    requests,   \* to the node, in order
    contract,   \* the board as the node has it
    subscribed, \* the node notifies this client
    troubles,   \* how many there have been
    lost        \* history: own changes sent over a connection that was gone

network == <<requests, contract, subscribed>>
channel == <<link, api, connected>>
info == <<status, aged, baseline>>
invitation == <<invite, inviteAged>>
vars == <<channel, queue, deferred, timers, mine, info, invitation, stored,
          network, troubles, lost>>

Changes == Own \cup Others
State == SUBSET Changes
Statuses == {"Unregistered", "Disconnected", "Subscribing", "Subscribed", "Error"}

(* A message, closure or request and the state it carries, if any.         *)
Note(kind, s) == [kind |-> kind, state |-> s]
Call(kind) == Note(kind, None)

Trouble == troubles < MaxTroubles /\ troubles' = troubles + 1

Messages == {"ProcessBoards", "Connect", "ConnectionLost", "PageBecameVisible",
             "RefreshAllBoards", "AcceptInvitation", "Loaded", "Got", "NotFound", "PutDone",
             "SubscribeOk", "SubscribeFailed", "NewState", "NewDelta"}
Closures == {"Merge", "Subscribing", "Subscribed", "Disconnected", "Error",
             "Refresh", "NewState", "NewDelta", "InviteSubscribed",
             "InvitePending", "NeedsSync"}
Requests == {"Load", "Get", "Put", "Update", "Subscribe"}

Merged(s, t) == (IF s = None THEN {} ELSE s) \cup t

Init ==
    /\ link = FALSE /\ api = FALSE /\ connected = FALSE
    /\ queue = <<Call("Connect")>> /\ deferred = <<>> /\ timers = {}
    /\ mine = None /\ status = "Unregistered" /\ aged = FALSE /\ baseline = None
    /\ invite = "none" /\ inviteAged = FALSE
    /\ stored \in {None, {}}
    /\ requests = <<>> /\ contract \in {None, {}} /\ subscribed = FALSE
    /\ troubles = 0 /\ lost = {}

---------------------------------------------------------------------------
(* Sending.  A request is lost if the socket has closed, and the client    *)
(* may not be told.                                                        *)

Sent == IF ~api THEN {FALSE} ELSE IF link THEN {TRUE} ELSE BOOLEAN

Send(ok, calls) == requests' = IF ok /\ link THEN requests \o calls ELSE requests

(* Own changes in calls that were to publish them.                         *)
Published(calls) ==
    UNION {calls[i].state \cap Own : i \in {j \in DOMAIN calls : calls[j].kind \in {"Put", "Update"}}}

Lose(ok, calls) == lost' = IF ok /\ link THEN lost ELSE lost \cup Published(calls)

(* A subscription that is new: a check that was to look at an earlier one   *)
(* may come too early for it.                                               *)
Unchecked == IF "check" \in timers THEN (timers \ {"check"}) \cup {"process"} ELSE timers

(* process_boards: the invitation first, a board without a subscription    *)
(* next, and then what has changed; of these one at most is to be done.    *)
InviteDue == invite = "Pending" \/ (invite = "Subscribing" /\ inviteAged)

PutDue == /\ ~InviteDue /\ mine # None
          /\ status \in {"Unregistered", "Disconnected"} \/ (status = "Subscribing" /\ aged)

UpdateDue == ~InviteDue /\ mine \notin {None, baseline} /\ status = "Subscribed"

ToSend == IF InviteDue THEN <<Call("Get")>>
          ELSE IF PutDue THEN <<Note("Put", mine)>>
          ELSE IF UpdateDue THEN <<Note("Update", mine)>> ELSE <<>>

ProcessBoards(ok) ==
    /\ status' = IF InviteDue \/ (PutDue /\ ok) THEN "Subscribing"
                 ELSE IF PutDue THEN "Error" ELSE status
    /\ aged' = (aged /\ ~InviteDue /\ ~PutDue)
    /\ timers' = IF InviteDue \/ PutDue THEN Unchecked ELSE timers
    /\ baseline' = IF (PutDue /\ status = "Unregistered") \/ (UpdateDue /\ ok)
                   THEN mine ELSE baseline
    /\ invite' = IF ~InviteDue THEN invite ELSE IF ok THEN "Subscribing" ELSE "Error"
    /\ inviteAged' = (inviteAged /\ ~InviteDue)

SendBoards ==
    \E ok \in Sent :
        /\ ProcessBoards(ok)
        /\ Send(ok, ToSend)
        /\ IF UpdateDue /\ ~ok THEN UNCHANGED lost ELSE Lose(ok, ToSend)

---------------------------------------------------------------------------
(* The messages of the synchronizer.                                       *)

Take(kind) == queue # <<>> /\ Head(queue).kind = kind /\ queue' = Tail(queue)
Defer(kinds) == deferred' = deferred \o [i \in DOMAIN kinds |-> Call(kinds[i])]
Post(kind) == queue' = Append(queue, Call(kind))

(* Without a connection the message is dropped and one is asked for.       *)
ConnectFirst(kind) ==
    /\ ~connected
    /\ queue # <<>> /\ Head(queue).kind = kind
    /\ queue' = Append(Tail(queue), Call("Connect"))
    /\ UNCHANGED <<channel, deferred, timers, mine, info, invitation, stored,
                   network, troubles, lost>>

HandleProcessBoards ==
    \/ ConnectFirst("ProcessBoards")
    \/ /\ connected /\ Take("ProcessBoards") /\ SendBoards
       /\ UNCHANGED <<channel, deferred, mine, stored, contract, subscribed, troubles>>

(* Sent by the invitation dialog; without a WEB_API nothing is done.        *)
HandleAcceptInvitation ==
    /\ Take("AcceptInvitation")
    /\ IF api THEN SendBoards
       ELSE UNCHANGED <<requests, info, timers, invitation, lost>>
    /\ UNCHANGED <<channel, deferred, mine, stored, contract, subscribed, troubles>>

HandlePageBecameVisible ==
    /\ queue # <<>> /\ Head(queue).kind = "PageBecameVisible"
    /\ queue' = Append(Tail(queue), Call(IF connected THEN "RefreshAllBoards" ELSE "Connect"))
    /\ UNCHANGED <<channel, deferred, timers, mine, info, invitation, stored,
                   network, troubles, lost>>

HandleRefreshAllBoards ==
    \/ ConnectFirst("RefreshAllBoards")
    \/ /\ connected /\ Take("RefreshAllBoards")
       /\ \E ok \in Sent : Send(ok, IF mine = None THEN <<>> ELSE <<Call("Get")>>)
       /\ UNCHANGED <<channel, deferred, timers, mine, info, invitation, stored,
                      contract, subscribed, troubles, lost>>

(* set_up_chat_delegate asks for the stored boards, and the boards are      *)
(* processed.  A new connection knows nothing of the requests and the       *)
(* subscription of the old one; one made while another is open counts as    *)
(* the same.                                                                *)
HandleConnect ==
    /\ Take("Connect")
    /\ link' = TRUE /\ api' = TRUE /\ connected' = TRUE
    /\ ProcessBoards(TRUE)
    /\ requests' = requests \o <<Call("Load")>> \o ToSend
    /\ subscribed' = (subscribed /\ link)
    /\ UNCHANGED <<deferred, mine, stored, contract, troubles, lost>>

HandleConnectRefused ==
    /\ Take("Connect") /\ Trouble
    /\ connected' = FALSE
    /\ timers' = timers \cup {"connect"}
    /\ UNCHANGED <<link, api, deferred, mine, info, invitation, stored, network, lost>>

(* Deviation (ComesToRest): the user has to reconnect.                      *)
HandleConnectionLostForGood ==
    /\ Take("ConnectionLost")
    /\ api' = FALSE /\ connected' = FALSE
    /\ UNCHANGED <<link, deferred, timers, mine, info, invitation, stored, network,
                   troubles, lost>>

(* Reported by the error callback of a socket.  The WEB_API may be that of  *)
(* a newer one by now.                                                      *)
HandleConnectionLost ==
    /\ Take("ConnectionLost")
    /\ api' = FALSE /\ connected' = FALSE
    /\ timers' = timers \cup {"connect"}
    /\ UNCHANGED <<link, deferred, mine, info, invitation, stored, network, troubles, lost>>

(* The stored boards are merged and subscribed to, and looked after when    *)
(* the subscription has had its time.                                       *)
HandleLoaded ==
    LET s == Head(queue).state IN
    /\ Take("Loaded")
    /\ \E ok \in Sent :
        /\ deferred' = IF s = None THEN deferred
                       ELSE deferred \o <<Note("Merge", s), Call("Subscribing")>>
        /\ Send(ok, IF s = None THEN <<>> ELSE <<Call("Subscribe")>>)
        /\ timers' = IF ok /\ s # None THEN timers \cup {"check"} ELSE timers
    /\ UNCHANGED <<channel, mine, info, invitation, stored, contract, subscribed, troubles, lost>>

HandlePutDone ==
    /\ Take("PutDone")
    /\ \E ok \in Sent :
        /\ Send(ok, <<Call("Subscribe")>>)
        /\ Defer(IF ok THEN <<"Subscribed">> ELSE <<"Error">>)
    /\ UNCHANGED <<channel, timers, mine, info, invitation, stored, contract,
                   subscribed, troubles, lost>>

(* Deviation (SeenWhenIdle): the subscription is all that was wanted.       *)
HandleSubscribeOkOnly ==
    /\ Take("SubscribeOk")
    /\ Defer(IF status = "Unregistered" THEN <<>> ELSE <<"Subscribed">>)
    /\ UNCHANGED <<channel, timers, mine, info, invitation, stored, network,
                   troubles, lost>>

(* The state is fetched, for what was missed without a subscription.        *)
HandleSubscribeOk ==
    /\ Take("SubscribeOk")
    /\ \E ok \in Sent : Send(ok, <<Call("Get")>>)
    /\ Defer(IF status = "Unregistered" THEN <<>> ELSE <<"Subscribed">>)
    /\ UNCHANGED <<channel, timers, mine, info, invitation, stored, contract,
                   subscribed, troubles, lost>>

HandleSubscribeFailed ==
    LET known == status # "Unregistered" IN
    /\ Take("SubscribeFailed")
    /\ Defer(IF ~known THEN <<>>
             ELSE IF mine # None THEN <<"Disconnected">> ELSE <<"Error">>)
    /\ timers' = IF known /\ mine # None THEN timers \cup {"process"} ELSE timers
    /\ UNCHANGED <<channel, mine, info, invitation, stored, network, troubles, lost>>

(* A board there is an entry of PENDING_INVITES for is inserted and put;     *)
(* the entry stays.                                                          *)
HandleGotForInvite ==
    LET s == Head(queue).state IN
    /\ invite # "none" /\ Take("Got")
    /\ \E ok \in Sent :
        /\ Send(ok, <<Note("Put", s)>>)
        /\ deferred' = deferred \o <<Note("Merge", s), Call("Subscribing")>> \o
              IF ok THEN <<Call("InviteSubscribed"), Call("NeedsSync")>>
              ELSE <<Call("Error"), Call("InvitePending")>>
    /\ UNCHANGED <<channel, timers, mine, info, invitation, stored, contract,
                   subscribed, troubles, lost>>

HandleGot ==
    /\ invite = "none"
    /\ queue # <<>> /\ Take("Got")
    /\ deferred' = IF mine = None THEN deferred
                   ELSE deferred \o <<Note("Refresh", Head(queue).state), Call("Subscribed")>>
    /\ UNCHANGED <<channel, timers, mine, info, invitation, stored, network, troubles, lost>>

(* An update notification, which is dropped for a board that is not         *)
(* registered.                                                              *)
HandleNotification ==
    /\ \/ Take("NewState")
       \/ Take("NewDelta")
    /\ deferred' = IF status = "Unregistered" THEN deferred
                   ELSE Append(deferred, Head(queue))
    /\ UNCHANGED <<channel, timers, mine, info, invitation, stored, network, troubles, lost>>

(* The contract is not there (yet): a board that is is put again soon.      *)
HandleNotFound ==
    /\ Take("NotFound")
    /\ IF mine = None THEN UNCHANGED <<info, timers>>
       ELSE /\ status' = IF status = "Unregistered" THEN status ELSE "Disconnected"
            /\ aged' = FALSE
            /\ timers' = timers \cup {"process"}
            /\ UNCHANGED baseline
    /\ UNCHANGED <<channel, deferred, mine, invitation, stored, network, troubles, lost>>

---------------------------------------------------------------------------
(* The closures.                                                           *)

Run(kind) == deferred # <<>> /\ Head(deferred).kind = kind /\ deferred' = Tail(deferred)

(* save_boards_to_delegate (BoardsStorage).                                 *)
Save(s) == stored' = IF api /\ link /\ s # None THEN s ELSE stored

RunMerge ==
    /\ Run("Merge")
    /\ mine' = Merged(mine, Head(deferred).state)
    /\ UNCHANGED <<channel, queue, timers, info, invitation, stored, network, troubles, lost>>

RunRefresh ==
    /\ Run("Refresh")
    /\ mine' = IF mine = None THEN None ELSE Merged(mine, Head(deferred).state)
    /\ UNCHANGED <<channel, queue, timers, info, invitation, stored, network, troubles, lost>>

(* register_new_board and update_sync_status.                               *)
RunSubscribing ==
    /\ Run("Subscribing")
    /\ status' = "Subscribing" /\ aged' = FALSE
    /\ UNCHANGED <<channel, queue, timers, mine, baseline, invitation, stored, network, troubles, lost>>

(* Deviation (TypeOK): the time the subscription began is kept.             *)
RunStatusOnly ==
    \E s \in {"Subscribed", "Disconnected", "Error"} :
        /\ Run(s)
        /\ status' = IF status = "Unregistered" THEN status ELSE s
        /\ UNCHANGED <<channel, queue, timers, mine, aged, baseline, invitation,
                       stored, network, troubles, lost>>

RunStatus ==
    \E s \in {"Subscribed", "Disconnected", "Error"} :
        /\ Run(s)
        /\ status' = IF status = "Unregistered" THEN status ELSE s
        /\ aged' = FALSE
        /\ UNCHANGED <<channel, queue, timers, mine, baseline, invitation, stored, network, troubles, lost>>

(* Deviation (ChangesNoticed): the baseline is the merged board.            *)
RunNewStateKeepingMerged ==
    LET s == Head(deferred).state IN
    /\ Run("NewState")
    /\ mine' = IF mine = None THEN None ELSE Merged(mine, s)
    /\ baseline' = IF mine = None THEN baseline ELSE Merged(mine, s)
    /\ status' = IF status = "Unregistered" THEN "Disconnected" ELSE status
    /\ Save(mine')
    /\ UNCHANGED <<channel, queue, timers, aged, invitation, network, troubles, lost>>

(* The baseline is what the contract has, not what the board has become.    *)
RunNewState ==
    LET s == Head(deferred).state IN
    /\ Run("NewState")
    /\ mine' = IF mine = None THEN None ELSE Merged(mine, s)
    /\ baseline' = IF mine = None THEN baseline ELSE s
    /\ status' = IF status = "Unregistered" THEN "Disconnected" ELSE status
    /\ Save(mine')
    /\ UNCHANGED <<channel, queue, timers, aged, invitation, network, troubles, lost>>

RunNewDelta ==
    /\ Run("NewDelta")
    /\ mine' = IF mine = None THEN None ELSE Merged(mine, Head(deferred).state)
    /\ Save(mine')
    /\ UNCHANGED <<channel, queue, timers, info, invitation, network, troubles, lost>>

RunInvite ==
    /\ \/ Run("InviteSubscribed") /\ invite' = IF invite = "none" THEN invite ELSE "Subscribed"
       \/ Run("InvitePending") /\ invite' = IF invite = "none" THEN invite ELSE "Pending"
    /\ inviteAged' = FALSE
    /\ UNCHANGED <<channel, queue, timers, mine, info, stored, network, troubles, lost>>

(* The effect on NEEDS_SYNC.                                                *)
RunNeedsSync ==
    /\ Run("NeedsSync")
    /\ Post("ProcessBoards")
    /\ Save(mine)
    /\ UNCHANGED <<channel, timers, mine, info, invitation, network, troubles, lost>>

---------------------------------------------------------------------------
(* The user.                                                               *)

MakeChange(c) ==
    /\ mine # None /\ c \notin mine
    /\ mine' = mine \cup {c}
    /\ Defer(<<"NeedsSync">>)
    /\ UNCHANGED <<channel, queue, timers, info, invitation, stored, network, troubles, lost>>

(* In a tab that is new to the board.                                       *)
CreateBoard ==
    /\ mine = None /\ stored = None /\ invite = "none" /\ contract = None
    /\ mine' = {}
    /\ Defer(<<"NeedsSync">>)
    /\ UNCHANGED <<channel, queue, timers, info, invitation, stored, network, troubles, lost>>

AcceptInvitation ==
    /\ mine = None /\ stored = None /\ invite = "none"
    /\ invite' = "Pending" /\ inviteAged' = FALSE
    /\ Post("AcceptInvitation")
    /\ UNCHANGED <<channel, deferred, timers, mine, info, stored, network, troubles, lost>>

(* The dialog, after an error: try again, which posts nothing, or give up.  *)
RetryOrDismiss ==
    /\ invite = "Error"
    /\ invite' \in {"Pending", "none"} /\ inviteAged' = FALSE
    /\ UNCHANGED <<channel, queue, deferred, timers, mine, info, stored, network, troubles, lost>>

ReturnToPage ==
    /\ Trouble
    /\ Post("PageBecameVisible")
    /\ UNCHANGED <<channel, deferred, timers, mine, info, invitation, stored,
                   network, lost>>

---------------------------------------------------------------------------
(* Time.  Seconds pass when nothing is to be done; else it is a trouble.    *)

Underway == queue # <<>> \/ deferred # <<>> \/ requests # <<>>

SecondsPass ==
    \/ ~Underway /\ UNCHANGED troubles
    \/ /\ Underway /\ deferred = <<>> /\ Trouble

Fire ==
    /\ SecondsPass
    /\ \/ /\ "connect" \in timers /\ timers' = timers \ {"connect"}
          /\ Post("Connect")
       \/ /\ "process" \in timers /\ timers' = timers \ {"process"}
          /\ Post("ProcessBoards")
       \/ /\ "check" \in timers /\ timers' = timers \ {"check"}
          /\ status = "Subscribing" => aged
          /\ Post("ProcessBoards")
    /\ UNCHANGED <<channel, deferred, mine, info, invitation, stored, network, lost>>

Age ==
    /\ SecondsPass
    /\ \/ /\ status = "Subscribing" /\ ~aged /\ aged' = TRUE
          /\ UNCHANGED inviteAged
       \/ /\ invite = "Subscribing" /\ ~inviteAged /\ inviteAged' = TRUE
          /\ UNCHANGED aged
    /\ UNCHANGED <<channel, queue, deferred, timers, mine, status, baseline, invite,
                   stored, network, lost>>

---------------------------------------------------------------------------
(* The node and the other users.                                           *)

(* An answer takes longer than the closures that are due.                  *)
Answer(notes) == queue' = queue \o notes

(* The contract after a request.                                           *)
Applied(s, r) ==
    IF r.kind = "Put" \/ (r.kind = "Update" /\ s # None) THEN Merged(s, r.state) ELSE s

(* Subscribers, the one that caused it included, get a change as the new    *)
(* state or as a delta.                                                     *)
Notification(s) ==
    IF subscribed /\ s # contract
    THEN {<<Note("NewState", s)>>, <<Note("NewDelta", s \ Merged(contract, {}))>>}
    ELSE {<<>>}

Serve ==
    LET r == Head(requests)
        s == Applied(contract, r)
    IN  /\ requests # <<>> /\ deferred = <<>>
        /\ requests' = Tail(requests)
        /\ contract' = s
        /\ \/ /\ r.kind = "Load" /\ Answer(<<Note("Loaded", stored)>>)
              /\ UNCHANGED subscribed
           \/ /\ r.kind = "Get"
              /\ Answer(IF s = None THEN <<Call("NotFound")>> ELSE <<Note("Got", s)>>)
              /\ UNCHANGED subscribed
           \/ /\ r.kind = "Subscribe"
              /\ Answer(IF s = None THEN <<Call("SubscribeFailed")>>
                        ELSE <<Call("SubscribeOk")>>)
              /\ subscribed' = (subscribed \/ s # None)
           \/ /\ r.kind = "Put"
              /\ \E n \in Notification(s) : Answer(<<Call("PutDone")>> \o n)
              /\ subscribed' = TRUE
           \/ /\ r.kind = "Update"
              /\ IF s = None THEN Answer(<<Call("NotFound")>>)
                 ELSE \E n \in Notification(s) : Answer(n)
              /\ UNCHANGED subscribed
        /\ UNCHANGED <<channel, deferred, timers, mine, info, invitation, stored, troubles, lost>>

OthersChange(c) ==
    /\ contract # None /\ c \notin contract
    /\ contract' = contract \cup {c}
    /\ \E n \in Notification(contract \cup {c}) : Answer(n)
    /\ UNCHANGED <<channel, deferred, timers, mine, info, invitation, stored,
                   requests, subscribed, troubles, lost>>

(* The contract after several.  An update comes after the contract is there. *)
AppliedAll(s, calls) ==
    LET sent == {calls[i] : i \in {j \in DOMAIN calls : calls[j].kind \in {"Put", "Update"}}}
    IN  IF s = None /\ \A r \in sent : r.kind # "Put" THEN None
        ELSE Merged(s, UNION {r.state : r \in sent})

(* The error callback of the socket.  The node may have served any of the   *)
(* requests, but its answers are gone.                                      *)
Break ==
    /\ link /\ Trouble
    /\ link' = FALSE /\ connected' = FALSE /\ subscribed' = FALSE
    /\ Post("ConnectionLost")
    /\ requests' = <<>>
    /\ \E n \in 0..Len(requests) : contract' = AppliedAll(contract, SubSeq(requests, 1, n))
    /\ lost' = lost \cup Published(requests)
    /\ UNCHANGED <<api, deferred, timers, mine, info, invitation, stored>>

---------------------------------------------------------------------------

Handle ==
    \/ HandleProcessBoards \/ HandleAcceptInvitation
    \/ HandlePageBecameVisible \/ HandleRefreshAllBoards
    \/ HandleConnect \/ HandleConnectRefused \/ HandleConnectionLost
    \/ HandleLoaded \/ HandlePutDone \/ HandleSubscribeOk \/ HandleSubscribeFailed
    \/ HandleGotForInvite \/ HandleGot \/ HandleNotification \/ HandleNotFound

RunDeferred ==
    \/ RunMerge \/ RunRefresh \/ RunSubscribing \/ RunStatus \/ RunNewState
    \/ RunNewDelta \/ RunInvite \/ RunNeedsSync

User ==
    \/ \E c \in Own : MakeChange(c)
    \/ CreateBoard \/ AcceptInvitation \/ RetryOrDismiss \/ ReturnToPage

Next ==
    \/ Handle \/ RunDeferred \/ User \/ Fire \/ Age \/ Serve \/ Break
    \/ \E c \in Others : OthersChange(c)

Spec == Init /\ [][Next]_vars

(* The event loop runs what is due, time passes and the node answers.       *)
FairSpec ==
    /\ Spec
    /\ WF_vars(Handle) /\ WF_vars(RunDeferred)
    /\ WF_vars(Fire) /\ WF_vars(Age) /\ WF_vars(Serve)

---------------------------------------------------------------------------

TypeOK ==
    /\ {link, api, connected, aged, inviteAged, subscribed} \subseteq BOOLEAN
    /\ \A i \in DOMAIN queue : queue[i].kind \in Messages
    /\ \A i \in DOMAIN deferred : deferred[i].kind \in Closures
    /\ \A i \in DOMAIN requests : requests[i].kind \in Requests
    /\ timers \subseteq {"connect", "process", "check"}
    /\ {mine, baseline, stored, contract} \subseteq {None} \cup SUBSET Changes
    /\ connected => api
    /\ aged => status = "Subscribing"
    /\ inviteAged => invite = "Subscribing"
    /\ status \in Statuses /\ lost \subseteq Own
    /\ invite \in {"none", "Pending", "Subscribing", "Subscribed", "Error"}
    /\ troubles \in 0..MaxTroubles

Pending == Published(requests)

(* A change of the user that the contract does not have is on its way to it,  *)
(* was sent over a connection that was gone, or will be seen by the next      *)
(* process_boards: whatever update_board_state and needs_to_send_update do,   *)
(* the baseline of a subscribed board never has a change nobody has sent.     *)
ChangesNoticed ==
    mine # None /\ status = "Subscribed" =>
        \A c \in (mine \cap Own) \ (Merged(contract, {}) \cup Published(requests) \cup lost) :
            baseline = None \/ c \notin baseline

Idle == ~Underway /\ timers = {}

(* When nothing is left to be done, a client that is connected and subscribed *)
(* shows what the contract has: whatever it missed before it was subscribed,  *)
(* while a closure was due or away from the page, it has fetched.  With one   *)
(* trouble at most: a connection lost twice in a row may disable the newer    *)
(* one, and a GET that cannot be sent then is not sent again.                 *)
SeenWhenIdle ==
    Idle /\ connected /\ mine # None /\ subscribed /\ status # "Error"
        => contract \subseteq mine

(* Once the user and the others are done the client connects again and comes  *)
(* to rest: its timers, re-PUTs and refreshes end (for invitations see        *)
(* InvitationsSettle).                                                        *)
ComesToRest == <>[](connected /\ (Idle \/ invite # "none"))

(* The same with invitations, which are to be cleaned up once the board is    *)
(* subscribed to.                                                             *)
InvitationsSettle == <>[]Idle
=============================================================================
