---------------------------- MODULE Conversation ----------------------------
(***************************************************************************)
(* The conversation of one board in the web client: what the user does     *)
(* with messages (ui/src/util/message_actions.rs, messaging.rs), what      *)
(* arrives from others (the handlers of app/freenet_api/), what is shown   *)
(* (conversation.rs, posts_view.rs) and how the user's attention is asked  *)
(* for: read marks and title (app/document_title.rs), notifications        *)
(* (app/notifications.rs) and receive times (app/receive_times.rs).        *)
(*                                                                         *)
(* A message takes a free place in the order of messages: the clocks of    *)
(* other users may be off in either direction, the user's own only goes    *)
(* forward.  Everyone is a member, and messages keep the limits of the     *)
(* board: BoardReplicas is about both.                                     *)
(***************************************************************************)
EXTENDS MessageActions, FiniteSets, Sequences

CONSTANTS
    Self, Other,    \* the user of this client and another one
    Emojis,
    Privileged,     \* the owner and the admins
    Workloads       \* bounds: what is looked at together, see MCConversation

ASSUME UsersAssumption == Self # Other /\ Privileged \subseteq {Self, Other}
ASSUME WorkloadsAssumption ==
    \A w \in Workloads : w.permissions \subseteq {"default", "granted", "denied"}

VARIABLES
    workload,   \* the one in force
    posted,     \* the messages there are, by id
    tasks,      \* actions of the user whose signatures are awaited
    overlapped, \* history: messages two reactions were under way for at once
    board,      \* "absent" from BOARDS, "present", or "synced"
                \* (INITIAL_SYNC_COMPLETE)
    held,       \* ids of the messages the client has
    view,       \* its actions_state
    timed,      \* ids with a receive time
    here,       \* it is the current board
    visible,    \* DOCUMENT_VISIBLE
    focused,
    lastRead,   \* last_read_message_id, 0 for none
    title,      \* the number of unread messages it tells, 0 for none
    due,        \* the effect of DocumentTitleUpdater is
    permission, \* to notify
    asking,     \* ids notifications wait for the permission with
    announced,  \* ids the user was notified of
    unseen,     \* history: ids that came above the read mark, after the sync
                \* had begun, and that no visible page of the board had
    switches    \* how often the user has looked elsewhere or back

conversation == <<posted, tasks, overlapped>>
content == <<board, held, view, timed>>
attention == <<here, visible, focused, switches>>
marks == <<lastRead, title, due>>
notices == <<permission, asking, announced>>
vars == <<workload, conversation, content, attention, marks, notices, unseen>>

Only(msgs, ids) == [t \in ids |-> msgs[t]]
One(t, m) == [s \in {t} |-> m]

(* A message is not taken twice.                                           *)
Added(msgs, more) ==
    [t \in DOMAIN msgs \cup DOMAIN more |-> IF t \in DOMAIN msgs THEN msgs[t] ELSE more[t]]

(* After an update from outside: a private board is rebuilt with what can  *)
(* be decrypted, and only then with the permissions of owner and admins.   *)
RebuiltView(msgs, ids) ==
    IF workload.private
    THEN Rebuilt(Only(msgs, ids), IF workload.secret THEN ids ELSE {}, Privileged)
    ELSE Rebuilt(Only(msgs, ids), ids, {})

(* After a change of the user's own, apply_delta alone: public actions.    *)
LocalView(msgs, ids) == Rebuilt(Only(msgs, ids), IF workload.private THEN {} ELSE ids, {})

Shown(msgs, ids, v) == Displayed(Only(msgs, ids), v)
OnDisplay == Shown(posted, held, view)

Unread(msgs, ids, v, mark) ==
    LET shown == Shown(msgs, ids, v) IN
    IF mark # 0 /\ mark \notin shown THEN 0
    ELSE Cardinality({t \in shown : mark < t /\ msgs[t].author # Self})

(* update_document_title: a page that is visible has the bare name.        *)
Told(looking, msgs, ids, v, mark) == IF looking THEN 0 ELSE Unread(msgs, ids, v, mark)

(* mark_current_board_as_read.                                             *)
Marked(shown) ==
    IF ~here \/ shown = {} THEN lastRead ELSE CHOOSE t \in shown : \A u \in shown : u <= t

Init ==
    /\ workload \in Workloads
    /\ posted = <<>> /\ tasks = {} /\ overlapped = {}
    /\ board \in {"absent", "present"} /\ held = {} /\ view = Nothing /\ timed = {}
    /\ here = TRUE /\ visible = TRUE /\ focused = TRUE /\ switches = 0
    /\ lastRead = 0 /\ title = 0 /\ due = FALSE
    /\ permission \in workload.permissions
    /\ asking = {} /\ announced = {} /\ unseen = {}

---------------------------------------------------------------------------
(* Others, and the user in an earlier session.  What the contract accepts  *)
(* is not checked by anyone: the command line client sends any action.     *)

Free == {t \in Times : t <= workload.times} \ (DOMAIN posted \cup UNION {DOMAIN k.signed : k \in tasks})

Targets(kind, msgs) ==
    CASE kind = "text" -> {0}
      [] kind = "category" -> {0} \cup Categories(msgs)
      [] OTHER -> Authored(msgs)

Post(u, kind, t) ==
    /\ kind \in workload.theirs /\ t \in Free
    /\ u = Self => board = "absent" /\ kind \notin ActionKinds
    /\ kind = "category" => u \in Privileged
    /\ \E x \in Targets(kind, posted), e \in (IF kind \in {"reaction", "remove"} THEN Emojis ELSE {0}) :
        posted' = Added(posted, One(t, Message(kind, u, x, e)))
    /\ UNCHANGED <<workload, tasks, overlapped, content, attention, marks, notices, unseen>>

---------------------------------------------------------------------------
(* What arrives.                                                           *)

(* Bound: what the client has comes again only where the user may look     *)
(* elsewhere; it makes no difference to what is shown.                     *)
Deliveries == SUBSET (IF workload.switches > 0 THEN DOMAIN posted ELSE DOMAIN posted \ held)

Watched == visible /\ focused /\ here

(* notify_new_messages: own messages and the board being looked at are     *)
(* left out, actions and messages the client has are not.                  *)
Notify(ids) ==
    LET from == {t \in ids : posted[t].author # Self} IN
    IF Watched \/ permission = "denied" THEN UNCHANGED <<asking, announced>>
    ELSE IF permission = "default" THEN asking' = asking \cup from /\ UNCHANGED announced
    ELSE announced' = announced \cup from /\ UNCHANGED asking

(* record_receive_times: the first time is kept.                           *)
Timed(ids) == timed' = timed \cup ids

Quiet == UNCHANGED <<asking, announced>>

Mark(looking, ids, v, mark) ==
    /\ lastRead' = mark
    /\ title' = Told(looking, posted, ids, v, mark)
    /\ due' = TRUE

Looking == visible /\ here
Seen(looking, ids) == unseen' = IF looking THEN {} ELSE unseen \cup ids
New(ids) == {t \in ids \ held : lastRead < t}

(* The boards the delegate had stored, after each connection.  The current *)
(* board counts as read, whether or not the page is visible.               *)
Load(ids) ==
    LET now == held \cup ids IN
    /\ board' = "synced"
    /\ held' = now /\ view' = RebuiltView(posted, now)
    /\ Mark(visible, now, view', Marked(Shown(posted, now, view')))
    /\ Seen(here, {})
    /\ UNCHANGED <<workload, conversation, timed, attention, notices>>

(* Deviation (NothingSlipsBy): the current board is marked as read.         *)
ReceiveDeltaAsRead(ids) ==
    LET now == held \cup ids IN
    /\ board # "absent" /\ ids # {}
    /\ held' = now /\ view' = RebuiltView(posted, now)
    /\ Timed(ids)
    /\ IF board = "synced" THEN Notify(ids) /\ Seen(Looking, New(ids))
       ELSE Quiet /\ Seen(Looking, {})
    /\ Mark(visible, now, view', Marked(Shown(posted, now, view')))
    /\ UNCHANGED <<workload, conversation, board, attention, permission>>

ReceiveDelta(ids) ==
    LET now == held \cup ids IN
    /\ board # "absent" /\ ids # {}
    /\ held' = now /\ view' = RebuiltView(posted, now)
    /\ Timed(ids)
    /\ IF board = "synced" THEN Notify(ids) /\ Seen(Looking, New(ids))
       ELSE Quiet /\ Seen(Looking, {})
    /\ Mark(visible, now, view', IF visible THEN Marked(Shown(posted, now, view')) ELSE lastRead)
    /\ UNCHANGED <<workload, conversation, board, attention, permission>>

(* The first state completes the sync before its messages are announced,   *)
(* but gives them no receive times.                                        *)
ReceiveState(ids) ==
    LET now == held \cup ids
        new == ids \ held
    IN
    /\ board # "absent" /\ board' = "synced"
    /\ held' = now /\ view' = RebuiltView(posted, now)
    /\ Timed(IF board = "synced" THEN new ELSE {})
    /\ Notify(new)
    /\ Seen(Looking, New(ids))
    /\ Mark(visible, now, view', IF visible /\ new # {} THEN Marked(Shown(posted, now, view')) ELSE lastRead)
    /\ UNCHANGED <<workload, conversation, attention, permission>>

---------------------------------------------------------------------------
(* What the user does.  A task is a list of messages, stamped and signed   *)
(* one after the other, and applied together.                              *)

Stamped == (UNION {DOMAIN k.signed : k \in tasks}) \cup {t \in DOMAIN posted : posted[t].author = Self}

NextStamp(t) == t \in Free /\ \A s \in Stamped : s < t

Begin(msgs, x) ==
    /\ board # "absent" /\ here
    /\ Cardinality(tasks) < 2
    /\ \E t \in Free :
        /\ NextStamp(t)
        /\ tasks' = tasks \cup {[signed |-> One(t, Head(msgs)), rest |-> Tail(msgs), about |-> x]}

(* Without the secret of a private board nothing is begun.                 *)
CanSeal == ~workload.private \/ workload.secret

(* The first of the user's reactions that is found is the existing one.    *)
Existing(x) == {r[2] : r \in {s \in view.reactions : s[1] = x /\ s[3] = Self}}

(* Deviation (OneReactionEach): the earlier reaction stays.                 *)
ToggleOneReaction(x, e) ==
    LET kind == IF e \in Existing(x) THEN "remove" ELSE "reaction" IN
    /\ "reaction" \in workload.own /\ CanSeal
    /\ x \in OnDisplay /\ posted[x].kind # "category"
    /\ Begin(<<Message(kind, Self, x, e)>>, x)
    /\ overlapped' = IF \E k \in tasks : k.about = x THEN overlapped \cup {x} ELSE overlapped
    /\ UNCHANGED <<workload, posted, content, attention, marks, notices, unseen>>

ToggleReaction(x, e) ==
    LET React1(emoji) == Message("reaction", Self, x, emoji)
        Remove(emoji) == Message("remove", Self, x, emoji)
    IN
    /\ "reaction" \in workload.own /\ CanSeal
    /\ x \in OnDisplay /\ posted[x].kind # "category"
    /\ \/ Existing(x) = {} /\ Begin(<<React1(e)>>, x)
       \/ \E old \in Existing(x) :
            Begin(IF old = e THEN <<Remove(e)>> ELSE <<Remove(old), React1(e)>>, x)
    /\ overlapped' = IF \E k \in tasks : k.about = x THEN overlapped \cup {x} ELSE overlapped
    /\ UNCHANGED <<workload, posted, content, attention, marks, notices, unseen>>

(* Owner and admins are offered to change the categories of others, too.   *)
CategoryOffers(x) ==
    IF posted[x].author = Self \/ Self \in Privileged THEN {"delete", "editcategory"} ELSE {}

CardOffers(x) == IF posted[x].author = Self THEN {"delete", "edit"} ELSE {}

Change(kind, x) ==
    /\ kind \in workload.own /\ (CanSeal \/ kind = "editcategory")
    /\ x \in OnDisplay
    /\ kind \in (IF posted[x].kind = "category" THEN CategoryOffers(x) ELSE CardOffers(x))
    /\ Begin(<<Message(kind, Self, x, 0)>>, x)
    /\ UNCHANGED <<workload, posted, overlapped, content, attention, marks, notices, unseen>>

Send(kind, x) ==
    /\ kind \in {"text", "reply", "category"} \cap workload.own
    /\ kind = "category" => Self \in Privileged
    /\ \/ x = 0 /\ kind # "reply"
       \/ x \in OnDisplay /\ (kind = "reply" \/ (kind = "category" /\ posted[x].kind = "category"))
    /\ Begin(<<Message(kind, Self, x, 0)>>, x)
    /\ UNCHANGED <<workload, posted, overlapped, content, attention, marks, notices, unseen>>

(* The next message of a task is stamped when the one before is signed.    *)
Sign(k, t) ==
    /\ k.rest # <<>> /\ NextStamp(t)
    /\ tasks' = (tasks \ {k}) \cup
          {[k EXCEPT !.signed = Added(@, One(t, Head(k.rest))), !.rest = Tail(@)]}
    /\ UNCHANGED <<workload, posted, overlapped, content, attention, marks, notices, unseen>>

(* apply_delta refuses what is public on a private board: categories and   *)
(* what was composed without the secret.                                   *)
Refused(k) ==
    workload.private /\ (~workload.secret \/ \E t \in DOMAIN k.signed : k.signed[t].kind = "category")

(* Deviation (TypeOK): a task is applied once more.                         *)
ApplyAgain(k) ==
    /\ k.rest = <<>> /\ ~Refused(k)
    /\ posted' = Added(posted, k.signed)
    /\ held' = held \cup DOMAIN k.signed
    /\ view' = LocalView(posted', held')
    /\ due' = TRUE
    /\ UNCHANGED <<workload, tasks, overlapped, board, timed, attention, lastRead, title, notices,
                   unseen>>

(* The contract gets it later (BoardSync): from here it may reach anyone.   *)
Apply(k) ==
    /\ k.rest = <<>>
    /\ tasks' = tasks \ {k}
    /\ IF Refused(k) THEN UNCHANGED <<posted, held, view, due>>
       ELSE /\ posted' = Added(posted, k.signed)
            /\ held' = held \cup DOMAIN k.signed
            /\ view' = LocalView(posted', held')
            /\ due' = TRUE
    /\ UNCHANGED <<workload, overlapped, board, timed, attention, lastRead, title, notices, unseen>>

---------------------------------------------------------------------------
(* Where the user looks.                                                   *)

Switch == switches < workload.switches /\ switches' = switches + 1

(* on_visibility_change.                                                   *)
SwitchTab ==
    /\ Switch /\ visible' = ~visible
    /\ Mark(visible', held, view, IF visible' THEN Marked(OnDisplay) ELSE lastRead)
    /\ Seen(visible' /\ here, {})
    /\ UNCHANGED <<workload, conversation, content, here, focused, notices>>

SwitchFocus ==
    /\ Switch /\ focused' = ~focused
    /\ UNCHANGED <<workload, conversation, content, here, visible, marks, notices, unseen>>

SwitchBoard ==
    /\ Switch /\ here' = ~here /\ due' = TRUE
    /\ Seen(visible /\ here', {})
    /\ UNCHANGED <<workload, conversation, content, visible, focused, lastRead, title, notices>>

ClickNotification ==
    /\ announced # {}
    /\ here' = TRUE /\ focused' = TRUE /\ due' = TRUE
    /\ Seen(visible, {})
    /\ UNCHANGED <<workload, conversation, content, visible, switches, lastRead, title, notices>>

(* The prompt of the browser, or its settings.                             *)
AnswerPrompt ==
    /\ permission = "default"
    /\ permission' \in {"default", "granted", "denied"}
    /\ announced' = IF permission' = "granted" THEN announced \cup asking ELSE announced
    /\ asking' = {}
    /\ UNCHANGED <<workload, conversation, content, attention, marks, unseen>>

(* Deviation (ReadWhenWatched): the title is all that is updated.           *)
RunTitleOnly ==
    /\ due
    /\ title' = Told(visible, posted, held, view, lastRead)
    /\ due' = FALSE
    /\ UNCHANGED <<workload, conversation, content, attention, lastRead, notices, unseen>>

(* The effect runs again after a change of boards, current board or         *)
(* visibility, its own included.                                            *)
RunTitleUpdater ==
    LET mark == IF visible THEN Marked(OnDisplay) ELSE lastRead IN
    /\ due
    /\ lastRead' = mark
    /\ title' = Told(visible, posted, held, view, mark)
    /\ due' = (mark # lastRead)
    /\ UNCHANGED <<workload, conversation, content, attention, notices, unseen>>

---------------------------------------------------------------------------

Click ==
    \E x \in held \cup {0} :
        \/ \E e \in Emojis : ToggleReaction(x, e)
        \/ \E kind \in Kinds : Change(kind, x) \/ Send(kind, x)

Look == SwitchTab \/ SwitchFocus \/ SwitchBoard \/ ClickNotification \/ AnswerPrompt

Next ==
    \/ \E u \in {Self, Other}, kind \in Kinds, t \in Times : Post(u, kind, t)
    \/ \E ids \in Deliveries : Load(ids) \/ ReceiveDelta(ids) \/ ReceiveState(ids)
    \/ Click
    \/ \E k \in tasks : Apply(k) \/ \E t \in Times : Sign(k, t)
    \/ Look
    \/ RunTitleUpdater

Spec == Init /\ [][Next]_vars

(* The runtime runs an effect that is due.                                 *)
FairSpec == Spec /\ WF_vars(RunTitleUpdater)

---------------------------------------------------------------------------
(* The pages: the front page or that of a category shows subcategories and *)
(* posts, that of a post the tree of its replies.                          *)

(* What a reply answers is known when it can be read.                      *)
RepliesTo(x) ==
    IF posted[x].kind # "reply" \/ (workload.private /\ ~workload.secret) THEN 0
    ELSE posted[x].target

TopLevel ==
    {x \in OnDisplay : IF posted[x].kind = "category" THEN posted[x].target = 0 ELSE RepliesTo(x) = 0}

InCategory(x) ==
    {y \in OnDisplay : IF posted[y].kind = "category" THEN posted[y].target = x ELSE RepliesTo(y) = x}

Answers(x) == {y \in OnDisplay : posted[y].kind # "category" /\ RepliesTo(y) = x}

(* Deviation (MessagesFindable): a category has posts only.                 *)
BelowPosts(x) == Answers(x)

Below(x) == IF posted[x].kind = "category" THEN InCategory(x) ELSE Answers(x)

Found ==
    LET within[n \in 0..MaxTime] ==
          IF n = 0 THEN TopLevel ELSE within[n - 1] \cup UNION {Below(x) : x \in within[n - 1]}
    IN  within[MaxTime]

---------------------------------------------------------------------------

TypeOK ==
    /\ DOMAIN posted \subseteq Times
    /\ \A t \in DOMAIN posted : posted[t].kind \in Kinds /\ posted[t].author \in {Self, Other}
    /\ held \subseteq DOMAIN posted /\ timed \subseteq held /\ unseen \subseteq held
    /\ \A k, l \in tasks : DOMAIN k.signed \cap DOMAIN posted = {} /\
          (k # l => DOMAIN k.signed \cap DOMAIN l.signed = {})
    /\ board \in {"absent", "present", "synced"} /\ (board = "absent" => held = {})
    /\ {here, visible, focused, due} \subseteq BOOLEAN
    /\ lastRead \in held \cup {0} /\ title \in 0..MaxTime
    /\ permission \in {"default", "granted", "denied"} /\ asking \cup announced \subseteq held

(* In whatever order messages arrive, late ones before ones already folded,  *)
(* and in whatever order the user's own are applied, what a public board     *)
(* shows is what its messages mean; a private one shows that or, after a     *)
(* message of the user's own, no edit, deletion or reaction at all           *)
(* (rebuild_actions_state and its callers).                                  *)
ViewIsMeaning ==
    LET msgs == Only(posted, held) IN
    IF workload.private
    THEN view \in {Nothing, Meaning(msgs, IF workload.secret THEN held ELSE {}, Privileged)}
    ELSE view = Meaning(msgs, held, {})

(* A reaction replaces the user's earlier one to the same message, although  *)
(* the two messages this takes are stamped and signed one by one while the   *)
(* user goes on (toggle_reaction): there are two only if the reactions were  *)
(* under way at once.  On a public board: on a private one the earlier one   *)
(* may not be known.                                                         *)
OneReactionEach ==
    ~workload.private => \A x \in held \ overlapped : Cardinality(Existing(x)) <= 1

(* On a public board what was deleted never shows again, and an edit gives   *)
(* way only to a later one or to the deletion, however late messages come.   *)
NothingComesBack ==
    [][~workload.private =>
        /\ view.deleted \subseteq view'.deleted
        /\ \A e \in view.edited \cup view.categories :
            \/ e[1] \in view'.deleted
            \/ \E f \in view'.edited \cup view'.categories : f[1] = e[1] /\ e[2] <= f[2]]_vars

(* A message that is shown can be found from the front page, through         *)
(* categories and the posts it answers, if these are shown themselves.       *)
MessagesFindable ==
    LET Rooted[x \in Times] ==
          x \in OnDisplay /\ (posted[x].target = 0 \/ Rooted[posted[x].target])
    IN  \A x \in OnDisplay : Rooted[x] => x \in Found

(* A message of another user that came above the read mark and has not been  *)
(* on a visible page is not marked as read; while the tab is hidden the      *)
(* title counts it once the effect has run, unless the message read last is  *)
(* gone; and the user was notified of it if notifications are permitted:     *)
(* whichever of the handlers brought it, and whatever it raced with.         *)
NothingSlipsBy ==
    LET waiting == {t \in unseen \cap OnDisplay : posted[t].author = Other} IN
    /\ \A t \in waiting : lastRead < t
    /\ ~due /\ ~visible /\ lastRead \in OnDisplay \cup {0} => Cardinality(waiting) <= title
    /\ workload.permissions = {"granted"} => waiting \subseteq announced

(* What is on the page the user looks at does not stay unread.               *)
ReadWhenWatched ==
    Looking ~> (Unread(posted, held, view, lastRead) = 0 \/ ~Looking)
=============================================================================
