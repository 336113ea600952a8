----------------------------- MODULE CliStream -----------------------------
(***************************************************************************)
(* Reading a public board with the command line client: `message list` and *)
(* `message stream` (cli/src/commands/message.rs), which streams by polling *)
(* (stream_messages of cli/src/api.rs) or by a subscription                *)
(* (subscribe_and_stream).                                                 *)
(*                                                                         *)
(* There is one connection to the node, and get_board takes whatever comes *)
(* first for the answer to its request.  An answer that comes after the    *)
(* time allowed for it stays in the socket.                                *)
(*                                                                         *)
(* A board drops a message only for its size or because its author is no   *)
(* member (MessagesV1::apply_delta): here the owner writes, within limits. *)
(***************************************************************************)
EXTENDS MessageActions, FiniteSets, Sequences

CONSTANTS
    Author,     \* who posts: the owner
    Commands    \* what may be asked for, with its bounds: see MCCliStream

ASSUME CommandsAssumption ==
    Commands \subseteq [mode : {"list", "poll", "subscribe"}, initial : Nat, max : Nat,
                        since : Nat, old : SUBSET Times, times : Nat, faults : Nat]

VARIABLES
    command,    \* its mode and its arguments initial (or limit), max, since;
                \* bounds: what is there before, times used, how many faults
    posted,     \* the messages on the board, by id
    requests,   \* sent and not answered yet
    socket,     \* what the node sent
    subscribed,
    pc,
    seen,       \* seen_messages
    shown,      \* what was written, in order
    count,      \* new_message_count
    news,       \* the delta in hand: its messages still to be looked at
    known,      \* history: ids in the first answer
    faults

remote == <<posted, subscribed>>
written == <<seen, shown, count>>
vars == <<command, posted, requests, socket, subscribed, pc, seen, shown, count, news, known,
          faults>>

Has(ids) == [t \in ids |-> posted[t]]

(* rebuild_actions_state, without permissions.                             *)
View(ids) == Rebuilt(Has(ids), ids, {})

Board == DOMAIN posted

Sorted(ids) ==
    [i \in 1..Cardinality(ids) |-> CHOOSE t \in ids : Cardinality({u \in ids : u < t}) = i - 1]
LastOf(seq, n) == SubSeq(seq, IF n < Len(seq) THEN Len(seq) - n + 1 ELSE 1, Len(seq))
Oldest(ids) == CHOOSE t \in ids : \A u \in ids : t <= u

(* gone: what the board had deleted when the node sent it.                 *)
Sent(kind, ids) == [kind |-> kind, ids |-> ids, gone |-> View(Board).deleted]
Bare(kind) == [kind |-> kind, ids |-> {}, gone |-> {}]

Init ==
    /\ command \in Commands
    /\ posted = [t \in command.old |-> Message("text", Author, 0, 0)]
    /\ requests = <<>> /\ socket = <<>> /\ subscribed = FALSE
    /\ pc = "start"
    /\ seen = {} /\ shown = <<>> /\ count = 0
    /\ news = Bare("delta") /\ known = {} /\ faults = 0

Fault == faults < command.faults /\ faults' = faults + 1

---------------------------------------------------------------------------
(* The node.                                                               *)

(* A message comes with the time of its author's clock, an action (here a   *)
(* deletion) after what it is about.  A subscriber gets the state or a      *)
(* delta, which may hold messages sent before.                             *)
(* Bound: nothing is posted before the command begins.                     *)
Post(kind, x, t) ==
    /\ pc # "start" /\ t \in Times \ DOMAIN posted /\ t <= command.times /\ x < t
    /\ x = 0 <=> kind = "text"
    /\ x # 0 => x \in Authored(posted)
    /\ posted' = [u \in DOMAIN posted \cup {t} |->
                    IF u = t THEN Message(kind, Author, x, 0) ELSE posted[u]]
    /\ IF subscribed
       THEN \E k \in {"delta", "state"}, ids \in {{t}, Board'} :
                /\ k = "state" => ids = Board'
                /\ socket' = Append(socket, Sent(k, ids)')
       ELSE UNCHANGED socket
    /\ UNCHANGED <<command, requests, subscribed, pc, written, news, known, faults>>

AnswerGet ==
    /\ requests # <<>> /\ Head(requests) = "get"
    /\ requests' = Tail(requests)
    /\ \/ socket' = Append(socket, Sent("get", Board)) /\ UNCHANGED faults
       \/ Fault /\ socket' = Append(socket, Bare("failed"))
    /\ UNCHANGED <<command, remote, pc, written, news, known>>

AnswerSubscribe ==
    /\ requests # <<>> /\ Head(requests) = "subscribe"
    /\ requests' = Tail(requests)
    /\ \/ subscribed' = TRUE /\ socket' = Append(socket, Bare("subscribed")) /\ UNCHANGED faults
       \/ Fault /\ socket' = Append(socket, Bare("refused")) /\ UNCHANGED subscribed
    /\ UNCHANGED <<command, posted, pc, written, news, known>>

---------------------------------------------------------------------------
(* get_board.                                                              *)

Ask(request) == requests' = Append(requests, request)

Received(kind) == socket # <<>> /\ Head(socket).kind = kind /\ socket' = Tail(socket)

Got == Received("get") /\ UNCHANGED faults

(* A notification, or the answer of the node that it has none, is consumed. *)
Failed ==
    \/ socket # <<>> /\ Head(socket).kind # "get" /\ socket' = Tail(socket) /\ UNCHANGED faults
    \/ socket = <<>> /\ Fault /\ UNCHANGED socket

---------------------------------------------------------------------------
(* What is written.                                                        *)

Line(t, how, gone) == [id |-> t, how |-> how, gone |-> t \in gone]
Lines(seq, how, gone) == [i \in DOMAIN seq |-> Line(seq[i], how, gone)]

Full(n) == command.max > 0 /\ n >= command.max

(* Deviation (PollingShowsAll): only what is later than all that was seen.  *)
ShowLater(ids, how, back) ==
    LET all == Sorted({t \in ids : \A u \in seen : u < t})
        room == command.max - count
        now == IF command.max > 0 /\ room < Len(all) THEN SubSeq(all, 1, room) ELSE all
    IN  /\ shown' = shown \o Lines(now, how, View(ids).deleted)
        /\ seen' = seen \cup {now[i] : i \in DOMAIN now}
        /\ count' = count + Len(now)
        /\ pc' = IF Full(count') THEN "done" ELSE back

(* Messages that were not seen, actions and deleted ones with them, until   *)
(* there are enough.                                                       *)
ShowNew(ids, how, back) ==
    LET all == Sorted(ids \ seen)
        room == command.max - count
        now == IF command.max > 0 /\ room < Len(all) THEN SubSeq(all, 1, room) ELSE all
    IN  /\ shown' = shown \o Lines(now, how, View(ids).deleted)
        /\ seen' = seen \cup {now[i] : i \in DOMAIN now}
        /\ count' = count + Len(now)
        /\ pc' = IF Full(count') THEN "done" ELSE back

Display(ids) == Sorted(Displayed(Has(ids), View(ids)))

---------------------------------------------------------------------------
(* The commands.                                                           *)

Begin ==
    /\ pc = "start"
    /\ IF command.mode = "poll" /\ command.initial = 0
       THEN pc' = "poll" /\ UNCHANGED requests
       ELSE pc' = "first" /\ Ask("get")
    /\ UNCHANGED <<command, remote, socket, written, news, known, faults>>

(* message list.                                                           *)
List ==
    LET got == Head(socket)
        recent == {t \in Displayed(Has(got.ids), View(got.ids)) : t >= command.since}
    IN
    /\ command.mode = "list" /\ pc = "first" /\ Got
    /\ shown' = Lines(LastOf(Sorted(recent), command.initial), "first", got.gone)
    /\ known' = got.ids
    /\ pc' = "done"
    /\ UNCHANGED <<command, remote, requests, seen, count, news>>

(* Deviation (ShownOnce): what is written first is not seen.                *)
PollFirstUnseen ==
    LET got == Head(socket) IN
    /\ command.mode = "poll" /\ pc = "first" /\ Got
    /\ shown' = Lines(LastOf(Sorted(got.ids), command.initial), "first", got.gone)
    /\ known' = got.ids
    /\ pc' = "poll"
    /\ UNCHANGED <<command, remote, requests, seen, count, news>>

(* The last of all messages, and only those are seen.                      *)
PollFirst ==
    LET got == Head(socket)
        last == LastOf(Sorted(got.ids), command.initial)
    IN
    /\ command.mode = "poll" /\ pc = "first" /\ Got
    /\ shown' = Lines(last, "first", got.gone)
    /\ seen' = {last[i] : i \in DOMAIN last}
    /\ known' = got.ids
    /\ pc' = "poll"
    /\ UNCHANGED <<command, remote, requests, count, news>>

(* Deviation (OldStaysOld): deleted messages are not seen.                  *)
SubscribeFirstDisplayed ==
    LET got == Head(socket)
        last == Display(got.ids)
    IN
    /\ command.mode = "subscribe" /\ pc = "first" /\ Got
    /\ seen' = {last[i] : i \in DOMAIN last}
    /\ shown' = Lines(LastOf(last, command.initial), "first", got.gone)
    /\ known' = got.ids
    /\ pc' = "subscribing" /\ Ask("subscribe")
    /\ UNCHANGED <<command, remote, count, news>>

(* What is there is seen, the last messages on display are written.        *)
SubscribeFirst ==
    LET got == Head(socket) IN
    /\ command.mode = "subscribe" /\ pc = "first" /\ Got
    /\ seen' = Authored(Has(got.ids))
    /\ shown' = Lines(LastOf(Display(got.ids), command.initial), "first", got.gone)
    /\ known' = got.ids
    /\ pc' = "subscribing" /\ Ask("subscribe")
    /\ UNCHANGED <<command, remote, count, news>>

FirstFails ==
    /\ pc = "first" /\ Failed
    /\ pc' = "done"
    /\ UNCHANGED <<command, remote, requests, written, news, known>>

Poll ==
    /\ pc = "poll" /\ pc' = "polling" /\ Ask("get")
    /\ UNCHANGED <<command, remote, socket, written, news, known, faults>>

Polled ==
    /\ pc = "polling"
    /\ \/ Got /\ ShowNew(Head(socket).ids, "new", "poll")
       \/ Failed /\ pc' = "poll" /\ UNCHANGED written
    /\ UNCHANGED <<command, remote, requests, news, known>>

(* Anything but the consent of the node ends the command.                   *)
Subscribe ==
    /\ pc = "subscribing"
    /\ \/ Received("subscribed") /\ pc' = "listen" /\ UNCHANGED faults
       \/ /\ socket # <<>> /\ Head(socket).kind # "subscribed"
          /\ socket' = Tail(socket) /\ pc' = "done" /\ UNCHANGED faults
       \/ socket = <<>> /\ Fault /\ pc' = "done" /\ UNCHANGED socket
    /\ UNCHANGED <<command, remote, requests, written, news, known>>

ListenDelta ==
    /\ pc = "listen" /\ Received("delta")
    /\ news' = Head(socket) /\ pc' = "handling"
    /\ UNCHANGED <<command, remote, requests, written, known, faults>>

ListenState ==
    /\ pc = "listen" /\ Received("state")
    /\ ShowNew(Head(socket).ids, "state", "listen")
    /\ UNCHANGED <<command, remote, requests, news, known, faults>>

(* A late answer is dropped, a late refusal ends the command.               *)
ListenLate ==
    /\ pc = "listen"
    /\ \/ Received("get") /\ UNCHANGED pc
       \/ Received("failed") /\ pc' = "done"
    /\ UNCHANGED <<command, remote, requests, written, news, known, faults>>

(* A message not seen yet is fetched with the board it belongs to.          *)
Handle ==
    LET left == news.ids \ seen IN
    /\ pc = "handling"
    /\ news' = [news EXCEPT !.ids = left]
    /\ IF left = {} THEN pc' = "listen" /\ UNCHANGED <<seen, requests>>
       ELSE pc' = "fetching" /\ seen' = seen \cup {Oldest(left)} /\ Ask("get")
    /\ UNCHANGED <<command, remote, socket, shown, count, known, faults>>

(* Deviation (NoPhantoms): deleted messages are not skipped.                *)
FetchedAny ==
    LET t == Oldest(news.ids) IN
    /\ pc = "fetching"
    /\ news' = [news EXCEPT !.ids = @ \ {t}]
    /\ \/ Got /\ shown' = Append(shown, Line(t, "delta", news.gone))
          /\ count' = count + 1 /\ UNCHANGED seen
       \/ Failed /\ seen' = seen \ {t} /\ UNCHANGED <<shown, count>>
    /\ pc' = IF Full(count') THEN "done" ELSE "handling"
    /\ UNCHANGED <<command, remote, requests, known>>

(* Deviation (TypeOK): deleted messages count.                              *)
FetchedCounting ==
    LET t == Oldest(news.ids)
        deleted == View(Head(socket).ids).deleted
    IN
    /\ pc = "fetching"
    /\ news' = [news EXCEPT !.ids = @ \ {t}]
    /\ \/ Got /\ count' = count + 1 /\ UNCHANGED seen
          /\ shown' = IF t \in deleted THEN shown ELSE Append(shown, Line(t, "delta", news.gone))
       \/ Failed /\ seen' = seen \ {t} /\ UNCHANGED <<shown, count>>
    /\ pc' = IF Full(count') THEN "done" ELSE "handling"
    /\ UNCHANGED <<command, remote, requests, known>>

Fetched ==
    LET t == Oldest(news.ids)
        deleted == View(Head(socket).ids).deleted
    IN
    /\ pc = "fetching"
    /\ news' = [news EXCEPT !.ids = @ \ {t}]
    /\ \/ Got /\ t \notin deleted
          /\ shown' = Append(shown, Line(t, "delta", news.gone))
          /\ count' = count + 1 /\ UNCHANGED seen
       \/ Got /\ t \in deleted /\ UNCHANGED written
       \/ Failed /\ seen' = seen \ {t} /\ UNCHANGED <<shown, count>>
    /\ pc' = IF Full(count') THEN "done" ELSE "handling"
    /\ UNCHANGED <<command, remote, requests, known>>

(* Ctrl+C and --timeout.                                                   *)
Stop ==
    /\ pc \in {"poll", "listen"} /\ pc' = "done"
    /\ UNCHANGED <<command, remote, requests, socket, written, news, known, faults>>

Client ==
    \/ Begin \/ List \/ PollFirst \/ SubscribeFirst \/ FirstFails
    \/ Poll \/ Polled \/ Subscribe
    \/ ListenDelta \/ ListenState \/ ListenLate \/ Handle \/ Fetched

Next ==
    \/ \E kind \in {"text", "delete"}, x \in {0} \cup Times, t \in Times : Post(kind, x, t)
    \/ AnswerGet \/ AnswerSubscribe
    \/ Client \/ Stop

Spec == Init /\ [][Next]_vars

(* The node answers, and the client runs until it is stopped.               *)
FairSpec == Spec /\ WF_vars(AnswerGet) /\ WF_vars(AnswerSubscribe) /\ WF_vars(Client)

---------------------------------------------------------------------------
(* Properties.                                                             *)

Messages == {"get", "subscribed", "refused", "failed", "delta", "state"}

(* Every message read from the socket, and every line written, is of a     *)
(* message posted, and each request has at most one answer to come.        *)
TypeOK ==
    /\ Board \subseteq Times
    /\ \A i \in DOMAIN socket :
        socket[i].kind \in Messages /\ socket[i].ids \subseteq Board
    /\ pc \in {"start", "first", "poll", "polling", "subscribing", "listen", "handling",
               "fetching", "done"}
    /\ seen \subseteq Board /\ news.ids \subseteq Board
    /\ pc = "fetching" => news.ids # {}
    /\ \A i \in DOMAIN shown : shown[i].id \in Board
    /\ count = Cardinality({i \in DOMAIN shown : shown[i].how # "first"})
    /\ pc \in {"first", "polling", "fetching"} =>
        Len(requests) + Cardinality({i \in DOMAIN socket : socket[i].kind \in {"get", "failed"}}) > 0

(* No message is written twice, whatever is delivered again, answered late  *)
(* or fetched again after a failure (seen_messages).                       *)
ShownOnce ==
    \A i, j \in DOMAIN shown : shown[i].id = shown[j].id => i = j

(* What was on the board when a subscription began is not written as new,   *)
(* though it may be deleted by then or come again with any notification    *)
(* ("not mistakenly shown as new", subscribe_and_stream).                  *)
OldStaysOld ==
    command.mode = "subscribe" =>
        \A i \in DOMAIN shown :
            shown[i].id \in Authored(Has(known)) => shown[i].how = "first"

(* A message that was deleted when the node sent the delta with it, or the  *)
(* answer it was listed from, is not written ("Skip deleted messages"): an *)
(* answer taken for another is never older than the delta.                 *)
NoPhantoms ==
    \A i \in DOMAIN shown :
        shown[i].gone => shown[i].how = "state" \/ command.mode = "poll"

(* While it polls, every message on the board is written sooner or later,   *)
(* wherever its author's clock puts it among the others, however many      *)
(* there are and however late the answers come.                            *)
PollingShowsAll ==
    \A t \in Times :
        (command.mode = "poll" /\ t \in Board) ~>
            (pc = "done" \/ \E i \in DOMAIN shown : shown[i].id = t)
=============================================================================
