-------------------------- MODULE BoardSyncProofs --------------------------
(***************************************************************************)
(* What the web client knows of the changes on its board, for any changes   *)
(* and any number of troubles.                                             *)
(*                                                                         *)
(* The baseline of the board, with which needs_to_send_update compares it,  *)
(* holds no own change but those that were sent or that the contract has.  *)
(* It is set to what is just being sent, or to a state the node sent: and   *)
(* the contract has had that, and forgets nothing.                         *)
(***************************************************************************)
EXTENDS BoardSync, SequenceTheorems, TLAPS

Stored == {None} \cup SUBSET Changes

(* Notes of these kinds carry a state.                                     *)
Carriers == {"Merge", "Refresh", "NewState", "NewDelta", "Got", "Put", "Update"}
Notes(kinds) == {n \in [kind : kinds, state : Stored] : n.kind \in Carriers => n.state # None}

Elements(s) == {s[i] : i \in DOMAIN s}

Queues ==
    /\ queue \in Seq(Notes(Messages))
    /\ deferred \in Seq(Notes(Closures))
    /\ requests \in Seq(Notes(Requests))

Copies ==
    /\ mine \in Stored /\ baseline \in Stored /\ stored \in Stored /\ contract \in Stored
    /\ lost \subseteq Own

Standing ==
    /\ link \in BOOLEAN /\ api \in BOOLEAN /\ connected \in BOOLEAN /\ subscribed \in BOOLEAN
    /\ connected => api
    /\ timers \subseteq {"connect", "process", "check"}
    /\ troubles \in 0..MaxTroubles

(* Of the board and of the invitation to it.                               *)
Progress ==
    /\ status \in Statuses /\ aged \in BOOLEAN
    /\ aged => status = "Subscribing"
    /\ invite \in {"none", "Pending", "Subscribing", "Subscribed", "Error"} /\ inviteAged \in BOOLEAN
    /\ inviteAged => invite = "Subscribing"

Types == Queues /\ Copies /\ Standing /\ Progress

(* What some notes tell of the contract c, when it was made and since.      *)
Backed(n, c) ==
    /\ n.kind \in {"PutDone", "SubscribeOk", "Got", "NewState", "Subscribed", "Update"} => c # None
    /\ n.kind = "NewState" => n.state \subseteq c

Heard ==
    /\ \A n \in Elements(queue) : Backed(n, contract)
    /\ \A n \in Elements(deferred) : Backed(n, contract)
    /\ \A n \in Elements(requests) : Backed(n, contract)
    /\ status = "Subscribed" => contract # None

Publishing(calls) ==
    {c \in Own : \E n \in Elements(calls) : n.kind \in {"Put", "Update"} /\ c \in n.state}

Basis ==
    baseline # None =>
        \A c \in Own : c \in baseline =>
            c \in lost \/ c \in Publishing(requests) \/ (contract # None /\ c \in contract)

IInv == Types /\ Heard /\ Basis

---------------------------------------------------------------------------
(* Sequences of notes.                                                     *)

LEMMA Popped ==
    ASSUME NEW S, NEW s \in Seq(S), s # <<>>
    PROVE  /\ Head(s) \in S /\ Tail(s) \in Seq(S)
           /\ Elements(s) = {Head(s)} \cup Elements(Tail(s))
  <1>1. /\ Tail(s) \in Seq(S) /\ Len(Tail(s)) = Len(s) - 1 /\ Head(s) \in S
        /\ \A i \in 1..Len(Tail(s)) : Tail(s)[i] = s[i + 1]
    BY HeadTailProperties
  <1>2. Len(s) \in Nat \ {0} /\ DOMAIN s = 1..Len(s) /\ DOMAIN Tail(s) = 1..(Len(s) - 1)
    BY <1>1, EmptySeq, LenProperties
  <1>3. Head(s) = s[1]
    BY <1>2
  <1>6. \A i \in 1..(Len(s) - 1) : i + 1 \in 1..Len(s) /\ Tail(s)[i] = s[i + 1]
    BY <1>1, <1>2
  <1>7. 1 \in DOMAIN s
    BY <1>2
  <1>8. \A x \in Elements(s) : x = Head(s) \/ x \in Elements(Tail(s))
    <2>1. SUFFICES ASSUME NEW i \in 1..Len(s)
                   PROVE  s[i] = Head(s) \/ s[i] \in Elements(Tail(s))
      BY <1>2 DEF Elements
    <2>2. CASE i = 1
      BY <1>3, <2>2
    <2>3. CASE i # 1
      <3>1. i - 1 \in DOMAIN Tail(s) /\ s[i] = Tail(s)[i - 1]
        <4>1. i - 1 \in 1..(Len(s) - 1) /\ i - 1 + 1 = i
          BY <1>2, <2>3
        <4>. QED
          BY <1>1, <1>2, <4>1
      <3>. QED
        BY <3>1 DEF Elements
    <2>. QED
      BY <2>2, <2>3
  <1>9. \A x \in Elements(Tail(s)) : x \in Elements(s)
    BY <1>2, <1>6 DEF Elements
  <1>10. Head(s) \in Elements(s)
    BY <1>3, <1>7 DEF Elements
  <1>. QED
    BY <1>1, <1>8, <1>9, <1>10

LEMMA Joined ==
    ASSUME NEW S, NEW s \in Seq(S), NEW t \in Seq(S)
    PROVE  s \o t \in Seq(S) /\ Elements(s \o t) = Elements(s) \cup Elements(t)
  <1>1. /\ s \o t \in Seq(S) /\ Len(s \o t) = Len(s) + Len(t)
        /\ \A i \in 1..(Len(s) + Len(t)) :
             (s \o t)[i] = IF i <= Len(s) THEN s[i] ELSE t[i - Len(s)]
    BY ConcatProperties
  <1>2. /\ Len(s) \in Nat /\ Len(t) \in Nat /\ DOMAIN s = 1..Len(s) /\ DOMAIN t = 1..Len(t)
        /\ DOMAIN (s \o t) = 1..(Len(s) + Len(t))
    BY <1>1, LenProperties
  <1>3. ASSUME NEW i \in DOMAIN (s \o t)
        PROVE  (s \o t)[i] \in Elements(s) \cup Elements(t)
    <2>1. CASE i <= Len(s)
      BY <1>1, <1>2, <2>1 DEF Elements
    <2>2. CASE ~(i <= Len(s))
      <3>1. i - Len(s) \in DOMAIN t /\ (s \o t)[i] = t[i - Len(s)]
        BY <1>1, <1>2, <2>2
      <3>. QED
        BY <3>1 DEF Elements
    <2>. QED
      BY <2>1, <2>2
  <1>4. ASSUME NEW i \in DOMAIN s
        PROVE  s[i] \in Elements(s \o t)
    <2>1. i \in DOMAIN (s \o t) /\ (s \o t)[i] = s[i]
      BY <1>1, <1>2
    <2>. QED
      BY <2>1 DEF Elements
  <1>5. ASSUME NEW i \in DOMAIN t
        PROVE  t[i] \in Elements(s \o t)
    <2>1. i + Len(s) \in DOMAIN (s \o t) /\ ~(i + Len(s) <= Len(s)) /\ i + Len(s) - Len(s) = i
      BY <1>2
    <2>2. (s \o t)[i + Len(s)] = t[i]
      BY <1>1, <1>2, <2>1
    <2>. QED
      BY <2>1, <2>2 DEF Elements
  <1>6. Elements(s \o t) \subseteq Elements(s) \cup Elements(t)
    BY <1>3 DEF Elements
  <1>7. Elements(s) \subseteq Elements(s \o t) /\ Elements(t) \subseteq Elements(s \o t)
    BY <1>4, <1>5 DEF Elements
  <1>. QED
    BY <1>1, <1>6, <1>7

LEMMA Single ==
    ASSUME NEW S, NEW x \in S
    PROVE  <<x>> \in Seq(S) /\ Elements(<<x>>) = {x}
  BY DEF Elements

LEMMA Pair ==
    ASSUME NEW S, NEW x \in S, NEW y \in S
    PROVE  <<x, y>> \in Seq(S) /\ Elements(<<x, y>>) = {x, y}
  <1>1. DOMAIN <<x, y>> = {1, 2} /\ <<x, y>>[1] = x /\ <<x, y>>[2] = y
    OBVIOUS
  <1>. QED
    BY <1>1 DEF Elements

LEMMA Empty ==
    ASSUME NEW S
    PROVE  <<>> \in Seq(S) /\ Elements(<<>>) = {}
  BY EmptySeq DEF Elements

LEMMA Added ==
    ASSUME NEW S, NEW s \in Seq(S), NEW x \in S
    PROVE  s \o <<x>> \in Seq(S) /\ Elements(s \o <<x>>) = Elements(s) \cup {x}
  <1>1. <<x>> \in Seq(S) /\ Elements(<<x>>) = {x}
    BY Single
  <1>2. s \o <<x>> \in Seq(S) /\ Elements(s \o <<x>>) = Elements(s) \cup Elements(<<x>>)
    BY <1>1, Joined
  <1>. QED
    BY <1>1, <1>2

LEMMA Pushed ==
    ASSUME NEW S, NEW s \in Seq(S), NEW x \in S
    PROVE  Append(s, x) \in Seq(S) /\ Elements(Append(s, x)) = Elements(s) \cup {x}
  <1>1. Append(s, x) = s \o <<x>>
    BY AppendIsConcat
  <1>2. s \o <<x>> \in Seq(S) /\ Elements(s \o <<x>>) = Elements(s) \cup {x}
    BY Added
  <1>. QED
    BY <1>1, <1>2

LEMMA PublishedIs ==
    ASSUME NEW s \in Seq(Notes(Requests))
    PROVE  Published(s) = Publishing(s)
  BY DEF Published, Publishing, Elements

LEMMA CallNote ==
    ASSUME NEW kinds, NEW kind \in kinds \ Carriers
    PROVE  Call(kind) \in Notes(kinds) /\ Call(kind).kind = kind /\ Call(kind).state = None
  BY DEF Call, Note, Notes, Stored

LEMMA StateNote ==
    ASSUME NEW kinds, NEW kind \in kinds, NEW s \in SUBSET Changes
    PROVE  Note(kind, s) \in Notes(kinds) /\ Note(kind, s).kind = kind /\ Note(kind, s).state = s
  <1>1. s # None
    BY NoneAssumption DEF Changes
  <1>. QED
    BY <1>1 DEF Note, Notes, Stored

LEMMA Deferred ==
    ASSUME NEW k \in Closures \ Carriers
    PROVE  /\ [i \in DOMAIN <<k>> |-> Call(<<k>>[i])] \in Seq(Notes(Closures))
           /\ Elements([i \in DOMAIN <<k>> |-> Call(<<k>>[i])]) = {Call(k)}
           /\ [i \in DOMAIN <<>> |-> Call(<<>>[i])] \in Seq(Notes(Closures))
           /\ Elements([i \in DOMAIN <<>> |-> Call(<<>>[i])]) = {}
  <1>1. Call(k) \in Notes(Closures)
    BY CallNote
  <1>2. DOMAIN <<k>> = 1..1 /\ <<k>>[1] = k /\ 1..1 = {1}
    OBVIOUS
  <1>3. [i \in DOMAIN <<k>> |-> Call(<<k>>[i])] = [i \in 1..1 |-> Call(k)]
    BY <1>2
  <1>4. [i \in 1..1 |-> Call(k)] \in Seq(Notes(Closures))
    BY <1>1, SeqDef
  <1>5. Elements([i \in 1..1 |-> Call(k)]) = {Call(k)}
    BY <1>2 DEF Elements
  <1>6. DOMAIN <<>> = 1..0 /\ 1..0 = {}
    OBVIOUS
  <1>7. [i \in DOMAIN <<>> |-> Call(<<>>[i])] \in [1..0 -> Notes(Closures)]
    BY <1>6
  <1>8. Elements([i \in DOMAIN <<>> |-> Call(<<>>[i])]) = {}
    BY <1>6 DEF Elements
  <1>. QED
    BY <1>3, <1>4, <1>5, <1>7, <1>8, SeqDef

LEMMA Cut ==
    ASSUME NEW S, NEW s \in Seq(S), NEW n \in 0..Len(s)
    PROVE  SubSeq(s, 1, n) \in Seq(S) /\ Elements(SubSeq(s, 1, n)) \subseteq Elements(s)
  <1>1. Len(s) \in Nat /\ DOMAIN s = 1..Len(s) /\ \A i \in 1..Len(s) : s[i] \in S
    BY ElementOfSeq, LenProperties
  <1>2. n \in Int /\ 1 \in Int /\ \A i \in 1..n : i \in 1..Len(s) /\ 1 + i - 1 = i /\ s[i] \in S
    BY <1>1
  <1>3. /\ SubSeq(s, 1, n) \in Seq(S)
        /\ Len(SubSeq(s, 1, n)) = IF 1 <= n THEN n - 1 + 1 ELSE 0
        /\ \A i \in 1..(n - 1 + 1) : SubSeq(s, 1, n)[i] = s[1 + i - 1]
    BY <1>2, SubSeqProperties
  <1>4. n - 1 + 1 = n /\ Len(SubSeq(s, 1, n)) = n
    BY <1>1, <1>3
  <1>5. DOMAIN SubSeq(s, 1, n) = 1..n
    BY <1>3, <1>4, LenProperties
  <1>6. \A i \in DOMAIN SubSeq(s, 1, n) : i \in DOMAIN s /\ SubSeq(s, 1, n)[i] = s[i]
    BY <1>1, <1>2, <1>3, <1>4, <1>5
  <1>. QED
    BY <1>3, <1>6 DEF Elements

---------------------------------------------------------------------------
(* The contract grows, and what was told of it stays true.                 *)

Grown(c, d) == c # None => d # None /\ c \subseteq d

LEMMA BackedGrows ==
    ASSUME NEW n, NEW c, NEW d, Backed(n, c), Grown(c, d)
    PROVE  Backed(n, d)
  BY DEF Backed, Grown

LEMMA HeardKept ==
    ASSUME Heard, Grown(contract, contract'),
           \A n \in Elements(queue') : n \in Elements(queue) \/ Backed(n, contract'),
           \A n \in Elements(deferred') : n \in Elements(deferred) \/ Backed(n, contract'),
           \A n \in Elements(requests') : n \in Elements(requests) \/ Backed(n, contract'),
           status' = "Subscribed" => status = "Subscribed" \/ contract' # None
    PROVE  Heard'
  <1>1. \A n : Backed(n, contract) => Backed(n, contract')
    BY BackedGrows
  <1>2. contract # None => contract' # None
    BY DEF Grown
  <1>. QED
    BY <1>1, <1>2 DEF Heard

LEMMA BasisKept ==
    ASSUME Basis, Grown(contract, contract'), baseline' = baseline, lost \subseteq lost',
           \A c \in Publishing(requests) :
               c \in lost' \/ c \in Publishing(requests') \/ (contract' # None /\ c \in contract')
    PROVE  Basis'
  BY DEF Basis, Grown

LEMMA MoreCalls ==
    ASSUME NEW s, NEW t, Elements(s) \subseteq Elements(t)
    PROVE  Publishing(s) \subseteq Publishing(t)
  BY DEF Publishing

(* Steps that leave the contract and the baseline alone.                    *)
LEMMA QuietKeeps ==
    ASSUME IInv, Types', baseline' = baseline, contract' = contract, lost \subseteq lost',
           Elements(requests) \subseteq Elements(requests'),
           \A n \in Elements(queue') : n \in Elements(queue) \/ Backed(n, contract),
           \A n \in Elements(deferred') : n \in Elements(deferred) \/ Backed(n, contract),
           \A n \in Elements(requests') : n \in Elements(requests) \/ Backed(n, contract),
           status' = "Subscribed" => status = "Subscribed" \/ contract # None
    PROVE  IInv'
  <1>1. Grown(contract, contract')
    BY DEF Grown
  <1>2. Heard'
    BY <1>1, HeardKept DEF IInv
  <1>3. Publishing(requests) \subseteq Publishing(requests')
    BY MoreCalls
  <1>4. Basis'
    BY <1>1, <1>3, BasisKept DEF IInv
  <1>. QED
    BY <1>2, <1>4 DEF IInv

LEMMA CallBacked ==
    ASSUME NEW k \in (Messages \cup Closures \cup Requests) \ {"PutDone", "SubscribeOk", "Got", "NewState", "Subscribed", "Update"}, NEW s, NEW c
    PROVE  Backed(Call(k), c) /\ Backed(Note(k, s), c)
  BY DEF Call, Note, Backed, Messages, Closures, Requests

(* The first of the queue and of the closures.                             *)
LEMMA First ==
    ASSUME IInv
    PROVE  /\ queue # <<>> =>
                /\ Head(queue) \in Notes(Messages) /\ Tail(queue) \in Seq(Notes(Messages))
                /\ Elements(Tail(queue)) \subseteq Elements(queue) /\ Head(queue) \in Elements(queue)
                /\ Backed(Head(queue), contract)
           /\ deferred # <<>> =>
                /\ Head(deferred) \in Notes(Closures) /\ Tail(deferred) \in Seq(Notes(Closures))
                /\ Elements(Tail(deferred)) \subseteq Elements(deferred)
                /\ Head(deferred) \in Elements(deferred) /\ Backed(Head(deferred), contract)
           /\ requests # <<>> =>
                /\ Head(requests) \in Notes(Requests) /\ Tail(requests) \in Seq(Notes(Requests))
                /\ Elements(requests) = {Head(requests)} \cup Elements(Tail(requests))
                /\ Backed(Head(requests), contract)
  <1>1. /\ queue # <<>> => /\ Head(queue) \in Notes(Messages) /\ Tail(queue) \in Seq(Notes(Messages))
                            /\ Elements(queue) = {Head(queue)} \cup Elements(Tail(queue))
        /\ deferred # <<>> => /\ Head(deferred) \in Notes(Closures) /\ Tail(deferred) \in Seq(Notes(Closures))
                               /\ Elements(deferred) = {Head(deferred)} \cup Elements(Tail(deferred))
        /\ requests # <<>> => /\ Head(requests) \in Notes(Requests) /\ Tail(requests) \in Seq(Notes(Requests))
                               /\ Elements(requests) = {Head(requests)} \cup Elements(Tail(requests))
    BY Popped DEF IInv, Types, Queues
  <1>. QED
    BY <1>1 DEF IInv, Heard

---------------------------------------------------------------------------
(* Messages that only change what the client does next.                    *)

LEMMA Posting ==
    ASSUME NEW s \in Seq(Notes(Messages)), NEW k \in {"Connect", "RefreshAllBoards", "ProcessBoards",
               "AcceptInvitation", "PageBecameVisible", "ConnectionLost"}
    PROVE  /\ Append(s, Call(k)) \in Seq(Notes(Messages))
           /\ \A c : \A n \in Elements(Append(s, Call(k))) : n \in Elements(s) \/ Backed(n, c)
           /\ Elements(s) \subseteq Elements(Append(s, Call(k)))
  <1>1. Call(k) \in Notes(Messages)
    BY CallNote DEF Messages, Carriers
  <1>2. \A c : Backed(Call(k), c)
    BY CallBacked DEF Messages
  <1>3. /\ Append(s, Call(k)) \in Seq(Notes(Messages))
        /\ Elements(Append(s, Call(k))) = Elements(s) \cup {Call(k)}
    BY <1>1, Pushed
  <1>. QED
    BY <1>2, <1>3

LEMMA Counted ==
    ASSUME IInv, troubles' = troubles \/ Trouble
    PROVE  troubles' \in 0..MaxTroubles
  BY BoundAssumption DEF Trouble, IInv, Types, Standing

LEMMA Unmoved ==
    ASSUME IInv, UNCHANGED <<link, api, connected, timers, subscribed>>, troubles' \in 0..MaxTroubles
    PROVE  Standing'
  BY DEF IInv, Types, Standing

LEMMA PlainHolds ==
    ASSUME IInv, \/ HandlePageBecameVisible \/ HandleConnectRefused \/ HandleConnectionLost
                 \/ HandleNotFound \/ \E k \in Messages : ConnectFirst(k)
    PROVE  IInv'
  <1>1. queue # <<>>
    BY DEF HandlePageBecameVisible, HandleConnectRefused, HandleConnectionLost, HandleNotFound,
           ConnectFirst, Take
  <1>2. /\ Tail(queue) \in Seq(Notes(Messages)) /\ Elements(Tail(queue)) \subseteq Elements(queue)
    BY <1>1, First
  <1>3. \/ queue' = Tail(queue)
        \/ \E k \in {"Connect", "RefreshAllBoards"} : queue' = Append(Tail(queue), Call(k))
    BY DEF HandlePageBecameVisible, HandleConnectRefused, HandleConnectionLost, HandleNotFound,
           ConnectFirst, Take
  <1>4. /\ queue' \in Seq(Notes(Messages))
        /\ \A n \in Elements(queue') : n \in Elements(queue) \/ Backed(n, contract)
    <2>1. CASE queue' = Tail(queue)
      BY <1>2, <2>1
    <2>2. ASSUME NEW k \in {"Connect", "RefreshAllBoards"}, queue' = Append(Tail(queue), Call(k))
          PROVE  /\ queue' \in Seq(Notes(Messages))
                 /\ \A n \in Elements(queue') : n \in Elements(queue) \/ Backed(n, contract)
      BY <1>2, <2>2, Posting
    <2>. QED
      BY <1>3, <2>1, <2>2
  <1>5. UNCHANGED <<deferred, requests, mine, baseline, stored, contract, lost, invite, inviteAged, link,
                    subscribed>>
    BY DEF HandlePageBecameVisible, HandleConnectRefused, HandleConnectionLost, HandleNotFound,
           ConnectFirst, Take, Trouble, network, channel, info, invitation
  <1>6. Queues' /\ Copies'
    BY <1>4, <1>5 DEF IInv, Types, Queues, Copies
  <1>7. Standing'
    <2>1. CASE HandleConnectRefused
      <3>1. troubles' \in 0..MaxTroubles
        BY <2>1, Counted DEF HandleConnectRefused
      <3>. QED
        BY <2>1, <3>1 DEF HandleConnectRefused, IInv, Types, Standing, network
    <2>2. CASE HandleConnectionLost
      BY <2>2 DEF HandleConnectionLost, IInv, Types, Standing, network
    <2>3. CASE HandleNotFound
      BY <2>3 DEF HandleNotFound, IInv, Types, Standing, network, channel, info
    <2>4. CASE HandlePageBecameVisible \/ \E k \in Messages : ConnectFirst(k)
      <3>1. UNCHANGED <<link, api, connected, timers, subscribed, troubles>>
        BY <2>4 DEF HandlePageBecameVisible, ConnectFirst, network, channel
      <3>. QED
        BY <3>1, Counted, Unmoved
    <2>. QED
      BY <2>1, <2>2, <2>3, <2>4
  <1>8. Progress' /\ (status' = "Subscribed" => status = "Subscribed")
    <2>1. CASE HandleNotFound
      BY <2>1 DEF HandleNotFound, IInv, Types, Progress, Statuses, info, invitation
    <2>2. CASE UNCHANGED <<info, invitation>>
      BY <2>2 DEF IInv, Types, Progress, info, invitation
    <2>. QED
      BY <2>1, <2>2 DEF HandlePageBecameVisible, HandleConnectRefused, HandleConnectionLost, ConnectFirst
  <1>. QED
    BY <1>4, <1>5, <1>6, <1>7, <1>8, QuietKeeps DEF Types

---------------------------------------------------------------------------
(* process_boards: the baseline becomes what is published just then.       *)

LEMMA Sending ==
    ASSUME IInv
    PROVE  /\ ToSend \in Seq(Notes(Requests))
           /\ \A n \in Elements(ToSend) : Backed(n, contract)
           /\ PutDue \/ UpdateDue => mine # None /\ mine \cap Own \subseteq Publishing(ToSend)
  <1>1. CASE InviteDue
    <2>1. Call("Get") \in Notes(Requests) /\ Backed(Call("Get"), contract)
      BY CallNote, CallBacked DEF Requests, Carriers
    <2>2. ToSend = <<Call("Get")>> /\ ~PutDue /\ ~UpdateDue
      BY <1>1 DEF ToSend, PutDue, UpdateDue
    <2>. QED
      BY <2>1, <2>2, Single
  <1>2. CASE ~InviteDue /\ (PutDue \/ UpdateDue)
    <2>1. mine # None /\ mine \in SUBSET Changes /\ (~PutDue => contract # None)
      BY <1>2 DEF PutDue, UpdateDue, IInv, Types, Copies, Stored, Heard
    <2>2. PICK k \in {"Put", "Update"} : ToSend = <<Note(k, mine)>> /\ (k = "Update" => contract # None)
      <3>1. CASE PutDue
        BY <1>2, <3>1 DEF ToSend
      <3>2. CASE ~PutDue
        BY <1>2, <2>1, <3>2 DEF ToSend
      <3>. QED
        BY <3>1, <3>2
    <2>3. Note(k, mine) \in Notes(Requests) /\ Note(k, mine).kind = k /\ Note(k, mine).state = mine
      BY <2>1, StateNote DEF Requests
    <2>4. Backed(Note(k, mine), contract)
      BY <2>2, <2>3 DEF Backed
    <2>5. ToSend \in Seq(Notes(Requests)) /\ Elements(ToSend) = {Note(k, mine)}
      BY <2>2, <2>3, Single
    <2>6. mine \cap Own \subseteq Publishing(ToSend)
      BY <2>3, <2>5 DEF Publishing
    <2>. QED
      BY <2>1, <2>4, <2>5, <2>6
  <1>3. CASE ~InviteDue /\ ~PutDue /\ ~UpdateDue
    <2>1. ToSend = <<>>
      BY <1>3 DEF ToSend
    <2>. QED
      BY <1>3, <2>1, Empty
  <1>. QED
    BY <1>1, <1>2, <1>3

LEMMA Processing ==
    ASSUME IInv, NEW ok \in BOOLEAN, ProcessBoards(ok)
    PROVE  /\ Progress' /\ (status' = "Subscribed" => status = "Subscribed")
           /\ timers' \subseteq {"connect", "process", "check"}
           /\ baseline' \in Stored
           /\ \/ baseline' = baseline
              \/ baseline' = mine /\ (PutDue \/ (UpdateDue /\ ok))
  <1>1. timers' \subseteq {"connect", "process", "check"}
    BY DEF ProcessBoards, Unchecked, IInv, Types, Standing
  <1>2. /\ baseline' \in Stored
        /\ \/ baseline' = baseline
           \/ baseline' = mine /\ (PutDue \/ (UpdateDue /\ ok))
    BY DEF ProcessBoards, IInv, Types, Copies
  <1>3. /\ status' \in Statuses /\ (status' = "Subscribed" => status = "Subscribed")
        /\ ~InviteDue /\ ~PutDue => status' = status
    BY DEF ProcessBoards, IInv, Types, Progress, Statuses
  <1>4. aged' \in BOOLEAN /\ (aged' => status' = "Subscribing")
    <2>1. aged' <=> aged /\ ~InviteDue /\ ~PutDue
      BY DEF ProcessBoards
    <2>2. aged' \in BOOLEAN
      BY DEF ProcessBoards
    <2>. QED
      BY <1>3, <2>1, <2>2 DEF IInv, Types, Progress
  <1>5. /\ invite' \in {"none", "Pending", "Subscribing", "Subscribed", "Error"}
        /\ ~InviteDue => invite' = invite
    BY DEF ProcessBoards, IInv, Types, Progress
  <1>6. inviteAged' \in BOOLEAN /\ (inviteAged' => invite' = "Subscribing")
    <2>1. inviteAged' <=> inviteAged /\ ~InviteDue
      BY DEF ProcessBoards
    <2>2. inviteAged' \in BOOLEAN
      BY DEF ProcessBoards
    <2>. QED
      BY <1>5, <2>1, <2>2 DEF IInv, Types, Progress
  <1>. QED
    BY <1>1, <1>2, <1>3, <1>4, <1>5, <1>6 DEF Progress

LEMMA ProcessingKeeps ==
    ASSUME IInv, NEW ok \in BOOLEAN, ProcessBoards(ok),
           queue' \in Seq(Notes(Messages)), Elements(queue') \subseteq Elements(queue),
           requests' \in Seq(Notes(Requests)), Elements(requests) \subseteq Elements(requests'),
           \A n \in Elements(requests') :
               n \in Elements(requests) \cup Elements(ToSend) \/ Backed(n, contract),
           lost \subseteq lost', lost' \subseteq Own,
           PutDue \/ (UpdateDue /\ ok) => Publishing(ToSend) \subseteq Publishing(requests') \cup lost',
           UNCHANGED <<deferred, mine, stored, contract>>,
           timers' \subseteq {"connect", "process", "check"} => Standing'
    PROVE  IInv'
  <1>1. /\ \A n \in Elements(ToSend) : Backed(n, contract)
        /\ PutDue \/ UpdateDue => mine # None /\ mine \cap Own \subseteq Publishing(ToSend)
    BY Sending
  <1>2. /\ Progress' /\ (status' = "Subscribed" => status = "Subscribed")
        /\ timers' \subseteq {"connect", "process", "check"}
        /\ baseline' \in Stored
        /\ \/ baseline' = baseline
           \/ baseline' = mine /\ (PutDue \/ (UpdateDue /\ ok))
    BY Processing
  <1>3. Queues' /\ Copies'
    BY <1>2 DEF Queues, Copies, IInv, Types
  <1>4. Types'
    BY <1>2, <1>3 DEF Types
  <1>5. CASE baseline' = baseline
    BY <1>1, <1>2, <1>4, <1>5, QuietKeeps
  <1>6. CASE baseline' = mine /\ (PutDue \/ (UpdateDue /\ ok))
    <2>1. Grown(contract, contract')
      BY DEF Grown
    <2>2. Heard'
      BY <1>1, <1>2, <2>1, HeardKept DEF IInv
    <2>3. mine \cap Own \subseteq Publishing(requests') \cup lost'
      BY <1>1, <1>6
    <2>4. Basis'
      BY <1>6, <2>3 DEF Basis
    <2>. QED
      BY <1>4, <2>2, <2>4 DEF IInv
  <1>. QED
    BY <1>2, <1>5, <1>6

LEMMA SendHolds ==
    ASSUME IInv, SendBoards,
           queue' \in Seq(Notes(Messages)), Elements(queue') \subseteq Elements(queue),
           UNCHANGED <<channel, deferred, mine, stored, contract, subscribed, troubles>>
    PROVE  IInv'
  <1>1. PICK ok \in Sent :
            /\ ProcessBoards(ok)
            /\ Send(ok, ToSend)
            /\ IF UpdateDue /\ ~ok THEN UNCHANGED lost ELSE Lose(ok, ToSend)
    BY DEF SendBoards
  <1>2. ok \in BOOLEAN
    BY DEF Sent
  <1>3. ToSend \in Seq(Notes(Requests))
    BY Sending
  <1>4. Published(ToSend) = Publishing(ToSend) /\ Publishing(ToSend) \subseteq Own
    BY <1>3, PublishedIs DEF Publishing
  <1>5. /\ requests' \in Seq(Notes(Requests)) /\ Elements(requests) \subseteq Elements(requests')
        /\ Elements(requests') \subseteq Elements(requests) \cup Elements(ToSend)
        /\ ok /\ link => Elements(ToSend) \subseteq Elements(requests')
    <2>1. requests \in Seq(Notes(Requests))
      BY DEF IInv, Types, Queues
    <2>2. /\ requests \o ToSend \in Seq(Notes(Requests))
          /\ Elements(requests \o ToSend) = Elements(requests) \cup Elements(ToSend)
      BY <1>3, <2>1, Joined
    <2>. QED
      BY <1>1, <2>1, <2>2 DEF Send
  <1>6. /\ lost \subseteq lost' /\ lost' \subseteq Own
        /\ PutDue \/ (UpdateDue /\ ok) => (ok /\ link) \/ Publishing(ToSend) \subseteq lost'
    <2>1. PutDue => ~UpdateDue
      BY DEF PutDue, UpdateDue
    <2>. QED
      BY <1>1, <1>4, <2>1 DEF Lose, IInv, Types, Copies
  <1>7. ok /\ link => Publishing(ToSend) \subseteq Publishing(requests')
    BY <1>5, MoreCalls
  <1>8. timers' \subseteq {"connect", "process", "check"} => Standing'
    BY DEF IInv, Types, Standing, channel
  <1>. QED
    BY <1>1, <1>2, <1>5, <1>6, <1>7, <1>8, ProcessingKeeps

LEMMA ProcessHolds ==
    ASSUME IInv, HandleProcessBoards \/ HandleAcceptInvitation \/ HandleConnect
    PROVE  IInv'
  <1>1. Tail(queue) \in Seq(Notes(Messages)) /\ Elements(Tail(queue)) \subseteq Elements(queue)
    BY First DEF HandleProcessBoards, HandleAcceptInvitation, HandleConnect, ConnectFirst, Take
  <1>2. CASE HandleProcessBoards
    <2>1. CASE ConnectFirst("ProcessBoards")
      BY <2>1, PlainHolds DEF Messages
    <2>2. CASE ~ConnectFirst("ProcessBoards")
      BY <1>1, <1>2, <2>2, SendHolds DEF HandleProcessBoards, Take
    <2>. QED
      BY <2>1, <2>2
  <1>3. CASE HandleAcceptInvitation
    <2>1. CASE api
      BY <1>1, <1>3, <2>1, SendHolds DEF HandleAcceptInvitation, Take
    <2>2. CASE ~api
      <3>1. /\ queue' = Tail(queue)
            /\ UNCHANGED <<link, api, connected, deferred, timers, mine, status, aged, baseline, invite,
                           inviteAged, stored, requests, contract, subscribed, troubles, lost>>
        BY <1>3, <2>2 DEF HandleAcceptInvitation, Take, channel, info, invitation
      <3>2. Types'
        BY <1>1, <3>1 DEF IInv, Types, Queues, Copies, Standing, Progress
      <3>. QED
        BY <1>1, <3>1, <3>2, QuietKeeps
    <2>. QED
      BY <2>1, <2>2
  <1>4. CASE HandleConnect
    <2>1. /\ queue' = Tail(queue) /\ ProcessBoards(TRUE)
          /\ requests' = requests \o <<Call("Load")>> \o ToSend
          /\ UNCHANGED <<deferred, mine, stored, contract, troubles, lost>>
      BY <1>4 DEF HandleConnect, Take
    <2>2. Call("Load") \in Notes(Requests) /\ Backed(Call("Load"), contract)
      BY CallNote, CallBacked DEF Requests, Carriers
    <2>3. /\ requests \in Seq(Notes(Requests)) /\ ToSend \in Seq(Notes(Requests))
          /\ \A n \in Elements(ToSend) : Backed(n, contract)
      BY Sending DEF IInv, Types, Queues
    <2>4. PICK s : s = requests \o <<Call("Load")>>
      OBVIOUS
    <2>5. s \in Seq(Notes(Requests)) /\ Elements(s) = Elements(requests) \cup {Call("Load")}
      BY <2>2, <2>3, <2>4, Added
    <2>6. /\ requests' \in Seq(Notes(Requests))
          /\ Elements(requests') = Elements(requests) \cup {Call("Load")} \cup Elements(ToSend)
      <3>1. requests' = s \o ToSend
        BY <2>1, <2>4
      <3>2. s \o ToSend \in Seq(Notes(Requests)) /\ Elements(s \o ToSend) = Elements(s) \cup Elements(ToSend)
        BY <2>3, <2>5, Joined
      <3>. QED
        BY <2>5, <3>1, <3>2
    <2>7. Publishing(ToSend) \subseteq Publishing(requests')
      BY <2>6, MoreCalls
    <2>8. timers' \subseteq {"connect", "process", "check"} => Standing'
      BY <1>4 DEF HandleConnect, IInv, Types, Standing
    <2>9. lost \subseteq Own
      BY DEF IInv, Types, Copies
    <2>. QED
      BY <1>1, <2>1, <2>2, <2>6, <2>7, <2>8, <2>9, ProcessingKeeps
  <1>. QED
    BY <1>2, <1>3, <1>4

---------------------------------------------------------------------------
(* Messages that send and defer.                                           *)

LEMMA TakingKeeps ==
    ASSUME IInv, queue # <<>>, queue' = Tail(queue),
           deferred' \in Seq(Notes(Closures)),
           \A n \in Elements(deferred') : n \in Elements(deferred) \/ Backed(n, contract),
           requests' \in Seq(Notes(Requests)), Elements(requests) \subseteq Elements(requests'),
           \A n \in Elements(requests') : n \in Elements(requests) \/ Backed(n, contract),
           timers' \subseteq timers \cup {"process", "check"},
           UNCHANGED <<link, api, connected, mine, status, aged, baseline, invite, inviteAged, stored,
                       contract, subscribed, troubles, lost>>
    PROVE  IInv'
  <1>1. Tail(queue) \in Seq(Notes(Messages)) /\ Elements(Tail(queue)) \subseteq Elements(queue)
    BY First
  <1>2. Queues' /\ Copies'
    BY <1>1 DEF IInv, Types, Queues, Copies
  <1>3. Standing'
    BY DEF IInv, Types, Standing
  <1>4. Progress'
    BY DEF IInv, Types, Progress
  <1>5. Types'
    BY <1>2, <1>3, <1>4 DEF Types
  <1>. QED
    BY <1>1, <1>5, QuietKeeps

LEMMA Sends ==
    ASSUME IInv, NEW ok, NEW calls, Send(ok, calls),
           \/ calls = <<>>
           \/ \E n \in Notes(Requests) : calls = <<n>> /\ Backed(n, contract)
    PROVE  /\ requests' \in Seq(Notes(Requests)) /\ Elements(requests) \subseteq Elements(requests')
           /\ \A n \in Elements(requests') : n \in Elements(requests) \/ Backed(n, contract)
  <1>1. requests \in Seq(Notes(Requests))
    BY DEF IInv, Types, Queues
  <1>2. CASE requests' = requests
    BY <1>1, <1>2
  <1>3. CASE requests' = requests \o calls /\ calls = <<>>
    <2>1. requests' = requests
      BY <1>1, <1>3, ConcatEmptySeq
    <2>. QED
      BY <1>1, <2>1
  <1>4. ASSUME requests' = requests \o calls, NEW n \in Notes(Requests), calls = <<n>>, Backed(n, contract)
        PROVE  /\ requests' \in Seq(Notes(Requests)) /\ Elements(requests') = Elements(requests) \cup {n}
               /\ Backed(n, contract)
    <2>1. /\ requests \o <<n>> \in Seq(Notes(Requests))
          /\ Elements(requests \o <<n>>) = Elements(requests) \cup {n}
      BY <1>1, Added
    <2>. QED
      BY <1>4, <2>1
  <1>. QED
    BY <1>2, <1>3, <1>4 DEF Send

LEMMA Defers ==
    ASSUME IInv, NEW s \in Seq(Notes(Closures)), deferred' = deferred \o s,
           \A n \in Elements(s) : Backed(n, contract)
    PROVE  /\ deferred' \in Seq(Notes(Closures))
           /\ \A n \in Elements(deferred') : n \in Elements(deferred) \/ Backed(n, contract)
  BY Joined DEF IInv, Types, Queues

LEMMA DefersOne ==
    ASSUME IInv, NEW kinds, Defer(kinds),
           kinds = <<>> \/ \E k \in {"Subscribed", "Disconnected", "Error", "NeedsSync"} :
                               kinds = <<k>> /\ (k = "Subscribed" => contract # None)
    PROVE  /\ deferred' \in Seq(Notes(Closures))
           /\ \A n \in Elements(deferred') : n \in Elements(deferred) \/ Backed(n, contract)
  <1>1. CASE kinds = <<>>
    <2>1. deferred' = deferred \o [i \in DOMAIN <<>> |-> Call(<<>>[i])]
      BY <1>1 DEF Defer
    <2>2. "Error" \in Closures \ Carriers
      BY DEF Closures, Carriers
    <2>. QED
      BY <2>1, <2>2, Deferred, Defers
  <1>2. ASSUME NEW k \in {"Subscribed", "Disconnected", "Error", "NeedsSync"}, kinds = <<k>>,
               k = "Subscribed" => contract # None
        PROVE  /\ deferred' \in Seq(Notes(Closures))
               /\ \A n \in Elements(deferred') : n \in Elements(deferred) \/ Backed(n, contract)
    <2>1. deferred' = deferred \o [i \in DOMAIN <<k>> |-> Call(<<k>>[i])]
      BY <1>2 DEF Defer
    <2>2. k \in Closures \ Carriers
      BY DEF Closures, Carriers
    <2>3. Backed(Call(k), contract)
      BY <1>2 DEF Call, Note, Backed
    <2>. QED
      BY <2>1, <2>2, <2>3, Deferred, Defers
  <1>. QED
    BY <1>1, <1>2

LEMMA Headed ==
    ASSUME IInv, queue # <<>>, Head(queue).kind \in {"Got", "NewState", "NewDelta"}
    PROVE  Head(queue).state \in SUBSET Changes
  <1>1. Head(queue) \in Notes(Messages)
    BY First
  <1>. QED
    BY <1>1 DEF Notes, Stored, Carriers

LEMMA AnswersHold ==
    ASSUME IInv, HandleRefreshAllBoards \/ HandlePutDone \/ HandleSubscribeOk \/ HandleSubscribeFailed
    PROVE  IInv'
  <1>1. CASE ConnectFirst("RefreshAllBoards")
    BY <1>1, PlainHolds DEF Messages
  <1>. USE DEF channel, info, invitation, network
  <1>2. \A k \in {"Get", "Subscribe"} : Call(k) \in Notes(Requests) /\ Backed(Call(k), contract)
    BY CallNote, CallBacked DEF Requests, Carriers
  <1>3. requests \in Seq(Notes(Requests)) /\ deferred \in Seq(Notes(Closures))
    BY DEF IInv, Types, Queues
  <1>4. CASE HandleRefreshAllBoards /\ ~ConnectFirst("RefreshAllBoards")
    <2>1. PICK ok \in Sent : Send(ok, IF mine = None THEN <<>> ELSE <<Call("Get")>>)
      BY <1>4 DEF HandleRefreshAllBoards
    <2>2. /\ requests' \in Seq(Notes(Requests)) /\ Elements(requests) \subseteq Elements(requests')
          /\ \A n \in Elements(requests') : n \in Elements(requests) \/ Backed(n, contract)
      BY <1>2, <2>1, Sends
    <2>. QED
      BY <1>3, <1>4, <2>2, TakingKeeps DEF HandleRefreshAllBoards, Take
  <1>5. CASE HandlePutDone
    <2>1. contract # None
      <3>1. queue # <<>> /\ Head(queue).kind = "PutDone" /\ Backed(Head(queue), contract)
        BY <1>5, First DEF HandlePutDone, Take
      <3>. QED
        BY <3>1 DEF Backed
    <2>2. PICK ok \in Sent : /\ Send(ok, <<Call("Subscribe")>>)
                             /\ Defer(IF ok THEN <<"Subscribed">> ELSE <<"Error">>)
      BY <1>5 DEF HandlePutDone
    <2>3. /\ requests' \in Seq(Notes(Requests)) /\ Elements(requests) \subseteq Elements(requests')
          /\ \A n \in Elements(requests') : n \in Elements(requests) \/ Backed(n, contract)
      BY <1>2, <2>2, Sends
    <2>4. /\ deferred' \in Seq(Notes(Closures))
          /\ \A n \in Elements(deferred') : n \in Elements(deferred) \/ Backed(n, contract)
      BY <2>1, <2>2, DefersOne
    <2>. QED
      BY <1>5, <2>3, <2>4, TakingKeeps DEF HandlePutDone, Take
  <1>6. CASE HandleSubscribeOk
    <2>1. contract # None
      <3>1. queue # <<>> /\ Head(queue).kind = "SubscribeOk" /\ Backed(Head(queue), contract)
        BY <1>6, First DEF HandleSubscribeOk, Take
      <3>. QED
        BY <3>1 DEF Backed
    <2>2. PICK ok \in Sent : Send(ok, <<Call("Get")>>)
      BY <1>6 DEF HandleSubscribeOk
    <2>3. /\ requests' \in Seq(Notes(Requests)) /\ Elements(requests) \subseteq Elements(requests')
          /\ \A n \in Elements(requests') : n \in Elements(requests) \/ Backed(n, contract)
      BY <1>2, <2>2, Sends
    <2>4. /\ deferred' \in Seq(Notes(Closures))
          /\ \A n \in Elements(deferred') : n \in Elements(deferred) \/ Backed(n, contract)
      <3>1. Defer(IF status = "Unregistered" THEN <<>> ELSE <<"Subscribed">>)
        BY <1>6 DEF HandleSubscribeOk
      <3>. QED
        BY <2>1, <3>1, DefersOne
    <2>. QED
      BY <1>6, <2>3, <2>4, TakingKeeps DEF HandleSubscribeOk, Take
  <1>7. CASE HandleSubscribeFailed
    <2>1. Defer(IF status = "Unregistered" THEN <<>>
                ELSE IF mine # None THEN <<"Disconnected">> ELSE <<"Error">>)
      BY <1>7 DEF HandleSubscribeFailed
    <2>2. /\ deferred' \in Seq(Notes(Closures))
          /\ \A n \in Elements(deferred') : n \in Elements(deferred) \/ Backed(n, contract)
      BY <2>1, DefersOne
    <2>. QED
      BY <1>3, <1>7, <2>2, TakingKeeps DEF HandleSubscribeFailed, Take
  <1>. QED
    BY <1>1, <1>4, <1>5, <1>6, <1>7 DEF HandleRefreshAllBoards

LEMMA StatesHold ==
    ASSUME IInv, HandleLoaded \/ HandleGotForInvite \/ HandleGot \/ HandleNotification
    PROVE  IInv'
  <1>. USE DEF channel, info, invitation, network
  <1>1. requests \in Seq(Notes(Requests)) /\ deferred \in Seq(Notes(Closures))
    BY DEF IInv, Types, Queues
  <1>2. \A k \in {"Subscribing", "InviteSubscribed", "NeedsSync", "Error", "InvitePending"} :
            Call(k) \in Notes(Closures) /\ Backed(Call(k), contract)
    BY CallNote, CallBacked DEF Closures, Carriers
  <1>3. \A k \in {"Merge", "Refresh"} : \A s \in SUBSET Changes :
            Note(k, s) \in Notes(Closures) /\ Backed(Note(k, s), contract)
    BY StateNote, CallBacked DEF Closures
  <1>4. ASSUME NEW x \in Notes(Closures), NEW y \in Notes(Closures),
               Backed(x, contract), Backed(y, contract), deferred' = deferred \o <<x, y>>
        PROVE  /\ deferred' \in Seq(Notes(Closures))
               /\ \A n \in Elements(deferred') : n \in Elements(deferred) \/ Backed(n, contract)
    <2>1. <<x, y>> \in Seq(Notes(Closures)) /\ Elements(<<x, y>>) = {x, y}
      BY Pair
    <2>2. \A n \in Elements(<<x, y>>) : Backed(n, contract)
      BY <1>4, <2>1
    <2>. QED
      BY <1>4, <2>1, <2>2, Defers
  <1>5. CASE HandleLoaded
    <2>1. Head(queue).state \in Stored
      BY <1>5, First DEF HandleLoaded, Take, Notes
    <2>2. /\ deferred' \in Seq(Notes(Closures))
          /\ \A n \in Elements(deferred') : n \in Elements(deferred) \/ Backed(n, contract)
      <3>1. CASE Head(queue).state = None
        BY <1>1, <1>5, <3>1 DEF HandleLoaded
      <3>2. CASE Head(queue).state # None
        <4>1. deferred' = deferred \o <<Note("Merge", Head(queue).state), Call("Subscribing")>>
          BY <1>5, <3>2 DEF HandleLoaded
        <4>2. Head(queue).state \in SUBSET Changes
          BY <2>1, <3>2 DEF Stored
        <4>. QED
          BY <1>2, <1>3, <1>4, <4>1, <4>2
      <3>. QED
        BY <3>1, <3>2
    <2>3. PICK ok \in Sent : Send(ok, IF Head(queue).state = None THEN <<>> ELSE <<Call("Subscribe")>>)
      BY <1>5 DEF HandleLoaded
    <2>4. Call("Subscribe") \in Notes(Requests) /\ Backed(Call("Subscribe"), contract)
      BY CallNote, CallBacked DEF Requests, Carriers
    <2>5. /\ requests' \in Seq(Notes(Requests)) /\ Elements(requests) \subseteq Elements(requests')
          /\ \A n \in Elements(requests') : n \in Elements(requests) \/ Backed(n, contract)
      BY <2>3, <2>4, Sends
    <2>. QED
      BY <1>5, <2>2, <2>5, TakingKeeps DEF HandleLoaded, Take
  <1>6. CASE HandleGotForInvite
    <2>1. PICK s : s = Head(queue).state
      OBVIOUS
    <2>2. s \in SUBSET Changes
      BY <1>6, <2>1, Headed DEF HandleGotForInvite, Take
    <2>3. PICK ok \in Sent :
              /\ Send(ok, <<Note("Put", s)>>)
              /\ deferred' = deferred \o <<Note("Merge", s), Call("Subscribing")>> \o
                    IF ok THEN <<Call("InviteSubscribed"), Call("NeedsSync")>>
                    ELSE <<Call("Error"), Call("InvitePending")>>
      BY <1>6, <2>1 DEF HandleGotForInvite
    <2>4. Note("Put", s) \in Notes(Requests) /\ Backed(Note("Put", s), contract)
      BY <2>2, StateNote, CallBacked DEF Requests
    <2>5. /\ requests' \in Seq(Notes(Requests)) /\ Elements(requests) \subseteq Elements(requests')
          /\ \A n \in Elements(requests') : n \in Elements(requests) \/ Backed(n, contract)
      BY <2>3, <2>4, Sends
    <2>6. PICK t, u : /\ t = <<Note("Merge", s), Call("Subscribing")>>
                      /\ u = IF ok THEN <<Call("InviteSubscribed"), Call("NeedsSync")>>
                             ELSE <<Call("Error"), Call("InvitePending")>>
      OBVIOUS
    <2>7. t \in Seq(Notes(Closures)) /\ \A n \in Elements(t) : Backed(n, contract)
      <3>1. /\ Note("Merge", s) \in Notes(Closures) /\ Backed(Note("Merge", s), contract)
            /\ Call("Subscribing") \in Notes(Closures) /\ Backed(Call("Subscribing"), contract)
        BY <1>2, <1>3, <2>2
      <3>2. t \in Seq(Notes(Closures)) /\ Elements(t) = {Note("Merge", s), Call("Subscribing")}
        BY <2>6, <3>1, Pair
      <3>. QED
        BY <3>1, <3>2
    <2>8. u \in Seq(Notes(Closures)) /\ \A n \in Elements(u) : Backed(n, contract)
      <3>1. CASE ok
        <4>1. u = <<Call("InviteSubscribed"), Call("NeedsSync")>>
          BY <2>6, <3>1
        <4>2. u \in Seq(Notes(Closures)) /\ Elements(u) = {Call("InviteSubscribed"), Call("NeedsSync")}
          BY <1>2, <4>1, Pair
        <4>. QED
          BY <1>2, <4>2
      <3>2. CASE ~ok
        <4>1. u = <<Call("Error"), Call("InvitePending")>>
          BY <2>6, <3>2
        <4>2. u \in Seq(Notes(Closures)) /\ Elements(u) = {Call("Error"), Call("InvitePending")}
          BY <1>2, <4>1, Pair
        <4>. QED
          BY <1>2, <4>2
      <3>. QED
        BY <3>1, <3>2
    <2>9. /\ deferred' \in Seq(Notes(Closures))
          /\ \A n \in Elements(deferred') : n \in Elements(deferred) \/ Backed(n, contract)
      <3>1. PICK v : v = deferred \o t
        OBVIOUS
      <3>2. v \in Seq(Notes(Closures)) /\ Elements(v) = Elements(deferred) \cup Elements(t)
        BY <1>1, <2>7, <3>1, Joined
      <3>3. v \o u \in Seq(Notes(Closures)) /\ Elements(v \o u) = Elements(v) \cup Elements(u)
        BY <2>8, <3>2, Joined
      <3>4. deferred' = v \o u
        BY <2>3, <2>6, <3>1
      <3>. QED
        BY <2>7, <2>8, <3>2, <3>3, <3>4
    <2>. QED
      BY <1>6, <2>5, <2>9, TakingKeeps DEF HandleGotForInvite, Take
  <1>7. CASE HandleGot
    <2>1. Head(queue).state \in SUBSET Changes /\ contract # None
      <3>1. queue # <<>> /\ Head(queue).kind = "Got" /\ Backed(Head(queue), contract)
        BY <1>7, First DEF HandleGot, Take
      <3>. QED
        BY <3>1, Headed DEF Backed
    <2>2. /\ deferred' \in Seq(Notes(Closures))
          /\ \A n \in Elements(deferred') : n \in Elements(deferred) \/ Backed(n, contract)
      <3>1. CASE mine = None
        BY <1>1, <1>7, <3>1 DEF HandleGot
      <3>2. CASE mine # None
        <4>1. deferred' = deferred \o <<Note("Refresh", Head(queue).state), Call("Subscribed")>>
          BY <1>7, <3>2 DEF HandleGot
        <4>2. Call("Subscribed") \in Notes(Closures) /\ Backed(Call("Subscribed"), contract)
          <5>1. Call("Subscribed") \in Notes(Closures)
            BY CallNote DEF Closures, Carriers
          <5>. QED
            BY <2>1, <5>1 DEF Call, Note, Backed
        <4>. QED
          BY <1>3, <1>4, <2>1, <4>1, <4>2
      <3>. QED
        BY <3>1, <3>2
    <2>. QED
      BY <1>1, <1>7, <2>2, TakingKeeps DEF HandleGot, Take
  <1>8. CASE HandleNotification
    <2>1. /\ queue # <<>> /\ queue' = Tail(queue) /\ Head(queue).kind \in {"NewState", "NewDelta"}
          /\ Head(queue) \in Notes(Messages) /\ Backed(Head(queue), contract)
      BY <1>8, First DEF HandleNotification, Take
    <2>2. Head(queue) \in Notes(Closures)
      BY <2>1 DEF Notes, Closures
    <2>3. /\ Append(deferred, Head(queue)) \in Seq(Notes(Closures))
          /\ Elements(Append(deferred, Head(queue))) = Elements(deferred) \cup {Head(queue)}
      BY <1>1, <2>2, Pushed
    <2>4. /\ deferred' \in Seq(Notes(Closures))
          /\ \A n \in Elements(deferred') : n \in Elements(deferred) \/ Backed(n, contract)
      BY <1>1, <1>8, <2>1, <2>3 DEF HandleNotification
    <2>. QED
      BY <1>1, <1>8, <2>1, <2>4, TakingKeeps DEF HandleNotification
  <1>. QED
    BY <1>5, <1>6, <1>7, <1>8

---------------------------------------------------------------------------
(* The closures, and the user.                                             *)

LEMMA RunningKeeps ==
    ASSUME IInv, deferred # <<>>, deferred' = Tail(deferred), Copies', Progress', baseline' = baseline,
           status' = "Subscribed" => status = "Subscribed" \/ contract # None,
           UNCHANGED <<link, api, connected, timers, subscribed, queue, requests, contract, troubles, lost>>
    PROVE  IInv'
  <1>1. Tail(deferred) \in Seq(Notes(Closures)) /\ Elements(Tail(deferred)) \subseteq Elements(deferred)
    BY First
  <1>2. Queues'
    BY <1>1 DEF IInv, Types, Queues
  <1>3. Standing'
    BY DEF IInv, Types, Standing
  <1>. QED
    BY <1>1, <1>2, <1>3, QuietKeeps DEF Types

LEMMA Merging ==
    ASSUME NEW s \in Stored, NEW t \in SUBSET Changes
    PROVE  Merged(s, t) \in SUBSET Changes /\ t \subseteq Merged(s, t) /\ (s # None => s \subseteq Merged(s, t))
  BY DEF Merged, Stored

LEMMA Carried ==
    ASSUME IInv, deferred # <<>>, Head(deferred).kind \in {"Merge", "Refresh", "NewState", "NewDelta"}
    PROVE  Head(deferred).state \in SUBSET Changes
  <1>1. Head(deferred) \in Notes(Closures)
    BY First
  <1>. QED
    BY <1>1 DEF Notes, Stored, Carriers

LEMMA ClosuresHold ==
    ASSUME IInv, RunMerge \/ RunRefresh \/ RunNewDelta \/ RunSubscribing \/ RunStatus \/ RunInvite
    PROVE  IInv'
  <1>. USE DEF channel, info, invitation, network
  <1>1. CASE RunMerge \/ RunRefresh \/ RunNewDelta
    <2>1. deferred # <<>> /\ deferred' = Tail(deferred) /\ Head(deferred).kind \in {"Merge", "Refresh", "NewDelta"}
      BY <1>1 DEF RunMerge, RunRefresh, RunNewDelta, Run
    <2>2. Merged(mine, Head(deferred).state) \in SUBSET Changes
      BY <2>1, Carried, Merging DEF IInv, Types, Copies
    <2>3. mine' \in {None, Merged(mine, Head(deferred).state)} /\ stored' \in {stored, mine'}
      BY <1>1 DEF RunMerge, RunRefresh, RunNewDelta, Save
    <2>4. UNCHANGED <<link, api, connected, timers, subscribed, queue, requests, contract, troubles, lost,
                      status, aged, baseline, invite, inviteAged>>
      BY <1>1 DEF RunMerge, RunRefresh, RunNewDelta
    <2>5. Copies'
      BY <2>2, <2>3, <2>4 DEF IInv, Types, Copies, Stored
    <2>6. Progress'
      BY <2>4 DEF IInv, Types, Progress
    <2>. QED
      BY <2>1, <2>4, <2>5, <2>6, RunningKeeps
  <1>2. CASE RunSubscribing
    <2>1. Copies'
      BY <1>2 DEF RunSubscribing, IInv, Types, Copies
    <2>2. Progress'
      BY <1>2 DEF RunSubscribing, IInv, Types, Progress, Statuses
    <2>. QED
      BY <1>2, <2>1, <2>2, RunningKeeps DEF RunSubscribing, Run
  <1>3. CASE RunStatus
    <2>1. PICK s \in {"Subscribed", "Disconnected", "Error"} :
              /\ Run(s)
              /\ status' = IF status = "Unregistered" THEN status ELSE s
              /\ aged' = FALSE
      BY <1>3 DEF RunStatus
    <2>2. s = "Subscribed" => contract # None
      BY <2>1, First DEF Run, Backed
    <2>3. UNCHANGED <<channel, queue, timers, mine, baseline, invitation, stored, network, troubles, lost>>
      BY <1>3 DEF RunStatus
    <2>4. Copies'
      BY <2>3 DEF IInv, Types, Copies
    <2>5. Progress'
      BY <2>1, <2>3 DEF IInv, Types, Progress, Statuses
    <2>. QED
      BY <2>1, <2>2, <2>3, <2>4, <2>5, RunningKeeps DEF Run
  <1>4. CASE RunInvite
    <2>1. Copies'
      BY <1>4 DEF RunInvite, IInv, Types, Copies
    <2>2. Progress'
      BY <1>4 DEF RunInvite, IInv, Types, Progress
    <2>. QED
      BY <1>4, <2>1, <2>2, RunningKeeps DEF RunInvite, Run
  <1>. QED
    BY <1>1, <1>2, <1>3, <1>4

(* The baseline becomes a state the contract has had.                       *)
LEMMA NewStateHolds ==
    ASSUME IInv, RunNewState
    PROVE  IInv'
  <1>. USE DEF channel, info, invitation, network
  <1>1. PICK s : s = Head(deferred).state
    OBVIOUS
  <1>2. /\ deferred # <<>> /\ deferred' = Tail(deferred) /\ Head(deferred).kind = "NewState"
        /\ Tail(deferred) \in Seq(Notes(Closures)) /\ Elements(Tail(deferred)) \subseteq Elements(deferred)
    BY First DEF RunNewState, Run
  <1>3. s \in SUBSET Changes
    BY <1>1, <1>2, Carried
  <1>4. contract # None /\ s \subseteq contract
    BY <1>1, <1>2, First DEF Backed
  <1>5. /\ mine' = IF mine = None THEN None ELSE Merged(mine, s)
        /\ baseline' = IF mine = None THEN baseline ELSE s
        /\ status' = IF status = "Unregistered" THEN "Disconnected" ELSE status
        /\ stored' \in {stored, mine'}
        /\ UNCHANGED <<link, api, connected, queue, timers, aged, invite, inviteAged, requests, contract,
                       subscribed, troubles, lost>>
    BY <1>1 DEF RunNewState, Save
  <1>6. Merged(mine, s) \in SUBSET Changes
    BY <1>3, Merging DEF IInv, Types, Copies
  <1>7. Copies'
    BY <1>3, <1>5, <1>6 DEF IInv, Types, Copies, Stored
  <1>8. Queues'
    BY <1>2, <1>5 DEF IInv, Types, Queues
  <1>9. Standing' /\ Progress'
    BY <1>5 DEF IInv, Types, Standing, Progress, Statuses
  <1>10. Types'
    BY <1>7, <1>8, <1>9 DEF Types
  <1>11. Grown(contract, contract')
    BY <1>5 DEF Grown
  <1>12. Heard'
    BY <1>2, <1>5, <1>11, HeardKept DEF IInv
  <1>13. Basis'
    <2>1. CASE mine = None
      BY <1>5, <1>11, <2>1, BasisKept DEF IInv
    <2>2. CASE mine # None
      BY <1>4, <1>5, <2>2 DEF Basis
    <2>. QED
      BY <2>1, <2>2
  <1>. QED
    BY <1>10, <1>12, <1>13 DEF IInv

LEMMA UserHolds ==
    ASSUME IInv, \/ RunNeedsSync \/ CreateBoard \/ AcceptInvitation \/ RetryOrDismiss \/ ReturnToPage
                 \/ (\E c \in Own : MakeChange(c)) \/ Fire \/ Age
    PROVE  IInv'
  <1>. USE DEF channel, info, invitation, network
  <1>1. UNCHANGED <<requests, baseline, contract, lost, link, api, connected, subscribed>>
    BY DEF RunNeedsSync, MakeChange, CreateBoard, AcceptInvitation, RetryOrDismiss, ReturnToPage, Fire, Age
  <1>2. queue \in Seq(Notes(Messages)) /\ deferred \in Seq(Notes(Closures))
    BY DEF IInv, Types, Queues
  <1>3. /\ queue' \in Seq(Notes(Messages))
        /\ \A n \in Elements(queue') : n \in Elements(queue) \/ Backed(n, contract)
    <2>1. \/ queue' = queue
          \/ \E k \in {"Connect", "RefreshAllBoards", "ProcessBoards", "AcceptInvitation",
                       "PageBecameVisible", "ConnectionLost"} : queue' = Append(queue, Call(k))
      BY DEF RunNeedsSync, MakeChange, CreateBoard, AcceptInvitation, RetryOrDismiss, ReturnToPage,
             Fire, Age, Post
    <2>. QED
      BY <1>2, <2>1, Posting
  <1>4. /\ deferred' \in Seq(Notes(Closures))
        /\ \A n \in Elements(deferred') : n \in Elements(deferred) \/ Backed(n, contract)
    <2>1. CASE RunNeedsSync
      BY <2>1, First DEF RunNeedsSync, Run
    <2>2. CASE CreateBoard \/ \E c \in Own : MakeChange(c)
      <3>1. Defer(<<"NeedsSync">>)
        BY <2>2 DEF CreateBoard, MakeChange
      <3>. QED
        BY <3>1, DefersOne
    <2>3. CASE deferred' = deferred
      BY <1>2, <2>3
    <2>. QED
      BY <2>1, <2>2, <2>3 DEF AcceptInvitation, RetryOrDismiss, ReturnToPage, Fire, Age
  <1>5. Queues'
    BY <1>1, <1>3, <1>4 DEF IInv, Types, Queues
  <1>6. Copies'
    <2>1. CASE \E c \in Own : MakeChange(c)
      BY <2>1 DEF MakeChange, IInv, Types, Copies, Stored, Changes
    <2>2. CASE CreateBoard
      BY <2>2 DEF CreateBoard, IInv, Types, Copies, Stored
    <2>3. CASE RunNeedsSync
      BY <2>3 DEF RunNeedsSync, Save, IInv, Types, Copies
    <2>4. CASE UNCHANGED <<mine, stored>>
      BY <1>1, <2>4 DEF IInv, Types, Copies
    <2>. QED
      BY <2>1, <2>2, <2>3, <2>4 DEF AcceptInvitation, RetryOrDismiss, ReturnToPage, Fire, Age
  <1>7. troubles' \in 0..MaxTroubles
    BY Counted DEF RunNeedsSync, MakeChange, CreateBoard, AcceptInvitation, RetryOrDismiss, ReturnToPage,
                   Fire, Age, SecondsPass
  <1>8. timers' \subseteq timers
    BY DEF RunNeedsSync, MakeChange, CreateBoard, AcceptInvitation, RetryOrDismiss, ReturnToPage, Fire, Age
  <1>9. Standing'
    BY <1>1, <1>7, <1>8 DEF IInv, Types, Standing
  <1>10. Progress' /\ status' = status
    <2>1. CASE Age
      <3>1. /\ status' = status /\ invite' = invite
            /\ aged' = aged \/ (aged' = TRUE /\ status = "Subscribing")
            /\ inviteAged' = inviteAged \/ (inviteAged' = TRUE /\ invite = "Subscribing")
        BY <2>1 DEF Age
      <3>2. aged' \in BOOLEAN /\ inviteAged' \in BOOLEAN
        BY <3>1, Zenon DEF IInv, Types, Progress
      <3>3. (aged' => status' = "Subscribing") /\ (inviteAged' => invite' = "Subscribing")
        BY <3>1 DEF IInv, Types, Progress
      <3>4. status' \in Statuses /\ invite' \in {"none", "Pending", "Subscribing", "Subscribed", "Error"}
        BY <3>1 DEF IInv, Types, Progress
      <3>. QED
        BY <3>1, <3>2, <3>3, <3>4 DEF Progress
    <2>2. CASE AcceptInvitation \/ RetryOrDismiss
      <3>1. UNCHANGED <<status, aged>> /\ invite' \in {"none", "Pending"} /\ inviteAged' = FALSE
        BY <2>2 DEF AcceptInvitation, RetryOrDismiss
      <3>. QED
        BY <3>1 DEF IInv, Types, Progress
    <2>3. CASE UNCHANGED <<status, aged, invite, inviteAged>>
      BY <2>3 DEF IInv, Types, Progress
    <2>. QED
      BY <2>1, <2>2, <2>3 DEF RunNeedsSync, MakeChange, CreateBoard, ReturnToPage, Fire
  <1>11. Elements(requests) \subseteq Elements(requests') /\ lost \subseteq lost'
    BY <1>1
  <1>. QED
    BY <1>1, <1>3, <1>4, <1>5, <1>6, <1>9, <1>10, <1>11, QuietKeeps DEF Types

---------------------------------------------------------------------------
(* The node and the others.                                                *)

LEMMA NodeHolds ==
    ASSUME IInv, NEW s \in Stored, contract' = s, Grown(contract, s),
           queue' \in Seq(Notes(Messages)),
           \A n \in Elements(queue') : n \in Elements(queue) \/ Backed(n, s),
           requests' \in Seq(Notes(Requests)), Elements(requests') \subseteq Elements(requests),
           lost' \subseteq Own, lost \subseteq lost',
           \A c \in Publishing(requests) :
               c \in lost' \/ c \in Publishing(requests') \/ (s # None /\ c \in s),
           Standing', UNCHANGED <<deferred, mine, info, invitation, stored>>
    PROVE  IInv'
  <1>1. Queues' /\ Copies'
    BY DEF IInv, Types, Queues, Copies, info
  <1>2. Progress'
    BY DEF IInv, Types, Progress, info, invitation
  <1>3. Heard'
    BY HeardKept DEF IInv, info
  <1>4. Basis'
    BY BasisKept DEF IInv, info
  <1>. QED
    BY <1>1, <1>2, <1>3, <1>4 DEF IInv, Types

LEMMA Notified ==
    ASSUME IInv, NEW s \in Stored, Grown(contract, s), s # None,
           NEW n \in Notification(s)
    PROVE  n \in Seq(Notes(Messages)) /\ \A m \in Elements(n) : Backed(m, s)
  <1>1. s \in SUBSET Changes /\ s \ Merged(contract, {}) \in SUBSET Changes
    BY DEF Stored
  <1>2. CASE n = <<Note("NewState", s)>>
    <2>1. /\ Note("NewState", s) \in Notes(Messages) /\ Note("NewState", s).kind = "NewState"
          /\ Note("NewState", s).state = s
      BY <1>1, StateNote DEF Messages
    <2>2. Backed(Note("NewState", s), s)
      BY <2>1 DEF Backed
    <2>. QED
      BY <1>2, <2>1, <2>2, Single
  <1>3. CASE n = <<Note("NewDelta", s \ Merged(contract, {}))>>
    <2>1. PICK d : d = s \ Merged(contract, {})
      OBVIOUS
    <2>2. Note("NewDelta", d) \in Notes(Messages) /\ Backed(Note("NewDelta", d), s)
      BY <1>1, <2>1, StateNote, CallBacked DEF Messages
    <2>. QED
      BY <1>3, <2>1, <2>2, Single
  <1>4. CASE n = <<>>
    BY <1>4, Empty
  <1>. QED
    BY <1>2, <1>3, <1>4 DEF Notification

LEMMA Answered ==
    ASSUME IInv, NEW s \in Stored, NEW notes \in Seq(Notes(Messages)), Answer(notes),
           \A m \in Elements(notes) : Backed(m, s)
    PROVE  /\ queue' \in Seq(Notes(Messages))
           /\ \A n \in Elements(queue') : n \in Elements(queue) \/ Backed(n, s)
  BY Joined DEF Answer, IInv, Types, Queues

LEMMA OthersChangeHolds ==
    ASSUME IInv, NEW c \in Others, OthersChange(c)
    PROVE  IInv'
  <1>1. PICK s : s = contract \cup {c}
    OBVIOUS
  <1>2. s \in SUBSET Changes /\ s \in Stored /\ s # None /\ Grown(contract, s)
    <2>1. contract \in SUBSET Changes
      BY DEF OthersChange, IInv, Types, Copies, Stored
    <2>2. s \in SUBSET Changes
      BY <1>1, <2>1 DEF Changes
    <2>. QED
      BY <1>1, <2>2, NoneAssumption DEF Stored, Grown, Changes
  <1>3. PICK n \in Notification(s) : Answer(n)
    BY <1>1 DEF OthersChange
  <1>4. /\ queue' \in Seq(Notes(Messages))
        /\ \A m \in Elements(queue') : m \in Elements(queue) \/ Backed(m, s)
    BY <1>2, <1>3, Notified, Answered
  <1>5. Standing'
    BY DEF OthersChange, channel, IInv, Types, Standing
  <1>. QED
    BY <1>1, <1>2, <1>4, <1>5, NodeHolds DEF OthersChange, IInv, Types, Queues, Copies

(* A request of which the node makes nothing but an answer.                *)
LEMMA ServeHolds ==
    ASSUME IInv, Serve
    PROVE  IInv'
  <1>1. PICK r, s : r = Head(requests) /\ s = Applied(contract, r)
    OBVIOUS
  <1>2. /\ r \in Notes(Requests) /\ Tail(requests) \in Seq(Notes(Requests))
        /\ Elements(requests) = {r} \cup Elements(Tail(requests))
        /\ Backed(r, contract)
    BY <1>1, First DEF Serve
  <1>3. r.kind \in {"Put", "Update"} => r.state \in SUBSET Changes
    BY <1>2 DEF Notes, Stored, Carriers
  <1>4. s \in Stored /\ Grown(contract, s)
    <2>1. contract \in Stored
      BY DEF IInv, Types, Copies
    <2>2. CASE s = contract
      BY <2>1, <2>2 DEF Grown
    <2>3. CASE s # contract
      <3>1. s = Merged(contract, r.state) /\ r.kind \in {"Put", "Update"}
        BY <1>1, <2>3 DEF Applied
      <3>2. s \in SUBSET Changes /\ (contract # None => contract \subseteq s)
        BY <1>3, <2>1, <3>1, Merging
      <3>3. s # None
        BY <3>2, NoneAssumption DEF Changes
      <3>. QED
        BY <3>2, <3>3 DEF Stored, Grown
    <2>. QED
      BY <2>2, <2>3
  <1>5. r.kind \in {"Put", "Update"} => s # None /\ r.state \subseteq s
    <2>. SUFFICES ASSUME r.kind \in {"Put", "Update"}
                  PROVE  s # None /\ r.state \subseteq s
      OBVIOUS
    <2>1. r.kind = "Update" => contract # None
      BY <1>2 DEF Backed
    <2>2. s = Merged(contract, r.state)
      BY <1>1, <2>1 DEF Applied
    <2>3. s \in SUBSET Changes /\ r.state \subseteq s
      BY <1>3, <2>2, Merging DEF IInv, Types, Copies
    <2>. QED
      BY <2>3, NoneAssumption DEF Changes
  <1>6. /\ queue' \in Seq(Notes(Messages))
        /\ \A n \in Elements(queue') : n \in Elements(queue) \/ Backed(n, s)
    <2>1. \A x \in Notes(Messages) : Backed(x, s) /\ Answer(<<x>>) =>
              /\ queue' \in Seq(Notes(Messages))
              /\ \A n \in Elements(queue') : n \in Elements(queue) \/ Backed(n, s)
      <3>. SUFFICES ASSUME NEW x \in Notes(Messages), Backed(x, s), Answer(<<x>>)
                    PROVE  /\ queue' \in Seq(Notes(Messages))
                           /\ \A n \in Elements(queue') : n \in Elements(queue) \/ Backed(n, s)
        OBVIOUS
      <3>1. PICK t : t = <<x>>
        OBVIOUS
      <3>2. t \in Seq(Notes(Messages)) /\ Elements(t) = {x}
        BY <3>1, Single
      <3>3. Answer(t)
        BY <3>1
      <3>. QED
        BY <1>4, <3>2, <3>3, Answered
    <2>2. \A k \in {"NotFound", "SubscribeFailed"} : Call(k) \in Notes(Messages) /\ Backed(Call(k), s)
      BY CallNote, CallBacked DEF Messages, Carriers
    <2>3. s # None => \A k \in {"PutDone", "SubscribeOk"} :
                          Call(k) \in Notes(Messages) /\ Backed(Call(k), s)
      <3>1. \A k \in {"PutDone", "SubscribeOk"} : Call(k) \in Notes(Messages)
        BY CallNote DEF Messages, Carriers
      <3>2. s # None => \A k \in {"PutDone", "SubscribeOk"} : Backed(Call(k), s)
        BY DEF Backed, Call, Note
      <3>. QED
        BY <3>1, <3>2
    <2>4. CASE r.kind = "Load"
      <3>1. Answer(<<Note("Loaded", stored)>>)
        BY <1>1, <2>4 DEF Serve
      <3>2. Note("Loaded", stored) \in Notes(Messages) /\ Backed(Note("Loaded", stored), s)
        BY DEF Note, Notes, Messages, Carriers, Backed, IInv, Types, Copies
      <3>. QED
        BY <2>1, <3>1, <3>2
    <2>5. CASE r.kind = "Get"
      <3>1. Answer(IF s = None THEN <<Call("NotFound")>> ELSE <<Note("Got", s)>>)
        BY <1>1, <2>5 DEF Serve
      <3>2. s # None => Note("Got", s) \in Notes(Messages) /\ Backed(Note("Got", s), s)
        <4>1. s # None => s \in SUBSET Changes
          BY <1>4 DEF Stored
        <4>. QED
          BY <4>1, StateNote DEF Messages, Backed
      <3>. QED
        BY <2>1, <2>2, <3>1, <3>2
    <2>6. CASE r.kind = "Subscribe"
      <3>1. Answer(IF s = None THEN <<Call("SubscribeFailed")>> ELSE <<Call("SubscribeOk")>>)
        BY <1>1, <2>6 DEF Serve
      <3>. QED
        BY <2>1, <2>2, <2>3, <3>1
    <2>7. CASE r.kind = "Put"
      <3>1. PICK n \in Notification(s) : Answer(<<Call("PutDone")>> \o n)
        BY <1>1, <2>7 DEF Serve
      <3>2. n \in Seq(Notes(Messages)) /\ \A m \in Elements(n) : Backed(m, s)
        BY <1>4, <1>5, <2>7, Notified
      <3>3. Call("PutDone") \in Notes(Messages) /\ Backed(Call("PutDone"), s)
        BY <1>5, <2>3, <2>7
      <3>4. PICK t : t = <<Call("PutDone")>>
        OBVIOUS
      <3>5. t \in Seq(Notes(Messages)) /\ Elements(t) = {Call("PutDone")}
        BY <3>3, <3>4, Single
      <3>6. t \o n \in Seq(Notes(Messages)) /\ \A m \in Elements(t \o n) : Backed(m, s)
        BY <3>2, <3>3, <3>5, Joined
      <3>7. Answer(t \o n)
        BY <3>1, <3>4
      <3>. QED
        BY <1>4, <3>6, <3>7, Answered
    <2>8. CASE r.kind = "Update"
      <3>1. PICK n \in Notification(s) : Answer(n)
        BY <1>1, <1>5, <2>8 DEF Serve
      <3>. QED
        BY <1>4, <1>5, <2>8, <3>1, Notified, Answered
    <2>. QED
      BY <1>1, <2>4, <2>5, <2>6, <2>7, <2>8 DEF Serve
  <1>7. \A c \in Publishing(requests) : c \in Publishing(Tail(requests)) \/ (s # None /\ c \in s)
    BY <1>2, <1>5 DEF Publishing
  <1>8. Standing'
    <2>1. subscribed' \in BOOLEAN
      BY DEF Serve, IInv, Types, Standing
    <2>. QED
      BY <2>1 DEF Serve, channel, IInv, Types, Standing
  <1>9. /\ contract' = s /\ requests' = Tail(requests)
        /\ UNCHANGED <<deferred, mine, info, invitation, stored, lost>>
    BY <1>1 DEF Serve
  <1>10. lost' \subseteq Own /\ lost \subseteq lost'
    BY <1>9 DEF IInv, Types, Copies
  <1>11. requests' \in Seq(Notes(Requests)) /\ Elements(requests') \subseteq Elements(requests)
    BY <1>2, <1>9
  <1>. QED
    BY <1>4, <1>6, <1>7, <1>8, <1>9, <1>10, <1>11, NodeHolds

LEMMA BreakHolds ==
    ASSUME IInv, Break
    PROVE  IInv'
  <1>1. PICK n \in 0..Len(requests) : contract' = AppliedAll(contract, SubSeq(requests, 1, n))
    BY DEF Break
  <1>2. PICK served : served = SubSeq(requests, 1, n)
    OBVIOUS
  <1>3. served \in Seq(Notes(Requests)) /\ Elements(served) \subseteq Elements(requests)
    BY <1>2, Cut DEF IInv, Types, Queues
  <1>4. PICK s : s = AppliedAll(contract, served)
    OBVIOUS
  <1>5. s \in Stored /\ Grown(contract, s)
    <2>1. contract \in Stored
      BY DEF IInv, Types, Copies
    <2>2. \A i \in DOMAIN served : served[i].kind \in {"Put", "Update"} => served[i].state \in SUBSET Changes
      BY <1>3, ElementOfSeq DEF Notes, Stored, Carriers
    <2>3. PICK sent : sent = {served[i] : i \in {j \in DOMAIN served : served[j].kind \in {"Put", "Update"}}}
      OBVIOUS
    <2>4. s = IF contract = None /\ \A r \in sent : r.kind # "Put" THEN None
              ELSE Merged(contract, UNION {r.state : r \in sent})
      BY <1>4, <2>3 DEF AppliedAll
    <2>5. UNION {r.state : r \in sent} \in SUBSET Changes
      BY <2>2, <2>3
    <2>6. CASE s = None /\ contract = None
      BY <2>1, <2>6 DEF Grown
    <2>7. CASE s = Merged(contract, UNION {r.state : r \in sent})
      <3>1. s \in SUBSET Changes /\ (contract # None => contract \subseteq s)
        BY <2>1, <2>5, <2>7, Merging
      <3>. QED
        BY <3>1, NoneAssumption DEF Stored, Grown, Changes
    <2>. QED
      BY <2>4, <2>6, <2>7
  <1>6. /\ queue' \in Seq(Notes(Messages))
        /\ \A m \in Elements(queue') : m \in Elements(queue) \/ Backed(m, s)
    BY Posting DEF Break, Post, IInv, Types, Queues
  <1>7. lost' = lost \cup Publishing(requests) /\ Publishing(requests) \subseteq Own
    BY PublishedIs DEF Break, Publishing, IInv, Types, Queues
  <1>8. requests' \in Seq(Notes(Requests)) /\ Elements(requests') \subseteq Elements(requests)
    BY Empty DEF Break
  <1>9. Standing'
    <2>1. troubles' \in 0..MaxTroubles
      BY Counted DEF Break
    <2>. QED
      BY <2>1 DEF Break, IInv, Types, Standing
  <1>10. contract' = s /\ lost \subseteq lost' /\ lost' \subseteq Own
    BY <1>1, <1>2, <1>4, <1>7 DEF IInv, Types, Copies
  <1>11. UNCHANGED <<deferred, mine, info, invitation, stored>>
    BY DEF Break
  <1>. QED
    BY <1>5, <1>6, <1>7, <1>8, <1>9, <1>10, <1>11, NodeHolds

---------------------------------------------------------------------------

LEMMA InitHolds == Init => IInv
  <1>. SUFFICES ASSUME Init
                PROVE  IInv
    OBVIOUS
  <1>1. Call("Connect") \in Notes(Messages) /\ Backed(Call("Connect"), contract)
    BY CallNote, CallBacked DEF Messages, Carriers
  <1>2. queue \in Seq(Notes(Messages)) /\ Elements(queue) = {Call("Connect")}
    BY <1>1, Single DEF Init
  <1>3. /\ deferred \in Seq(Notes(Closures)) /\ Elements(deferred) = {}
        /\ requests \in Seq(Notes(Requests)) /\ Elements(requests) = {}
    BY Empty DEF Init
  <1>4. Queues /\ Copies
    BY <1>2, <1>3 DEF Init, Queues, Copies, Stored
  <1>5. Standing /\ Progress
    <2>1. /\ link = FALSE /\ api = FALSE /\ connected = FALSE /\ subscribed = FALSE
          /\ aged = FALSE /\ inviteAged = FALSE
          /\ timers = {} /\ troubles = 0 /\ status = "Unregistered" /\ invite = "none"
      BY DEF Init
    <2>2. troubles \in 0..MaxTroubles
      BY <2>1, BoundAssumption
    <2>3. Standing
      BY <2>1, <2>2 DEF Standing
    <2>4. Progress
      BY <2>1 DEF Progress, Statuses
    <2>. QED
      BY <2>3, <2>4
  <1>6. Heard /\ Basis
    BY <1>1, <1>2, <1>3 DEF Init, Heard, Basis
  <1>. QED
    BY <1>4, <1>5, <1>6 DEF IInv, Types

LEMMA NextHolds == IInv /\ [Next]_vars => IInv'
  <1>. SUFFICES ASSUME IInv, [Next]_vars
                PROVE  IInv'
    OBVIOUS
  <1>1. CASE Handle
    BY <1>1, PlainHolds, ProcessHolds, AnswersHold, StatesHold DEF Handle
  <1>2. CASE RunDeferred
    BY <1>2, ClosuresHold, NewStateHolds, UserHolds DEF RunDeferred
  <1>3. CASE User \/ Fire \/ Age
    BY <1>3, UserHolds DEF User
  <1>4. CASE Serve \/ Break \/ \E c \in Others : OthersChange(c)
    BY <1>4, ServeHolds, BreakHolds, OthersChangeHolds
  <1>5. CASE UNCHANGED vars
    <2>1. UNCHANGED <<link, api, connected, queue, deferred, timers, mine, status, aged, baseline, invite,
                      inviteAged, stored, requests, contract, subscribed, troubles, lost>>
      BY <1>5 DEF vars, channel, info, invitation, network
    <2>2. Types'
      BY <2>1 DEF IInv, Types, Queues, Copies, Standing, Progress
    <2>. QED
      BY <2>1, <2>2, QuietKeeps
  <1>. QED
    BY <1>1, <1>2, <1>3, <1>4, <1>5 DEF Next

LEMMA AlwaysHolds == Spec => []IInv
  BY InitHolds, NextHolds, PTL DEF Spec

(* Messages, closures and requests are of the kinds the handlers know, and  *)
(* the timed attempts to subscribe and to join belong to one under way.     *)
THEOREM SyncTypes == Spec => []TypeOK
  <1>1. IInv => TypeOK
    <2>. SUFFICES ASSUME IInv
                  PROVE  TypeOK
      OBVIOUS
    <2>1. /\ \A i \in DOMAIN queue : queue[i].kind \in Messages
          /\ \A i \in DOMAIN deferred : deferred[i].kind \in Closures
          /\ \A i \in DOMAIN requests : requests[i].kind \in Requests
      BY ElementOfSeq, LenProperties DEF IInv, Types, Queues, Notes
    <2>2. {link, api, connected, aged, inviteAged, subscribed} \subseteq BOOLEAN
      BY DEF IInv, Types, Standing, Progress
    <2>3. {mine, baseline, stored, contract} \subseteq {None} \cup SUBSET Changes
      BY DEF IInv, Types, Copies, Stored
    <2>. QED
      BY <2>1, <2>2, <2>3 DEF TypeOK, IInv, Types, Copies, Standing, Progress
  <1>. QED
    BY <1>1, AlwaysHolds, PTL

(* However requests, answers, closures and lost connections interleave, the *)
(* baseline with which needs_to_send_update compares the board has no       *)
(* change of the user that was neither sent nor applied: one that is still  *)
(* to be published shows as a difference.                                  *)
THEOREM ChangesStayNoticed == Spec => []ChangesNoticed
  <1>1. IInv => ChangesNoticed
    <2>. SUFFICES ASSUME IInv, NEW c \in Own, c \notin Merged(contract, {}),
                         c \notin Published(requests), c \notin lost, baseline # None
                  PROVE  c \notin baseline
      BY DEF ChangesNoticed
    <2>1. c \notin Publishing(requests)
      BY PublishedIs DEF IInv, Types, Queues
    <2>2. ~(contract # None /\ c \in contract)
      BY DEF Merged
    <2>. QED
      BY <2>1, <2>2 DEF IInv, Basis
  <1>. QED
    BY <1>1, AlwaysHolds, PTL
=============================================================================
