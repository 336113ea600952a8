-------------------------- MODULE CliStreamProofs --------------------------
(***************************************************************************)
(* What the command line client writes when it lists or follows a board,   *)
(* for any commands, messages and faults.                                  *)
(*                                                                         *)
(* What is written is in seen_messages, and so is all that the first       *)
(* answer of a subscription held.  Only a message whose fetch failed leaves *)
(* it, and that one was neither written nor there at first.                *)
(*                                                                         *)
(* A message written from a delta has not been deleted by then: what a     *)
(* board has deleted stays deleted, and every answer after the delta was   *)
(* sent later, so the one taken for the fetch has deleted what was deleted *)
(* when the delta was sent.                                                *)
(***************************************************************************)
EXTENDS CliStream, FiniteSetTheorems, SequenceTheorems, WellFoundedInduction, TLAPS

Ways == {"first", "new", "state", "delta"}
Written == [id : Times, how : Ways, gone : BOOLEAN]

(* A sequence, of whatever.                                                *)
IsSeq(s) == s \in Seq({s[i] : i \in DOMAIN s})

Packet(p) == p.kind \in Messages /\ p.ids \subseteq DOMAIN posted /\ "ids" \in DOMAIN p

Packets == IsSeq(socket) /\ \A i \in DOMAIN socket : Packet(socket[i])

Phases == {"start", "first", "poll", "polling", "subscribing", "listen", "handling",
           "fetching", "done"}

(* TypeOK without what it counts.                                          *)
Types ==
    /\ command \in Commands
    /\ DOMAIN posted \subseteq Times
    /\ Packets
    /\ requests \in Seq({"get", "subscribe"})
    /\ pc \in Phases
    /\ seen \subseteq DOMAIN posted /\ known \subseteq DOMAIN posted
    /\ news.ids \subseteq DOMAIN posted /\ "ids" \in DOMAIN news
    /\ pc = "fetching" => news.ids # {}
    /\ shown \in Seq(Written) /\ \A i \in DOMAIN shown : shown[i].id \in DOMAIN posted

(* Where each command can be, and what may be under way there.             *)
Courses ==
    /\ pc \in {"start", "first"} =>
        ~subscribed /\ shown = <<>> /\ seen = {} /\ known = {} /\ count = 0
    /\ pc = "start" => requests = <<>> /\ socket = <<>>
    /\ pc = "first" =>
        \/ requests = <<"get">> /\ socket = <<>>
        \/ requests = <<>> /\ Len(socket) = 1 /\ socket[1].kind \in {"get", "failed"}
    /\ pc = "subscribing" =>
        \/ requests = <<>>
        \/ requests = <<"subscribe">> /\ socket = <<>> /\ ~subscribed
    /\ pc \in {"poll", "polling", "listen", "handling", "fetching"} => requests \in Seq({"get"})
    /\ pc \in {"poll", "polling"} => command.mode = "poll"
    /\ pc \in {"subscribing", "listen", "handling", "fetching"} => command.mode = "subscribe"

(* The lines of news.                                                      *)
News(s) == {i \in DOMAIN s : s[i].how # "first"}
Counted == count = Cardinality(News(shown))

Awaited ==
    pc \in {"first", "polling", "fetching"} =>
        requests # <<>> \/ \E i \in DOMAIN socket : socket[i].kind \in {"get", "failed"}

Old == Authored(Has(known))
Shown == {shown[i].id : i \in DOMAIN shown}

(* The message in hand while it is fetched.                                *)
InHand == Oldest(news.ids)

Remembered ==
    /\ command.mode # "list" => Shown \subseteq seen
    /\ command.mode = "subscribe" => Old \subseteq seen
    /\ pc = "fetching" => InHand \in seen /\ InHand \notin Shown \cup Old

(* OldStaysOld.                                                            *)
OldFirst ==
    command.mode = "subscribe" =>
        \A i \in DOMAIN shown : shown[i].id \in Old => shown[i].how = "first"

Outcome == Counted /\ Remembered /\ ShownOnce /\ OldFirst
IInv == Types /\ Courses /\ Awaited /\ Outcome

---------------------------------------------------------------------------
(* Sequences.                                                              *)

(* Sequences, of whatever, at both ends.                                   *)
LEMMA AnySeq == ASSUME NEW S, NEW s \in Seq(S) PROVE IsSeq(s)
  <1>1. Len(s) \in Nat /\ DOMAIN s = 1..Len(s) /\ s \in [1..Len(s) -> S]
    BY LenProperties
  <1>2. s \in [1..Len(s) -> {s[i] : i \in DOMAIN s}]
    BY <1>1
  <1>. QED
    BY <1>1, <1>2, SeqDef DEF IsSeq

(* An item put at the end.                                                 *)
LEMMA Pushed ==
    ASSUME NEW s, IsSeq(s), NEW x
    PROVE  /\ IsSeq(Append(s, x)) /\ DOMAIN s = 1..Len(s) /\ Len(s) \in Nat
           /\ Len(Append(s, x)) = Len(s) + 1 /\ DOMAIN Append(s, x) = 1..(Len(s) + 1)
           /\ \A i \in 1..Len(s) : Append(s, x)[i] = s[i]
           /\ Append(s, x)[Len(s) + 1] = x
  <1>. DEFINE S == {s[i] : i \in DOMAIN s} \cup {x}
  <1>1. s \in Seq(S) /\ x \in S
    BY SeqMonotonic DEF IsSeq
  <1>. HIDE DEF S
  <1>2. /\ Append(s, x) \in Seq(S) /\ Len(Append(s, x)) = Len(s) + 1
        /\ \A i \in 1..Len(s) : Append(s, x)[i] = s[i]
        /\ Append(s, x)[Len(s) + 1] = x
    BY <1>1, AppendProperties
  <1>. QED
    BY <1>1, <1>2, AnySeq, LenProperties

(* The first item taken away.                                              *)
LEMMA Popped ==
    ASSUME NEW s, IsSeq(s), s # <<>>
    PROVE  /\ IsSeq(Tail(s)) /\ DOMAIN s = 1..Len(s) /\ Len(s) \in Nat \ {0}
           /\ 1 \in DOMAIN s /\ Head(s) = s[1]
           /\ Len(Tail(s)) = Len(s) - 1 /\ DOMAIN Tail(s) = 1..(Len(s) - 1)
           /\ \A i \in DOMAIN Tail(s) : i + 1 \in DOMAIN s /\ Tail(s)[i] = s[i + 1]
  <1>. DEFINE S == {s[i] : i \in DOMAIN s}
  <1>1. s \in Seq(S)
    BY DEF IsSeq
  <1>. HIDE DEF S
  <1>2. /\ Tail(s) \in Seq(S) /\ Len(Tail(s)) = Len(s) - 1
        /\ \A i \in 1..Len(Tail(s)) : Tail(s)[i] = s[i + 1]
    BY <1>1, HeadTailProperties
  <1>3. Len(s) \in Nat \ {0} /\ DOMAIN s = 1..Len(s) /\ DOMAIN Tail(s) = 1..Len(Tail(s))
    BY <1>1, <1>2, EmptySeq, LenProperties
  <1>4. Head(s) = s[1]
    BY <1>1, <1>3
  <1>5. IsSeq(Tail(s))
    BY <1>2, AnySeq
  <1>. QED
    BY <1>2, <1>3, <1>4, <1>5

---------------------------------------------------------------------------
(* Messages in order.                                                      *)

(* How many are before each message says which place it has: no two have   *)
(* the same number, and as many numbers are taken as there are messages.   *)
LEMMA Ranks ==
    ASSUME NEW S \in SUBSET Times
    PROVE  /\ Cardinality(S) \in Nat
           /\ \A i \in 1..Cardinality(S) : \E t \in S : Cardinality({u \in S : u < t}) = i - 1
  <1>. DEFINE Before(t) == {u \in S : u < t}
              n == Cardinality(S)
              rank == [t \in S |-> Cardinality(Before(t))]
  <1>1. IsFiniteSet(S) /\ n \in Nat /\ S \subseteq Nat
    <2>1. IsFiniteSet(Times) /\ Times \subseteq Nat
      BY MaxTimeAssumption, FS_Interval DEF Times
    <2>. QED
      BY <2>1, FS_Subset, FS_CardinalityType
  <1>2. ASSUME NEW t \in S
        PROVE  Cardinality(Before(t)) \in 0..(n - 1)
    <2>1. Before(t) \in SUBSET S /\ Before(t) # S
      BY <1>1
    <2>. QED
      BY <1>1, <2>1, FS_Subset, FS_CardinalityType
  <1>3. ASSUME NEW t \in S, NEW u \in S, t < u
        PROVE  rank[t] # rank[u]
    <2>1. \A v \in S : v < t => v < u
      BY <1>1, <1>3
    <2>2. t \in Before(u) /\ t \notin Before(t)
      BY <1>1, <1>3
    <2>3. Before(t) \in SUBSET Before(u)
      BY <2>1
    <2>4. IsFiniteSet(Before(u))
      <3>1. Before(u) \in SUBSET S
        OBVIOUS
      <3>. QED
        BY <1>1, <3>1, FS_Subset
    <2>5. Cardinality(Before(t)) # Cardinality(Before(u))
      BY <2>2, <2>3, <2>4, FS_Subset
    <2>. QED
      BY <2>5
  <1>4. \A t, u \in S : rank[t] = rank[u] => t = u
    <2>1. \A t, u \in S : t = u \/ t < u \/ u < t
      BY <1>1
    <2>. QED
      BY <1>3, <2>1
  <1>5. rank \in Injection(S, 0..(n - 1))
    BY <1>2, <1>4 DEF Injection, IsInjective
  <1>6. IsFiniteSet(0..(n - 1)) /\ Cardinality(0..(n - 1)) = n
    <2>. HIDE DEF n
    <2>1. 0 \in Int /\ n - 1 \in Int /\ (IF 0 > n - 1 THEN 0 ELSE n - 1 - 0 + 1) = n
      BY <1>1
    <2>. QED
      BY <2>1, FS_Interval
  <1>7. rank \in Surjection(S, 0..(n - 1))
    BY <1>5, <1>6, FS_Injection
  <1>8. \A i \in 0..(n - 1) : \E t \in S : rank[t] = i
    BY <1>7 DEF Surjection
  <1>. QED
    BY <1>1, <1>8

(* The oldest of some messages is one of them, and not newer than any.     *)
LEMMA OldestFacts ==
    ASSUME NEW S \in SUBSET Times, S # {}
    PROVE  Oldest(S) \in S /\ \A u \in S : Oldest(S) <= u
  <1>1. IsFiniteSet(S) /\ S \subseteq Nat /\ Cardinality(S) \in Nat \ {0}
    <2>1. IsFiniteSet(Times) /\ Times \subseteq Nat
      BY MaxTimeAssumption, FS_Interval DEF Times
    <2>. QED
      BY <2>1, FS_Subset, FS_CardinalityType, FS_EmptySet
  <1>2. PICK t \in S : Cardinality({u \in S : u < t}) = 0
    <2>1. 1 \in 1..Cardinality(S) /\ 1 - 1 = 0
      BY <1>1
    <2>2. \E t \in S : Cardinality({u \in S : u < t}) = 1 - 1
      BY <2>1, Ranks
    <2>. QED
      BY <2>1, <2>2
  <1>3. {u \in S : u < t} \in SUBSET S
    OBVIOUS
  <1>4. {u \in S : u < t} = {}
    BY <1>1, <1>2, <1>3, FS_Subset, FS_EmptySet
  <1>5. \A u \in S : t <= u
    BY <1>1, <1>4
  <1>. QED
    BY <1>5 DEF Oldest

(* Messages in the order of their times, each once.                        *)
LEMMA SortedFacts ==
    ASSUME NEW S \in SUBSET Times
    PROVE  /\ Sorted(S) \in Seq(S) /\ Len(Sorted(S)) = Cardinality(S) /\ Cardinality(S) \in Nat
           /\ \A i, j \in 1..Cardinality(S) : Sorted(S)[i] = Sorted(S)[j] => i = j
  <1>. DEFINE s == Sorted(S)
              n == Cardinality(S)
  <1>1. n \in Nat /\ s = [i \in 1..n |-> CHOOSE t \in S : Cardinality({u \in S : u < t}) = i - 1]
    BY Ranks DEF Sorted
  <1>2. ASSUME NEW i \in 1..n
        PROVE  s[i] \in S /\ Cardinality({u \in S : u < s[i]}) = i - 1
    <2>1. s[i] = CHOOSE t \in S : Cardinality({u \in S : u < t}) = i - 1
      BY <1>1
    <2>2. \E t \in S : Cardinality({u \in S : u < t}) = i - 1
      BY Ranks
    <2>. QED
      BY <2>1, <2>2
  <1>3. s \in [1..n -> S]
    BY <1>1, <1>2
  <1>4. s \in Seq(S)
    BY <1>1, <1>3, SeqDef
  <1>5. Len(s) = n
    BY <1>1, <1>3, <1>4, LenProperties
  <1>6. \A i, j \in 1..n : s[i] = s[j] => i = j
    <2>. SUFFICES ASSUME NEW i \in 1..n, NEW j \in 1..n, s[i] = s[j]
                  PROVE  i = j
      OBVIOUS
    <2>1. i - 1 = j - 1
      BY <1>2
    <2>. QED
      BY <1>1, <2>1
  <1>. QED
    BY <1>1, <1>4, <1>5, <1>6

---------------------------------------------------------------------------
(* What is written.                                                        *)

(* Messages of S, none of them twice.                                      *)
Listing(s, S) ==
    /\ s \in Seq(S) /\ Len(s) \in Nat /\ DOMAIN s = 1..Len(s)
    /\ \A i, j \in 1..Len(s) : s[i] = s[j] => i = j

(* Messages left out of a sequence.                                        *)
LEMMA Selected ==
    ASSUME NEW S \in SUBSET Times, NEW a \in Nat \ {0}, NEW b \in Int, b <= Len(Sorted(S))
    PROVE  Listing(SubSeq(Sorted(S), a, b), S)
  <1>. DEFINE s == Sorted(S)
              r == SubSeq(s, a, b)
  <1>1. /\ s \in Seq(S) /\ Len(s) \in Nat /\ b <= Len(s)
        /\ \A i, j \in 1..Len(s) : s[i] = s[j] => i = j
    BY SortedFacts
  <1>. HIDE DEF s
  <1>2. \A i \in a..b : i \in 1..Len(s) /\ s[i] \in S
    BY <1>1, ElementOfSeq
  <1>3. /\ r \in Seq(S)
        /\ Len(r) = IF a <= b THEN b - a + 1 ELSE 0
        /\ \A i \in 1..(b - a + 1) : r[i] = s[a + i - 1]
    BY <1>2, SubSeqProperties
  <1>. HIDE DEF r
  <1>4. Len(r) \in Nat /\ DOMAIN r = 1..Len(r)
    BY <1>3, LenProperties
  <1>5. \A i \in 1..Len(r) : a + i - 1 \in a..b /\ r[i] = s[a + i - 1]
    BY <1>3
  <1>6. \A i, j \in 1..Len(r) : r[i] = r[j] => i = j
    <2>. SUFFICES ASSUME NEW i \in 1..Len(r), NEW j \in 1..Len(r), r[i] = r[j]
                  PROVE  i = j
      OBVIOUS
    <2>1. a + i - 1 = a + j - 1
      BY <1>1, <1>2, <1>5
    <2>. QED
      BY <2>1
  <1>7. Listing(r, S)
    BY <1>3, <1>4, <1>6 DEF Listing
  <1>. QED
    BY <1>7 DEF r, s

(* The last few of a sequence.                                             *)
LEMMA LastSelected ==
    ASSUME NEW S \in SUBSET Times, NEW n \in Nat
    PROVE  Listing(LastOf(Sorted(S), n), S)
  <1>. DEFINE a == IF n < Len(Sorted(S)) THEN Len(Sorted(S)) - n + 1 ELSE 1
  <1>1. Len(Sorted(S)) \in Nat /\ a \in Nat \ {0}
    BY SortedFacts
  <1>2. LastOf(Sorted(S), n) = SubSeq(Sorted(S), a, Len(Sorted(S)))
    BY DEF LastOf
  <1>. HIDE DEF a
  <1>. QED
    BY <1>1, <1>2, Selected

LEMMA LineFields == \A t, how, gone : Line(t, how, gone).id = t /\ Line(t, how, gone).how = how
  BY Zenon DEF Line

(* What is written is one of Written.                                      *)
LEMMA LineType ==
    ASSUME NEW t \in Times, NEW how \in Ways, NEW gone
    PROVE  Line(t, how, gone) \in Written
  <1>. DEFINE g == t \in gone
  <1>1. Line(t, how, gone) = [id |-> t, how |-> how, gone |-> g] /\ g \in BOOLEAN
    BY DEF Line
  <1>. HIDE DEF g
  <1>. QED
    BY <1>1 DEF Written

Wrote(l, s, how) == \A i \in 1..Len(s) : l[i].id = s[i] /\ l[i].how = how

(* The lines for a sequence of messages are about those, in their order.   *)
LEMMA LinesFacts ==
    ASSUME NEW S \in SUBSET Times, NEW s, Listing(s, S), NEW gone, NEW how \in Ways,
           NEW l, l = Lines(s, how, gone)
    PROVE  /\ l \in Seq(Written) /\ Len(l) = Len(s) /\ DOMAIN l = 1..Len(s)
           /\ Wrote(l, s, how)
  <1>1. /\ s \in Seq(S) /\ Len(s) \in Nat /\ DOMAIN s = 1..Len(s)
        /\ \A i \in 1..Len(s) : s[i] \in S
    BY ElementOfSeq DEF Listing
  <1>2. l = [i \in 1..Len(s) |-> Line(s[i], how, gone)]
    BY <1>1 DEF Lines
  <1>3. \A i \in 1..Len(s) : l[i] \in Written /\ l[i].id = s[i] /\ l[i].how = how
    BY <1>1, <1>2, LineType, LineFields
  <1>4. l \in [1..Len(s) -> Written]
    BY <1>2, <1>3
  <1>5. l \in Seq(Written)
    BY <1>1, <1>4, SeqDef
  <1>6. Wrote(l, s, how)
    BY <1>3 DEF Wrote
  <1>. QED
    BY <1>1, <1>4, <1>5, <1>6, LenProperties

(* An interval is finite.                                                  *)
LEMMA IntervalFinite ==
    ASSUME NEW n \in Nat
    PROVE  IsFiniteSet(1..n)
  BY FS_Interval

(* The interval of the k numbers after n.                                  *)
LEMMA IntervalCounted ==
    ASSUME NEW n \in Nat, NEW k \in Nat
    PROVE  IsFiniteSet((n + 1)..(n + k)) /\ Cardinality((n + 1)..(n + k)) = k
  <1>1. n + 1 \in Int /\ n + k \in Int
    OBVIOUS
  <1>2. /\ IsFiniteSet((n + 1)..(n + k))
        /\ Cardinality((n + 1)..(n + k))
             = IF n + 1 > n + k THEN 0 ELSE (n + k) - (n + 1) + 1
    BY <1>1, FS_Interval
  <1>. QED
    BY <1>2

(* Lines added to what is shown: about what, and how often.                *)
LEMMA MoreWritten ==
    ASSUME NEW before \in Seq(Written), NEW after \in Seq(Written), NEW k \in Nat,
           Len(after) = Len(before) + k,
           \A i \in 1..Len(before) : after[i] = before[i],
           \A i \in (Len(before) + 1)..Len(after) : after[i].how # "first"
    PROVE  Cardinality(News(after)) = Cardinality(News(before)) + k
  <1>. DEFINE b == Len(before)
              Added == (b + 1)..(b + k)
  <1>1. /\ b \in Nat /\ Len(after) = b + k
        /\ DOMAIN before = 1..b /\ DOMAIN after = 1..(b + k)
    BY LenProperties
  <1>2. IsFiniteSet(Added) /\ Cardinality(Added) = k
    BY <1>1, IntervalCounted
  <1>3. IsFiniteSet(News(before)) /\ Cardinality(News(before)) \in Nat
    <2>1. IsFiniteSet(1..b)
      BY <1>1, IntervalFinite
    <2>2. News(before) \in SUBSET (1..b)
      BY <1>1 DEF News
    <2>. QED
      BY <2>1, <2>2, FS_Subset, FS_CardinalityType
  <1>4. News(after) = News(before) \cup Added /\ News(before) \cap Added = {}
    BY <1>1 DEF News
  <1>. HIDE DEF Added
  <1>5. Cardinality(News(before) \cap Added) = 0
    BY <1>4, FS_EmptySet
  <1>6. Cardinality(News(before) \cup Added)
            = Cardinality(News(before)) + Cardinality(Added) - Cardinality(News(before) \cap Added)
    BY <1>2, <1>3, FS_Union
  <1>7. Cardinality(News(before) \cup Added) = Cardinality(News(before)) + k
    BY <1>2, <1>3, <1>5, <1>6
  <1>. QED
    BY <1>4, <1>7

(* Posting changes nothing about what is there.                            *)
LEMMA OldKept ==
    ASSUME Types, UNCHANGED known,
           \A t \in DOMAIN posted : t \in DOMAIN posted' /\ posted'[t] = posted[t]
    PROVE  Old' = Old
  <1>1. \A t \in known : posted'[t] = posted[t]
    BY DEF Types
  <1>2. Has(known)' = Has(known)
    BY <1>1 DEF Has
  <1>. QED
    BY <1>2 DEF Old

---------------------------------------------------------------------------
(* Steps that write nothing.                                               *)

(* The invariant of what is written holds at first.                        *)
LEMMA InitHolds == Init => IInv
  <1>. SUFFICES ASSUME Init
                PROVE  IInv
    OBVIOUS
  <1>1. command.old \subseteq Times
    BY CommandsAssumption DEF Init
  <1>2. IsSeq(<<>>) /\ <<>> \in Seq({"get", "subscribe"}) /\ <<>> \in Seq(Written)
    BY EmptySeq, AnySeq
  <1>3. Types
    BY <1>1, <1>2 DEF Init, Types, Packets, Phases, Bare
  <1>4. Courses /\ Awaited
    BY DEF Init, Courses, Awaited
  <1>5. Counted
    <2>1. News(shown) = {}
      BY DEF Init, News
    <2>. QED
      BY <2>1, FS_EmptySet DEF Init, Counted
  <1>6. Remembered /\ ShownOnce /\ OldFirst
    BY DEF Init, Remembered, Shown, Old, Authored, Actions, Has, ShownOnce, OldFirst
  <1>. QED
    BY <1>3, <1>4, <1>5, <1>6 DEF IInv, Outcome

(* A step that writes nothing leaves the outcome as it is.                 *)
LEMMA NothingWritten ==
    ASSUME Outcome, UNCHANGED <<command, shown, count>>, Old' = Old,
           \/ UNCHANGED seen /\ (pc' = "fetching" => pc = "fetching" /\ UNCHANGED news)
           \/ seen \subseteq seen' /\ pc' # "fetching"
    PROVE  Outcome'
  <1>1. Shown' = Shown /\ News(shown)' = News(shown)
    BY DEF Shown, News
  <1>2. Counted' /\ ShownOnce' /\ OldFirst'
    BY <1>1 DEF Outcome, Counted, ShownOnce, OldFirst
  <1>3. Remembered'
    BY <1>1 DEF Outcome, Remembered, InHand
  <1>. QED
    BY <1>2, <1>3 DEF Outcome

(* What was there at first stays.                                          *)
LEMMA OldSame == ASSUME UNCHANGED <<posted, known>> PROVE Old' = Old
  BY DEF Old, Has

(* Somebody posts.                                                         *)
LEMMA PostHolds ==
    ASSUME IInv, NEW kind, NEW x, NEW t, Post(kind, x, t)
    PROVE  IInv'
  <1>1. /\ UNCHANGED <<command, requests, subscribed, pc, seen, shown, count, news, known>>
        /\ t \in Times /\ t \notin DOMAIN posted /\ pc # "start"
    BY DEF Post, written
  <1>2. DOMAIN posted' = DOMAIN posted \cup {t} /\ \A u \in DOMAIN posted : posted'[u] = posted[u]
    BY <1>1 DEF Post
  <1>3. DOMAIN posted' \subseteq Times
    BY <1>1, <1>2 DEF IInv, Types
  <1>4. CASE UNCHANGED socket
    <2>1. Types'
      BY <1>1, <1>2, <1>3, <1>4 DEF IInv, Types, Packets, Packet
    <2>2. Courses' /\ Awaited'
      BY <1>1, <1>4 DEF IInv, Courses, Awaited
    <2>3. Outcome'
      BY <1>1, <1>2, OldKept, NothingWritten DEF IInv
    <2>. QED
      BY <2>1, <2>2, <2>3 DEF IInv
  <1>5. CASE ~UNCHANGED socket
    <2>1. PICK k, ids, gone :
              /\ k \in {"delta", "state"} /\ ids \in {{t}, DOMAIN posted'}
              /\ subscribed /\ socket' = Append(socket, [kind |-> k, ids |-> ids, gone |-> gone])
      BY <1>5 DEF Post, Sent, Board
    <2>. DEFINE p == [kind |-> k, ids |-> ids, gone |-> gone]
    <2>2. Packet(p)'
      BY <1>2, <1>3, <2>1 DEF Packet, Messages
    <2>3. /\ IsSeq(socket') /\ DOMAIN socket = 1..Len(socket) /\ Len(socket) \in Nat
          /\ DOMAIN socket' = 1..(Len(socket) + 1)
          /\ \A i \in 1..Len(socket) : socket'[i] = socket[i]
          /\ socket'[Len(socket) + 1] = p
      BY <2>1, Pushed DEF IInv, Types, Packets
    <2>. HIDE DEF p
    <2>4. Packets'
      <3>1. \A i \in DOMAIN socket : Packet(socket[i])'
        BY <1>2, <2>3 DEF IInv, Types, Packets, Packet
      <3>. QED
        BY <2>2, <2>3, <3>1 DEF Packets
    <2>5. Types'
      BY <1>1, <1>2, <1>3, <2>4 DEF IInv, Types
    <2>6. Courses' /\ Awaited'
      BY <1>1, <2>1, <2>3 DEF IInv, Courses, Awaited
    <2>7. Outcome'
      BY <1>1, <1>2, OldKept, NothingWritten DEF IInv
    <2>. QED
      BY <2>5, <2>6, <2>7 DEF IInv
  <1>. QED
    BY <1>4, <1>5

LEMMA Requested ==
    ASSUME NEW S, NEW s \in Seq(S), NEW r \in S
    PROVE  Append(s, r) \in Seq(S) /\ Append(s, r) # <<>>
  <1>1. Len(Append(s, r)) = Len(s) + 1 /\ Len(s) \in Nat /\ Append(s, r) \in Seq(S)
    BY AppendProperties, LenProperties
  <1>2. Append(s, r) # <<>>
    BY <1>1, EmptySeq
  <1>. QED
    BY <1>1, <1>2

(* The node answers.                                                       *)
LEMMA AnswerHolds ==
    ASSUME IInv, AnswerGet \/ AnswerSubscribe
    PROVE  IInv'
  <1>1. /\ UNCHANGED <<command, posted, pc, seen, shown, count, news, known>>
        /\ requests # <<>> /\ requests' = Tail(requests)
    BY DEF AnswerGet, AnswerSubscribe, remote, written
  <1>2. PICK p : /\ socket' = Append(socket, p)
                 /\ p.kind \in Messages /\ p.ids \subseteq DOMAIN posted /\ "ids" \in DOMAIN p
                 /\ AnswerGet => Head(requests) = "get" /\ p.kind \in {"get", "failed"} /\ UNCHANGED subscribed
                 /\ AnswerSubscribe => Head(requests) = "subscribe"
    BY DEF AnswerGet, AnswerSubscribe, Sent, Bare, Messages, remote, Board
  <1>3. /\ IsSeq(socket') /\ DOMAIN socket = 1..Len(socket) /\ Len(socket) \in Nat
        /\ Len(socket') = Len(socket) + 1 /\ DOMAIN socket' = 1..(Len(socket) + 1)
        /\ \A i \in 1..Len(socket) : socket'[i] = socket[i]
        /\ socket'[Len(socket) + 1] = p
    BY <1>2, Pushed DEF IInv, Types, Packets
  <1>4. Packet(p)
    BY <1>2 DEF Packet, IInv, Types
  <1>5. Packets'
    <2>1. \A i \in DOMAIN socket : Packet(socket[i])'
      BY <1>1, <1>3 DEF IInv, Types, Packets, Packet
    <2>2. Packet(p)'
      BY <1>1, <1>4 DEF Packet
    <2>. QED
      BY <1>3, <2>1, <2>2 DEF Packets
  <1>6. \A S : requests \in Seq(S) => Head(requests) \in S /\ requests' \in Seq(S)
    BY <1>1, HeadTailProperties
  <1>7. Types'
    BY <1>1, <1>5, <1>6 DEF IInv, Types
  <1>8. Outcome'
    BY <1>1, OldSame, NothingWritten DEF IInv
  <1>9. CASE AnswerGet
    <2>1. Head(requests) = "get" /\ p.kind \in {"get", "failed"} /\ subscribed' = subscribed
      BY <1>2, <1>9
    <2>2. pc # "start" /\ (pc = "subscribing" => FALSE)
      BY <1>1, <2>1 DEF IInv, Courses
    <2>3. pc = "first" => requests' = <<>> /\ Len(socket') = 1 /\ socket'[1].kind \in {"get", "failed"}
      BY <1>1, <1>3, <2>1 DEF IInv, Courses
    <2>4. Courses'
      BY <1>1, <1>6, <2>1, <2>2, <2>3 DEF IInv, Courses
    <2>5. \E i \in DOMAIN socket' : socket'[i].kind \in {"get", "failed"}
      BY <1>3, <2>1
    <2>6. Awaited'
      BY <2>5 DEF Awaited
    <2>. QED
      BY <1>7, <1>8, <2>4, <2>6 DEF IInv
  <1>10. CASE AnswerSubscribe
    <2>1. Head(requests) = "subscribe"
      BY <1>2, <1>10
    <2>2. pc \notin {"start", "first", "poll", "polling", "listen", "handling", "fetching"}
      <3>1. requests \notin Seq({"get"})
        BY <1>6, <2>1
      <3>. QED
        BY <1>1, <2>1, <3>1 DEF IInv, Courses
    <2>3. Courses'
      <3>1. pc = "subscribing" => requests' = <<>>
        <4>1. Tail(<<"subscribe">>) = <<>>
          OBVIOUS
        <4>2. pc = "subscribing" => requests = <<"subscribe">>
          BY <1>1 DEF IInv, Courses
        <4>. QED
          BY <1>1, <4>1, <4>2
      <3>. QED
        BY <1>1, <2>2, <3>1 DEF IInv, Courses
    <2>4. Awaited'
      BY <1>1, <2>2 DEF Awaited
    <2>. QED
      BY <1>7, <1>8, <2>3, <2>4 DEF IInv
  <1>. QED
    BY <1>9, <1>10

(* What is taken from the socket.                                          *)
LEMMA Taken ==
    ASSUME IInv, UNCHANGED posted, socket # <<>>, socket' = Tail(socket)
    PROVE  Packets' /\ Packet(Head(socket)) /\ Head(socket) = socket[1] /\ Len(socket) \in Nat
           /\ (Len(socket) = 1 => socket' = <<>>)
  <1>1. /\ IsSeq(socket') /\ 1 \in DOMAIN socket /\ Head(socket) = socket[1]
        /\ \A i \in DOMAIN socket' : i + 1 \in DOMAIN socket /\ socket'[i] = socket[i + 1]
        /\ Len(socket') = Len(socket) - 1 /\ Len(socket) \in Nat \ {0}
    BY Popped DEF IInv, Types, Packets
  <1>2. Packets'
    BY <1>1 DEF IInv, Types, Packets, Packet
  <1>3. Len(socket) = 1 => socket' = <<>>
    <2>1. Len(socket') = 0 => socket' = <<>>
      BY <1>1, EmptySeq DEF IsSeq
    <2>. QED
      BY <1>1, <2>1
  <1>. QED
    BY <1>1, <1>2, <1>3 DEF IInv, Types, Packets

(* A command begins, polls again or stops.                                 *)
LEMMA BeginHolds ==
    ASSUME IInv, Begin \/ Poll \/ Stop
    PROVE  IInv'
  <1>1. UNCHANGED <<command, posted, subscribed, socket, seen, shown, count, news, known>>
    BY DEF Begin, Poll, Stop, remote, written
  <1>2. Packets'
    BY <1>1 DEF IInv, Types, Packets, Packet
  <1>3. /\ requests \in Seq({"get", "subscribe"})
        /\ Append(requests, "get") \in Seq({"get", "subscribe"}) /\ Append(requests, "get") # <<>>
        /\ requests \in Seq({"get"}) => Append(requests, "get") \in Seq({"get"})
    BY Requested DEF IInv, Types
  <1>4. Types'
    <2>1. requests' \in Seq({"get", "subscribe"}) /\ pc' \in {"first", "poll", "polling", "done"}
      BY <1>3 DEF Begin, Poll, Stop, Ask
    <2>. QED
      BY <1>1, <1>2, <2>1 DEF IInv, Types, Phases
  <1>5. Outcome'
    <2>1. pc' # "fetching"
      BY DEF Begin, Poll, Stop
    <2>. QED
      BY <1>1, <2>1, OldSame, NothingWritten DEF IInv
  <1>6. CASE Begin
    <2>1. requests = <<>> /\ socket = <<>> /\ ~subscribed /\ shown = <<>> /\ seen = {} /\ known = {} /\ count = 0
      BY <1>6 DEF Begin, IInv, Courses
    <2>2. CASE pc' = "poll"
      <3>1. command.mode = "poll" /\ requests' = <<>>
        BY <1>6, <2>1, <2>2 DEF Begin
      <3>2. <<>> \in Seq({"get"})
        BY EmptySeq
      <3>. QED
        BY <1>1, <1>4, <1>5, <2>2, <3>1, <3>2 DEF IInv, Courses, Awaited
    <2>3. CASE pc' = "first" /\ requests' = Append(requests, "get")
      <3>1. requests' = <<"get">>
        BY <2>1, <2>3
      <3>. QED
        BY <1>1, <1>3, <1>4, <1>5, <2>1, <2>3, <3>1 DEF IInv, Courses, Awaited
    <2>. QED
      BY <1>6, <2>2, <2>3 DEF Begin, Ask
  <1>7. CASE Poll
    <2>1. requests' \in Seq({"get"}) /\ requests' # <<>> /\ pc' = "polling" /\ command.mode = "poll"
      BY <1>3, <1>7 DEF Poll, Ask, IInv, Courses
    <2>2. Courses' /\ Awaited'
      BY <1>1, <2>1 DEF Courses, Awaited
    <2>. QED
      BY <1>4, <1>5, <2>2 DEF IInv
  <1>8. CASE Stop
    <2>1. pc' = "done"
      BY <1>8 DEF Stop
    <2>. QED
      BY <1>4, <1>5, <2>1 DEF IInv, Courses, Awaited
  <1>. QED
    BY <1>6, <1>7, <1>8

(* Failed, or an answer that is not kept: what it does to the socket.      *)
LEMMA Consumed ==
    ASSUME IInv, UNCHANGED posted,
           UNCHANGED socket \/ (socket # <<>> /\ socket' = Tail(socket))
    PROVE  Packets'
  <1>1. CASE UNCHANGED socket
    BY <1>1 DEF IInv, Types, Packets, Packet
  <1>2. CASE socket # <<>> /\ socket' = Tail(socket)
    BY <1>2, Taken
  <1>. QED
    BY <1>1, <1>2

(* It fails at first, subscribes, or listens on after a late answer.       *)
LEMMA WaitHolds ==
    ASSUME IInv, FirstFails \/ Subscribe \/ ListenLate
    PROVE  IInv'
  <1>1. /\ UNCHANGED <<command, posted, subscribed, requests, seen, shown, count, news, known>>
        /\ pc' \in {"done", "listen"} /\ pc \in {"first", "subscribing", "listen"}
        /\ UNCHANGED socket \/ (socket # <<>> /\ socket' = Tail(socket))
    BY DEF FirstFails, Subscribe, ListenLate, Failed, Received, remote, written
  <1>2. Types'
    <2>1. Packets'
      BY <1>1, Consumed
    <2>. QED
      BY <1>1, <2>1 DEF IInv, Types, Phases
  <1>3. Outcome'
    BY <1>1, OldSame, NothingWritten DEF IInv
  <1>4. pc' = "listen" => requests \in Seq({"get"}) /\ command.mode = "subscribe"
    <2>1. CASE pc = "listen"
      BY <2>1 DEF IInv, Courses
    <2>2. CASE pc # "listen" /\ pc' = "listen"
      <3>1. pc = "subscribing" /\ socket # <<>>
        BY <2>2 DEF FirstFails, Subscribe, ListenLate, Received
      <3>2. requests = <<>> /\ command.mode = "subscribe"
        BY <3>1 DEF IInv, Courses
      <3>. QED
        BY <3>2, EmptySeq
    <2>. QED
      BY <2>1, <2>2
  <1>5. Courses' /\ Awaited'
    BY <1>1, <1>4 DEF Courses, Awaited
  <1>. QED
    BY <1>2, <1>3, <1>5 DEF IInv

(* It takes a delta and selects what to fetch.                             *)
LEMMA ListenHolds ==
    ASSUME IInv, ListenDelta \/ Handle
    PROVE  IInv'
  <1>1. /\ UNCHANGED <<command, posted, subscribed, shown, count, known>>
        /\ pc \in {"listen", "handling"} /\ command.mode = "subscribe"
        /\ requests \in Seq({"get"}) /\ requests \in Seq({"get", "subscribe"})
    BY DEF ListenDelta, Handle, remote, written, IInv, Courses, Types
  <1>2. Old' = Old
    BY <1>1, OldSame
  <1>3. CASE ListenDelta
    <2>1. /\ UNCHANGED <<requests, seen>> /\ pc' = "handling" /\ news' = Head(socket)
          /\ socket # <<>> /\ socket' = Tail(socket)
      BY <1>3 DEF ListenDelta, Received, written
    <2>2. Packets' /\ news'.ids \subseteq DOMAIN posted /\ "ids" \in DOMAIN news'
      BY <1>1, <2>1, Taken DEF Packet
    <2>3. Types' /\ Courses' /\ Awaited'
      BY <1>1, <2>1, <2>2 DEF IInv, Types, Phases, Courses, Awaited
    <2>4. Outcome'
      BY <1>1, <1>2, <2>1, NothingWritten DEF IInv
    <2>. QED
      BY <2>3, <2>4 DEF IInv
  <1>4. CASE Handle
    <2>. DEFINE left == news.ids \ seen
    <2>1. UNCHANGED socket /\ news' = [news EXCEPT !.ids = left] /\ "ids" \in DOMAIN news
      BY <1>4 DEF Handle, IInv, Types
    <2>2. news'.ids = left /\ "ids" \in DOMAIN news' /\ left \in SUBSET Times /\ left \subseteq DOMAIN posted
      BY <2>1 DEF IInv, Types
    <2>3. Packets'
      BY <1>1, <2>1, Consumed
    <2>4. CASE left = {}
      <3>1. pc' = "listen" /\ UNCHANGED <<seen, requests>>
        BY <1>4, <2>4 DEF Handle
      <3>2. Types' /\ Courses' /\ Awaited'
        BY <1>1, <2>2, <2>3, <3>1 DEF IInv, Types, Phases, Courses, Awaited
      <3>3. Outcome'
        BY <1>1, <1>2, <3>1, NothingWritten DEF IInv
      <3>. QED
        BY <3>2, <3>3 DEF IInv
    <2>5. CASE left # {}
      <3>. DEFINE t == Oldest(left)
      <3>1. /\ pc' = "fetching" /\ seen' = seen \cup {t} /\ requests' = Append(requests, "get")
            /\ t \in left /\ InHand' = t
        BY <1>4, <2>2, <2>5, OldestFacts DEF Handle, Ask, InHand
      <3>2. requests' \in Seq({"get"}) /\ requests' \in Seq({"get", "subscribe"}) /\ requests' # <<>>
        BY <1>1, <3>1, Requested
      <3>3. Types' /\ Courses' /\ Awaited'
        BY <1>1, <2>2, <2>3, <2>5, <3>1, <3>2 DEF IInv, Types, Phases, Courses, Awaited
      <3>4. Counted' /\ ShownOnce' /\ OldFirst'
        BY <1>1, <1>2 DEF IInv, Outcome, Counted, ShownOnce, OldFirst
      <3>5. Shown' = Shown
        BY <1>1 DEF Shown
      <3>6. Remembered'
        BY <1>1, <1>2, <3>1, <3>5 DEF IInv, Outcome, Remembered
      <3>. QED
        BY <3>3, <3>4, <3>6 DEF IInv, Outcome
    <2>. QED
      BY <2>4, <2>5
  <1>. QED
    BY <1>3, <1>4

---------------------------------------------------------------------------
(* Steps that write.                                                       *)

(* What it writes of the first answer.                                     *)
LEMMA FirstWritten ==
    ASSUME IInv, pc = "first", pc' # "fetching", UNCHANGED <<command, posted, count>>,
           NEW S \in SUBSET DOMAIN posted, NEW s, Listing(s, S), NEW gone,
           shown' = Lines(s, "first", gone),
           command.mode # "list" => {s[i] : i \in 1..Len(s)} \subseteq seen',
           command.mode = "subscribe" => Old' \subseteq seen'
    PROVE  /\ Outcome' /\ shown' \in Seq(Written)
           /\ \A i \in DOMAIN shown' : shown'[i].id \in DOMAIN posted'
  <1>1. count = 0 /\ S \in SUBSET Times
    BY DEF IInv, Courses, Types
  <1>2. /\ shown' \in Seq(Written) /\ DOMAIN shown' = 1..Len(s)
        /\ \A i \in 1..Len(s) : shown'[i].id = s[i] /\ s[i] \in S /\ shown'[i].how = "first"
    <2>1. "first" \in Ways
      BY DEF Ways
    <2>2. shown' \in Seq(Written) /\ DOMAIN shown' = 1..Len(s) /\ Wrote(shown', s, "first")
      BY <1>1, <2>1, LinesFacts
    <2>3. \A i \in 1..Len(s) : s[i] \in S
      BY ElementOfSeq DEF Listing
    <2>. QED
      BY <2>2, <2>3 DEF Wrote
  <1>3. \A i, j \in 1..Len(s) : s[i] = s[j] => i = j
    BY DEF Listing
  <1>4. Counted'
    <2>1. News(shown)' = {}
      BY <1>2 DEF News
    <2>. QED
      BY <1>1, <2>1, FS_EmptySet DEF Counted
  <1>5. ShownOnce' /\ OldFirst'
    BY <1>2, <1>3 DEF ShownOnce, OldFirst
  <1>6. Remembered'
    <2>1. Shown' \subseteq {s[i] : i \in 1..Len(s)}
      BY <1>2 DEF Shown
    <2>. QED
      BY <2>1 DEF Remembered
  <1>. QED
    BY <1>2, <1>4, <1>5, <1>6 DEF Outcome

(* It writes the first answer.                                             *)
LEMMA FirstHolds ==
    ASSUME IInv, List \/ PollFirst \/ SubscribeFirst
    PROVE  IInv'
  <1>. DEFINE got == Head(socket)
  <1>1. /\ UNCHANGED <<command, posted, subscribed, count, news>>
        /\ pc = "first" /\ got.kind = "get" /\ socket # <<>> /\ socket' = Tail(socket)
        /\ known' = got.ids
    BY DEF List, PollFirst, SubscribeFirst, Got, Received, remote
  <1>2. Packets' /\ got.ids \subseteq DOMAIN posted /\ got.ids \in SUBSET Times
    BY <1>1, Taken DEF Packet, IInv, Types
  <1>3. requests = <<>> /\ Len(socket) = 1 /\ socket' = <<>>
    <2>1. requests = <<>> /\ Len(socket) = 1
      BY <1>1 DEF IInv, Courses
    <2>. QED
      BY <1>1, <2>1, Taken
  <1>4. ~subscribed /\ command.initial \in Nat
    BY <1>1, CommandsAssumption DEF IInv, Courses, Types
  <1>5. CASE List
    <2>. DEFINE recent == {t \in Displayed(Has(got.ids), View(got.ids)) : t >= command.since}
                s == LastOf(Sorted(recent), command.initial)
    <2>1. /\ command.mode = "list" /\ pc' = "done" /\ UNCHANGED <<requests, seen>>
          /\ shown' = Lines(s, "first", got.gone)
      BY <1>5 DEF List
    <2>2. recent \in SUBSET Times /\ recent \in SUBSET DOMAIN posted
      BY <1>2 DEF Displayed, Authored, Has
    <2>. HIDE DEF recent
    <2>3. Listing(s, recent)
      BY <1>4, <2>2, LastSelected
    <2>. HIDE DEF s
    <2>4. /\ Outcome' /\ shown' \in Seq(Written)
          /\ \A i \in DOMAIN shown' : shown'[i].id \in DOMAIN posted'
      BY <1>1, <2>1, <2>2, <2>3, FirstWritten
    <2>5. Types' /\ Courses' /\ Awaited'
      BY <1>1, <1>2, <2>1, <2>4 DEF IInv, Types, Phases, Courses, Awaited
    <2>. QED
      BY <2>4, <2>5 DEF IInv
  <1>6. CASE PollFirst
    <2>. DEFINE s == LastOf(Sorted(got.ids), command.initial)
    <2>1. /\ command.mode = "poll" /\ pc' = "poll" /\ UNCHANGED requests
          /\ shown' = Lines(s, "first", got.gone)
          /\ seen' = {s[i] : i \in DOMAIN s}
      BY <1>6 DEF PollFirst
    <2>2. Listing(s, got.ids)
      BY <1>2, <1>4, LastSelected
    <2>. HIDE DEF s
    <2>3. seen' = {s[i] : i \in 1..Len(s)} /\ seen' \subseteq DOMAIN posted
      BY <1>2, <2>1, <2>2, ElementOfSeq DEF Listing
    <2>4. /\ Outcome' /\ shown' \in Seq(Written)
          /\ \A i \in DOMAIN shown' : shown'[i].id \in DOMAIN posted'
      BY <1>1, <1>2, <2>1, <2>2, <2>3, FirstWritten
    <2>5. requests' \in Seq({"get"})
      BY <1>3, <2>1, EmptySeq
    <2>6. Types' /\ Courses' /\ Awaited'
      BY <1>1, <1>2, <2>1, <2>3, <2>4, <2>5 DEF IInv, Types, Phases, Courses, Awaited
    <2>. QED
      BY <2>4, <2>6 DEF IInv
  <1>7. CASE SubscribeFirst
    <2>. DEFINE display == Displayed(Has(got.ids), View(got.ids))
                s == LastOf(Sorted(display), command.initial)
    <2>1. /\ command.mode = "subscribe" /\ pc' = "subscribing"
          /\ requests' = Append(requests, "subscribe")
          /\ shown' = Lines(s, "first", got.gone)
          /\ seen' = Authored(Has(got.ids))
      BY <1>7 DEF SubscribeFirst, Display, Ask
    <2>2. /\ display \in SUBSET Times /\ display \in SUBSET DOMAIN posted
          /\ display \subseteq seen' /\ seen' \subseteq DOMAIN posted
      BY <1>2, <2>1 DEF Displayed, Authored, Has
    <2>3. Old' = seen'
      BY <1>1, <2>1 DEF Old, Has
    <2>. HIDE DEF display
    <2>4. Listing(s, display)
      BY <1>4, <2>2, LastSelected
    <2>. HIDE DEF s
    <2>5. {s[i] : i \in 1..Len(s)} \subseteq seen'
      BY <2>2, <2>4, ElementOfSeq DEF Listing
    <2>6. /\ Outcome' /\ shown' \in Seq(Written)
          /\ \A i \in DOMAIN shown' : shown'[i].id \in DOMAIN posted'
      BY <1>1, <2>1, <2>2, <2>3, <2>4, <2>5, FirstWritten
    <2>7. requests' = <<"subscribe">> /\ requests' \in Seq({"get", "subscribe"})
      BY <1>3, <2>1
    <2>8. Types' /\ Courses' /\ Awaited'
      BY <1>1, <1>2, <1>3, <1>4, <2>1, <2>2, <2>6, <2>7 DEF IInv, Types, Phases, Courses, Awaited
    <2>. QED
      BY <2>6, <2>8 DEF IInv
  <1>. QED
    BY <1>5, <1>6, <1>7

(* The news in an answer are those not seen.                               *)
LEMMA NowSelected ==
    ASSUME NEW S \in SUBSET Times, NEW most \in Nat, NEW n \in Nat
    PROVE  LET all == Sorted(S)
               room == most - n
               now == IF most > 0 /\ room < Len(all) THEN SubSeq(all, 1, room) ELSE all
           IN  Listing(now, S)
  <1>1. Listing(Sorted(S), S)
    BY SortedFacts, LenProperties DEF Listing
  <1>2. ASSUME most - n < Len(Sorted(S))
        PROVE  Listing(SubSeq(Sorted(S), 1, most - n), S)
    <2>1. most - n \in Int /\ 1 \in Nat \ {0} /\ most - n <= Len(Sorted(S))
      BY <1>2, SortedFacts
    <2>. QED
      BY <2>1, Selected
  <1>. QED
    BY <1>1, <1>2

(* What it counts is a number.                                             *)
LEMMA CountType ==
    ASSUME IInv
    PROVE  count \in Nat
  <1>1. IsFiniteSet(1..Len(shown)) /\ DOMAIN shown = 1..Len(shown)
    BY LenProperties, IntervalFinite DEF IInv, Types
  <1>2. News(shown) \in SUBSET (1..Len(shown))
    BY <1>1 DEF News
  <1>. QED
    BY <1>1, <1>2, FS_Subset, FS_CardinalityType DEF IInv, Outcome, Counted

(* What it writes of news.                                                 *)
LEMMA NewWritten ==
    ASSUME IInv, NEW ids \in SUBSET DOMAIN posted, NEW how \in {"new", "state"}, NEW back,
           ShowNew(ids, how, back), UNCHANGED <<command, posted, known>>,
           command.mode # "list", back # "fetching"
    PROVE  /\ Outcome' /\ shown' \in Seq(Written) /\ pc' \in {"done", back}
           /\ seen' \subseteq DOMAIN posted'
           /\ \A i \in DOMAIN shown' : shown'[i].id \in DOMAIN posted'
           /\ \A i \in DOMAIN shown' :
                shown'[i].how = how \/ (i \in DOMAIN shown /\ shown'[i] = shown[i])
  <1>. DEFINE S == ids \ seen
              all == Sorted(S)
              room == command.max - count
              now == IF command.max > 0 /\ room < Len(all) THEN SubSeq(all, 1, room) ELSE all
              gone == View(ids).deleted
              b == Len(shown)
  <1>1. /\ shown' = shown \o Lines(now, how, gone) /\ seen' = seen \cup {now[i] : i \in DOMAIN now}
        /\ count' = count + Len(now) /\ pc' \in {"done", back}
    BY DEF ShowNew
  <1>2. S \in SUBSET Times /\ S \cap seen = {} /\ S \subseteq DOMAIN posted
    BY DEF IInv, Types
  <1>3. command.max \in Nat
    BY CommandsAssumption DEF IInv, Types
  <1>. HIDE DEF S
  <1>4. Listing(now, S)
    BY <1>2, <1>3, CountType, NowSelected
  <1>. HIDE DEF now, gone
  <1>5. /\ now \in Seq(S) /\ Len(now) \in Nat /\ DOMAIN now = 1..Len(now)
        /\ \A i, j \in 1..Len(now) : now[i] = now[j] => i = j
        /\ \A i \in 1..Len(now) : now[i] \in S
    BY <1>4, ElementOfSeq DEF Listing
  <1>6. PICK l : l = Lines(now, how, gone)
    OBVIOUS
  <1>7. l \in Seq(Written) /\ Len(l) = Len(now) /\ Wrote(l, now, how)
    <2>1. how \in Ways
      BY DEF Ways
    <2>. QED
      BY <1>2, <1>4, <1>6, <2>1, LinesFacts
  <1>8. shown \in Seq(Written) /\ b \in Nat /\ DOMAIN shown = 1..b
    BY LenProperties DEF IInv, Types
  <1>9. shown' \in Seq(Written) /\ Len(shown') = b + Len(now) /\ DOMAIN shown' = 1..(b + Len(now))
    <2>1. shown' = shown \o l
      BY <1>1, <1>6
    <2>2. shown \o l \in Seq(Written) /\ Len(shown \o l) = Len(shown) + Len(l)
      BY <1>7, <1>8, ConcatProperties
    <2>3. shown' \in Seq(Written) /\ Len(shown') = b + Len(now)
      BY <1>7, <2>1, <2>2
    <2>. QED
      BY <2>3, LenProperties
  <1>10. \A i \in 1..b : shown'[i] = shown[i]
    BY <1>1, <1>5, <1>6, <1>7, <1>8, ConcatProperties
  <1>11. \A i \in (b + 1)..(b + Len(now)) :
            i - b \in 1..Len(now) /\ shown'[i].id = now[i - b] /\ shown'[i].how = how
    <2>. SUFFICES ASSUME NEW i \in (b + 1)..(b + Len(now))
                  PROVE  i - b \in 1..Len(now) /\ shown'[i].id = now[i - b] /\ shown'[i].how = how
      OBVIOUS
    <2>1. i - b \in 1..Len(now) /\ i \in 1..(b + Len(now)) /\ ~(i <= b)
      BY <1>5, <1>8
    <2>2. shown'[i] = l[i - b]
      BY <1>1, <1>6, <1>7, <1>8, <2>1, ConcatProperties
    <2>. QED
      BY <1>7, <2>1, <2>2 DEF Wrote
  <1>. HIDE DEF b
  <1>12. \A i \in DOMAIN shown' : i \in 1..b \/ i \in (b + 1)..(b + Len(now))
    BY <1>5, <1>8, <1>9
  <1>13. Shown \subseteq seen /\ Old' = Old /\ (command.mode = "subscribe" => Old \subseteq seen)
    BY OldSame DEF IInv, Outcome, Remembered
  <1>14. \A i \in 1..b : shown[i].id \in Shown
    BY <1>8 DEF Shown
  <1>15. Counted'
    <2>1. Cardinality(News(shown')) = Cardinality(News(shown)) + Len(now)
      <3>1. \A i \in (b + 1)..Len(shown') : shown'[i].how # "first"
        BY <1>9, <1>11
      <3>. QED
        BY <1>5, <1>8, <1>9, <1>10, <3>1, MoreWritten DEF b
    <2>. QED
      BY <1>1, <2>1 DEF IInv, Outcome, Counted
  <1>16. ShownOnce'
    <2>. SUFFICES ASSUME NEW i \in DOMAIN shown', NEW j \in DOMAIN shown',
                         shown'[i].id = shown'[j].id
                  PROVE  i = j
      BY DEF ShownOnce
    <2>1. \A h \in DOMAIN shown' :
            \/ h \in 1..b /\ shown'[h] = shown[h] /\ shown'[h].id \in seen
            \/ h \in (b + 1)..(b + Len(now)) /\ shown'[h].id = now[h - b] /\ now[h - b] \notin seen
      BY <1>2, <1>5, <1>10, <1>11, <1>12, <1>13, <1>14
    <2>2. CASE i \in 1..b /\ j \in 1..b
      BY <1>8, <1>10, <2>2 DEF IInv, Outcome, ShownOnce
    <2>3. CASE i \in (b + 1)..(b + Len(now)) /\ j \in (b + 1)..(b + Len(now))
      <3>1. i - b = j - b
        BY <1>5, <1>11, <2>3
      <3>. QED
        BY <1>8, <2>3, <3>1
    <2>. QED
      BY <2>1, <2>2, <2>3
  <1>17. OldFirst'
    <2>. SUFFICES ASSUME command.mode = "subscribe", NEW i \in DOMAIN shown', shown'[i].id \in Old
                  PROVE  shown'[i].how = "first"
      BY <1>13 DEF OldFirst
    <2>1. CASE i \in 1..b
      BY <1>8, <1>10, <2>1 DEF IInv, Outcome, OldFirst
    <2>2. CASE i \in (b + 1)..(b + Len(now))
      BY <1>2, <1>5, <1>11, <1>13, <2>2
    <2>. QED
      BY <1>12, <2>1, <2>2
  <1>18. Shown' \subseteq seen' /\ seen' \subseteq DOMAIN posted
    <2>1. \A i \in DOMAIN shown' : shown'[i].id \in seen'
      BY <1>1, <1>5, <1>10, <1>11, <1>12, <1>13, <1>14
    <2>2. seen \subseteq DOMAIN posted
      BY DEF IInv, Types
    <2>. QED
      BY <1>1, <1>2, <1>5, <2>1, <2>2 DEF Shown
  <1>19. Remembered'
    BY <1>1, <1>13, <1>18 DEF Remembered
  <1>20. \A i \in DOMAIN shown' :
            shown'[i].how = how \/ (i \in DOMAIN shown /\ shown'[i] = shown[i])
    BY <1>8, <1>10, <1>11, <1>12
  <1>. QED
    BY <1>1, <1>9, <1>15, <1>16, <1>17, <1>18, <1>19, <1>20 DEF Outcome, Shown

(* It writes news.                                                         *)
LEMMA NewHolds ==
    ASSUME IInv, Polled \/ ListenState
    PROVE  IInv'
  <1>1. /\ UNCHANGED <<command, posted, subscribed, requests, news, known>>
        /\ UNCHANGED socket \/ (socket # <<>> /\ socket' = Tail(socket))
    BY DEF Polled, ListenState, Got, Failed, Received, remote
  <1>2. Packets'
    BY <1>1, Consumed
  <1>3. PICK back \in {"poll", "listen"} :
            /\ back = "poll" => Polled /\ pc = "polling"
            /\ back = "listen" => ListenState /\ pc = "listen"
    BY DEF Polled, ListenState
  <1>4. /\ requests' \in Seq({"get"})
        /\ back = "poll" => command.mode = "poll"
        /\ back = "listen" => command.mode = "subscribe"
    BY <1>1, <1>3 DEF IInv, Courses
  <1>5. CASE socket # <<>> /\ \E how \in {"new", "state"} : ShowNew(Head(socket).ids, how, back)
    <2>1. PICK how \in {"new", "state"} : ShowNew(Head(socket).ids, how, back)
      BY <1>5
    <2>2. socket' = Tail(socket)
      BY <1>3, <1>5 DEF Polled, ListenState, Got, Failed, Received
    <2>3. Head(socket).ids \in SUBSET DOMAIN posted
      BY <1>1, <1>5, <2>2, Taken DEF Packet
    <2>4. /\ Outcome' /\ shown' \in Seq(Written) /\ pc' \in {"done", back}
          /\ seen' \subseteq DOMAIN posted'
          /\ \A i \in DOMAIN shown' : shown'[i].id \in DOMAIN posted'
      BY <1>1, <1>3, <1>4, <2>1, <2>3, NewWritten
    <2>5. Types' /\ Courses' /\ Awaited'
      BY <1>1, <1>2, <1>4, <2>4 DEF IInv, Types, Phases, Courses, Awaited
    <2>. QED
      BY <2>4, <2>5 DEF IInv
  <1>6. CASE back = "poll" /\ pc' = "poll" /\ UNCHANGED <<seen, shown, count>>
    <2>1. Types' /\ Courses' /\ Awaited'
      BY <1>1, <1>2, <1>4, <1>6 DEF IInv, Types, Phases, Courses, Awaited
    <2>2. Outcome'
      BY <1>1, <1>6, OldSame, NothingWritten DEF IInv
    <2>. QED
      BY <2>1, <2>2 DEF IInv
  <1>. QED
    BY <1>3, <1>5, <1>6 DEF Polled, ListenState, Got, Received, written

(* The message in hand is put down, written or not.                        *)
LEMMA PutDown ==
    ASSUME IInv, pc = "fetching", UNCHANGED <<command, posted, known>>, pc' # "fetching",
           \/ UNCHANGED written
           \/ UNCHANGED <<shown, count>> /\ seen' = seen \ {InHand}
           \/ \E gone : /\ shown' = Append(shown, Line(InHand, "delta", gone))
                        /\ count' = count + 1 /\ UNCHANGED seen
    PROVE  /\ Outcome' /\ shown' \in Seq(Written) /\ seen' \subseteq DOMAIN posted'
           /\ \A i \in DOMAIN shown' : shown'[i].id \in DOMAIN posted'
  <1>1. /\ command.mode = "subscribe" /\ Old' = Old
        /\ InHand \in seen /\ InHand \notin Shown \cup Old /\ Shown \subseteq seen /\ Old \subseteq seen
    BY OldSame DEF IInv, Courses, Outcome, Remembered
  <1>2. /\ shown \in Seq(Written) /\ \A i \in DOMAIN shown : shown[i].id \in DOMAIN posted
        /\ seen \subseteq DOMAIN posted /\ InHand \in Times /\ InHand \in DOMAIN posted
    BY <1>1 DEF IInv, Types
  <1>3. CASE UNCHANGED <<shown, count>> /\ (UNCHANGED seen \/ seen' = seen \ {InHand})
    <2>1. Counted' /\ ShownOnce' /\ OldFirst' /\ Shown' = Shown
      BY <1>1, <1>3 DEF IInv, Outcome, Counted, News, ShownOnce, OldFirst, Shown
    <2>2. Remembered'
      BY <1>1, <1>3, <2>1 DEF Remembered
    <2>. QED
      BY <1>2, <1>3, <2>1, <2>2 DEF Outcome
  <1>4. ASSUME NEW gone, NEW line, line = Line(InHand, "delta", gone),
               shown' = Append(shown, line), count' = count + 1, UNCHANGED seen
        PROVE  /\ Outcome' /\ shown' \in Seq(Written)
               /\ \A i \in DOMAIN shown' : shown'[i].id \in DOMAIN posted'
    <2>. DEFINE b == Len(shown)
    <2>1. line \in Written /\ line.id = InHand /\ line.how = "delta"
      BY <1>2, <1>4, LineType, LineFields DEF Ways
    <2>2. /\ shown' \in Seq(Written) /\ Len(shown') = b + 1 /\ b \in Nat
          /\ \A i \in 1..b : shown'[i] = shown[i]
          /\ shown'[b + 1] = line
      BY <1>2, <1>4, <2>1, AppendProperties, LenProperties
    <2>3. DOMAIN shown = 1..b /\ DOMAIN shown' = 1..(b + 1)
      BY <1>2, <2>2, LenProperties
    <2>. HIDE DEF b
    <2>4. \A i \in DOMAIN shown' :
              \/ i \in DOMAIN shown /\ shown'[i] = shown[i] /\ shown'[i].id \in Shown
              \/ i = b + 1 /\ shown'[i].id = InHand /\ shown'[i].how = "delta"
      <3>1. \A i \in DOMAIN shown : shown[i].id \in Shown
        BY DEF Shown
      <3>. QED
        BY <2>1, <2>2, <2>3, <3>1
    <2>5. Counted'
      <3>1. \A i \in (b + 1)..Len(shown') : shown'[i].how # "first"
        BY <2>1, <2>2
      <3>2. Cardinality(News(shown')) = Cardinality(News(shown)) + 1
        BY <1>2, <2>2, <3>1, MoreWritten DEF b
      <3>. QED
        BY <1>4, <3>2 DEF IInv, Outcome, Counted
    <2>6. ShownOnce'
      <3>. SUFFICES ASSUME NEW i \in DOMAIN shown', NEW j \in DOMAIN shown',
                           shown'[i].id = shown'[j].id
                    PROVE  i = j
        BY DEF ShownOnce
      <3>1. CASE i \in DOMAIN shown /\ j \in DOMAIN shown
        <4>1. shown[i].id = shown[j].id
          BY <2>2, <2>3, <3>1
        <4>. QED
          BY <3>1, <4>1 DEF IInv, Outcome, ShownOnce
      <3>. QED
        BY <1>1, <2>4, <3>1
    <2>7. OldFirst'
      <3>. SUFFICES ASSUME NEW i \in DOMAIN shown', shown'[i].id \in Old
                    PROVE  shown'[i].how = "first"
        BY <1>1 DEF OldFirst
      <3>. QED
        BY <1>1, <2>4 DEF IInv, Outcome, OldFirst
    <2>8. Remembered'
      <3>1. Shown' \subseteq Shown \cup {InHand}
        BY <2>4 DEF Shown
      <3>. QED
        BY <1>1, <1>4, <3>1 DEF Remembered
    <2>. QED
      BY <1>2, <2>2, <2>4, <2>5, <2>6, <2>7, <2>8 DEF Outcome, Shown
  <1>. QED
    BY <1>2, <1>3, <1>4 DEF written

(* It writes what it fetched for a delta.                                  *)
LEMMA FetchedHolds ==
    ASSUME IInv, Fetched
    PROVE  IInv'
  <1>1. /\ UNCHANGED <<command, posted, subscribed, requests, known>>
        /\ pc = "fetching" /\ pc' \in {"done", "handling"}
        /\ news' = [news EXCEPT !.ids = @ \ {InHand}]
        /\ UNCHANGED socket \/ (socket # <<>> /\ socket' = Tail(socket))
    BY DEF Fetched, Got, Failed, Received, remote, InHand
  <1>2. Packets'
    BY <1>1, Consumed
  <1>3. requests' \in Seq({"get"}) /\ command.mode = "subscribe"
    BY <1>1 DEF IInv, Courses
  <1>4. "ids" \in DOMAIN news' /\ news'.ids \subseteq DOMAIN posted
    BY <1>1 DEF IInv, Types
  <1>5. \/ UNCHANGED written
        \/ UNCHANGED <<shown, count>> /\ seen' = seen \ {InHand}
        \/ \E gone : /\ shown' = Append(shown, Line(InHand, "delta", gone))
                     /\ count' = count + 1 /\ UNCHANGED seen
    BY DEF Fetched, InHand
  <1>6. /\ Outcome' /\ shown' \in Seq(Written) /\ seen' \subseteq DOMAIN posted'
        /\ \A i \in DOMAIN shown' : shown'[i].id \in DOMAIN posted'
    BY <1>1, <1>5, PutDown
  <1>7. Types' /\ Courses' /\ Awaited'
    BY <1>1, <1>2, <1>3, <1>4, <1>6 DEF IInv, Types, Phases, Courses, Awaited
  <1>. QED
    BY <1>6, <1>7 DEF IInv

---------------------------------------------------------------------------

(* The invariant is inductive.                                             *)
LEMMA NextHolds == IInv /\ [Next]_vars => IInv'
  <1>. SUFFICES ASSUME IInv, [Next]_vars
                PROVE  IInv'
    OBVIOUS
  <1>1. CASE \E kind, x, t : Post(kind, x, t)
    BY <1>1, PostHolds
  <1>2. CASE AnswerGet \/ AnswerSubscribe
    BY <1>2, AnswerHolds
  <1>3. CASE Begin \/ Poll \/ Stop
    BY <1>3, BeginHolds
  <1>4. CASE FirstFails \/ Subscribe \/ ListenLate
    BY <1>4, WaitHolds
  <1>5. CASE ListenDelta \/ Handle
    BY <1>5, ListenHolds
  <1>6. CASE List \/ PollFirst \/ SubscribeFirst
    BY <1>6, FirstHolds
  <1>7. CASE Polled \/ ListenState
    BY <1>7, NewHolds
  <1>8. CASE Fetched
    BY <1>8, FetchedHolds
  <1>9. CASE UNCHANGED vars
    <2>1. /\ UNCHANGED <<command, posted, requests, socket, subscribed, pc>>
          /\ UNCHANGED <<seen, shown, count, news, known>>
      BY <1>9 DEF vars
    <2>2. Packets' /\ Old' = Old
      BY <2>1, Consumed, OldSame
    <2>3. Types' /\ Courses' /\ Awaited'
      BY <2>1, <2>2 DEF IInv, Types, Courses, Awaited
    <2>4. Outcome'
      BY <2>1, <2>2, NothingWritten DEF IInv
    <2>. QED
      BY <2>3, <2>4 DEF IInv
  <1>. QED
    BY <1>1, <1>2, <1>3, <1>4, <1>5, <1>6, <1>7, <1>8, <1>9 DEF Next, Client

LEMMA AlwaysHolds == Spec => []IInv
  BY InitHolds, NextHolds, PTL DEF Spec

(* What is read is what was posted, what is counted is what was written as *)
(* new, and whoever waits for an answer of the node has one to come.       *)
THEOREM StreamTypes == Spec => []TypeOK
  <1>1. ASSUME IInv
        PROVE  TypeOK
    <2>. DEFINE answers == {i \in DOMAIN socket : socket[i].kind \in {"get", "failed"}}
    <2>1. Len(requests) \in Nat /\ (requests # <<>> => Len(requests) > 0)
      BY <1>1, EmptySeq, LenProperties DEF IInv, Types
    <2>2. Cardinality(answers) \in Nat /\ (answers # {} => Cardinality(answers) > 0)
      <3>1. DOMAIN socket = 1..Len(socket) /\ Len(socket) \in Nat
        BY <1>1, LenProperties DEF IInv, Types, Packets, IsSeq
      <3>2. IsFiniteSet(1..Len(socket)) /\ answers \in SUBSET (1..Len(socket))
        BY <3>1, FS_Interval
      <3>. HIDE DEF answers
      <3>3. IsFiniteSet(answers)
        BY <3>2, FS_Subset
      <3>4. Cardinality(answers) \in Nat /\ (Cardinality(answers) = 0 <=> answers = {})
        BY <3>3, FS_CardinalityType, FS_EmptySet
      <3>. QED
        BY <3>4
    <2>3. pc \in {"first", "polling", "fetching"} => requests # <<>> \/ answers # {}
      BY <1>1 DEF IInv, Awaited
    <2>. HIDE DEF answers
    <2>4. pc \in {"first", "polling", "fetching"} => Len(requests) + Cardinality(answers) > 0
      BY <2>1, <2>2, <2>3
    <2>. QED
      BY <1>1, <2>4 DEF IInv, Types, Packets, Packet, Phases, Outcome, Counted, News, TypeOK, answers, Board
  <1>. QED
    BY <1>1, AlwaysHolds, PTL

(* No message is written twice, whatever is delivered again, answered late  *)
(* or fetched again after a failure (seen_messages).                       *)
THEOREM NothingShownTwice == Spec => []ShownOnce
  <1>1. IInv => ShownOnce
    BY DEF IInv, Outcome
  <1>. QED
    BY <1>1, AlwaysHolds, PTL

(* What was on the board when a subscription began is not written as new,   *)
(* with whatever notification it comes again (subscribe_and_stream).       *)
THEOREM OldNeverNew == Spec => []OldStaysOld
  <1>1. IInv => OldStaysOld
    BY DEF IInv, Outcome, OldFirst, Old, OldStaysOld
  <1>. QED
    BY <1>1, AlwaysHolds, PTL

---------------------------------------------------------------------------
(* What is deleted.  The fold of rebuild_actions_state goes over messages   *)
(* one by one, so what it leads to is shown by induction, from the least    *)
(* number for which it would not hold.                                     *)

(* A set of numbers has a least one.                                       *)
LEMMA LeastNumber ==
    ASSUME NEW T \in SUBSET Nat, T # {}
    PROVE  \E x \in T : \A y \in T : x <= y
  <1>. DEFINE Less == {ss \in Nat \X Nat : ss[1] < ss[2]}
  <1>1. OpToRel(<, Nat) = Less
    BY Zenon DEF OpToRel
  <1>2. IsWellFoundedOn(Less, Nat)
    BY <1>1, NatLessThanWellFounded, Zenon
  <1>3. PICK x \in T : \A y \in T : <<y, x>> \notin Less
    BY <1>2, WFMin, Zenon
  <1>4. \A m, n \in Nat : m < n => <<m, n>> \in Less
    OBVIOUS
  <1>5. \A y \in T : ~(y < x)
    BY <1>3, <1>4
  <1>. QED
    BY <1>5

(* Induction over a set of numbers.                                        *)
LEMMA EveryNumber ==
    ASSUME NEW P, 0 \in P, \A n \in P : n \in Nat => n + 1 \in P
    PROVE  Nat \subseteq P
  <1>. SUFFICES ASSUME Nat \ P # {}
                PROVE  FALSE
    OBVIOUS
  <1>1. PICK x \in Nat \ P : \A y \in Nat \ P : x <= y
    BY LeastNumber
  <1>2. x # 0
    BY <1>1
  <1>3. x - 1 \in Nat /\ x - 1 + 1 = x /\ ~(x <= x - 1)
    BY <1>2
  <1>. QED
    BY <1>1, <1>3

(* One step of the fold when all messages are public.                      *)
After(v, msgs, t) ==
    IF t \notin Actions(msgs) \cap DOMAIN msgs THEN v
    ELSE CASE msgs[t].kind = "edit"     -> Edit(v, msgs, t)
           [] msgs[t].kind = "delete"   -> Delete(v, msgs, msgs[t])
           [] msgs[t].kind = "reaction" -> React(v, msgs, msgs[t])
           [] msgs[t].kind = "remove"   -> RemoveReaction(v, msgs[t])
           [] OTHER -> EditCategory(v, msgs, t, {})

(* What is deleted on a board with these messages.                         *)
Gone(msgs) == Rebuilt(msgs, DOMAIN msgs, {}).deleted

(* The last value of the fold.                                             *)
LEMMA GoneFolds ==
    ASSUME NEW msgs
    PROVE  \E f : /\ f = [t \in 0..MaxTime |-> IF t = 0 THEN Nothing ELSE After(f[t - 1], msgs, t)]
                  /\ Gone(msgs) = f[MaxTime].deleted
  <1>. DEFINE Step(v, t) == After(v, msgs, t)
              Fold(f, n) == f = [t \in 0..n |-> IF t = 0 THEN Nothing ELSE Step(f[t - 1], t)]
              Folded == {n \in Nat : \E f : Fold(f, n)}
              h == CHOOSE f : Fold(f, MaxTime)
  <1>1. Gone(msgs) = h[MaxTime].deleted
    BY DEF Gone, Rebuilt, After
  <1>. HIDE DEF Step
  <1>2. 0 \in Folded
    <2>. DEFINE g == [t \in 0..0 |-> Nothing]
    <2>1. Fold(g, 0)
      OBVIOUS
    <2>. QED
      BY <2>1
  <1>3. ASSUME NEW n \in Folded
        PROVE  n + 1 \in Folded
    <2>1. PICK f : Fold(f, n)
      BY <1>3
    <2>. DEFINE g == [t \in 0..n+1 |-> IF t = 0 THEN Nothing ELSE Step(f[t - 1], t)]
    <2>2. ASSUME NEW t \in 0..n+1, t # 0
          PROVE  g[t - 1] = f[t - 1]
      <3>1. t - 1 \in 0..n /\ t - 1 \in 0..n+1
        BY <2>2, <1>3
      <3>. QED
        BY <3>1, <2>1
    <2>3. Fold(g, n + 1)
      BY <2>2
    <2>4. n + 1 \in Nat
      BY <1>3
    <2>. QED
      BY <2>3, <2>4
  <1>4. MaxTime \in Folded
    BY <1>2, <1>3, EveryNumber, MaxTimeAssumption
  <1>5. Fold(h, MaxTime)
    BY <1>4
  <1>. QED
    BY <1>1, <1>5 DEF Step

(* d deletes x.                                                            *)
Deletes(msgs, d, x) ==
    /\ d \in Actions(msgs) /\ msgs[d].kind = "delete" /\ msgs[d].target = x
    /\ x \in Authored(msgs) /\ msgs[x].author = msgs[d].author

(* A step deletes what its message deletes, and nothing comes back.        *)
LEMMA AfterDeletes ==
    ASSUME NEW msgs, NEW v, DOMAIN v = DOMAIN Nothing, NEW t
    PROVE  /\ DOMAIN After(v, msgs, t) = DOMAIN Nothing
           /\ \A x : x \in After(v, msgs, t).deleted <=> x \in v.deleted \/ Deletes(msgs, t, x)
  <1>. DEFINE a == msgs[t]
              w == After(v, msgs, t)
  <1>1. DOMAIN v = {"edited", "categories", "deleted", "reactions"}
    BY DEF Nothing
  <1>0. t \in Actions(msgs) => t \in DOMAIN msgs
    BY DEF Actions
  <1>2. CASE t \notin Actions(msgs) \/ a.kind # "delete"
    <2>1. \A e : [v EXCEPT !.edited = e].deleted = v.deleted /\ DOMAIN [v EXCEPT !.edited = e] = DOMAIN v
      BY <1>1
    <2>2. \A e : [v EXCEPT !.reactions = e].deleted = v.deleted /\ DOMAIN [v EXCEPT !.reactions = e] = DOMAIN v
      BY <1>1
    <2>3. \A e : [v EXCEPT !.categories = e].deleted = v.deleted /\ DOMAIN [v EXCEPT !.categories = e] = DOMAIN v
      BY <1>1
    <2>4. w.deleted = v.deleted /\ DOMAIN w = DOMAIN v
      BY <1>0, <1>2, <2>1, <2>2, <2>3 DEF After, Edit, React, RemoveReaction, EditCategory
    <2>. QED
      BY <1>2, <2>4 DEF Deletes
  <1>3. CASE t \in Actions(msgs) /\ a.kind = "delete"
    <2>1. w = Delete(v, msgs, a)
      BY <1>0, <1>3 DEF After
    <2>2. ASSUME ByAuthor(msgs, a)
          PROVE  w.deleted = v.deleted \cup {a.target} /\ DOMAIN w = DOMAIN v
      BY <1>1, <2>1, <2>2 DEF Delete
    <2>3. ~ByAuthor(msgs, a) => w = v
      BY <2>1 DEF Delete
    <2>4. \A x : Deletes(msgs, t, x) <=> ByAuthor(msgs, a) /\ x = a.target
      BY <1>3 DEF Deletes, ByAuthor
    <2>. HIDE DEF w
    <2>5. \A x : x \in w.deleted <=> x \in v.deleted \/ (ByAuthor(msgs, a) /\ x = a.target)
      BY <2>2, <2>3
    <2>6. DOMAIN w = DOMAIN Nothing
      BY <2>2, <2>3
    <2>. QED
      BY <2>4, <2>5, <2>6 DEF w
  <1>. QED
    BY <1>2, <1>3

(* Deleted is what some message deletes.                                   *)
LEMMA GoneIs ==
    ASSUME NEW msgs, DOMAIN msgs \subseteq Times, NEW x
    PROVE  x \in Gone(msgs) <=> \E d \in DOMAIN msgs : Deletes(msgs, d, x)
  <1>1. PICK f : /\ f = [t \in 0..MaxTime |-> IF t = 0 THEN Nothing ELSE After(f[t - 1], msgs, t)]
                 /\ Gone(msgs) = f[MaxTime].deleted
    BY GoneFolds
  <1>. DEFINE Upto(n) == \E d \in 1..n : Deletes(msgs, d, x)
              Right == {n \in Nat : n <= MaxTime =>
                          DOMAIN f[n] = DOMAIN Nothing /\ (x \in f[n].deleted <=> Upto(n))}
  <1>2. 0 \in Right
    <2>1. f[0] = Nothing /\ Nothing.deleted = {}
      BY <1>1, MaxTimeAssumption DEF Nothing
    <2>. QED
      BY <2>1
  <1>3. ASSUME NEW n \in Right
        PROVE  n + 1 \in Right
    <2>. SUFFICES ASSUME n + 1 <= MaxTime
                  PROVE  DOMAIN f[n + 1] = DOMAIN Nothing /\ (x \in f[n + 1].deleted <=> Upto(n + 1))
      OBVIOUS
    <2>1. n \in Nat /\ DOMAIN f[n] = DOMAIN Nothing /\ (x \in f[n].deleted <=> Upto(n))
      BY MaxTimeAssumption
    <2>2. f[n + 1] = After(f[n], msgs, n + 1)
      BY <1>1, <2>1, MaxTimeAssumption
    <2>3. Upto(n + 1) <=> Upto(n) \/ Deletes(msgs, n + 1, x)
      <3>1. \A d : d \in 1..(n + 1) <=> d \in 1..n \/ d = n + 1
        BY <2>1
      <3>. QED
        BY <3>1
    <2>. HIDE DEF Upto
    <2>. QED
      BY <2>1, <2>2, <2>3, AfterDeletes
  <1>4. MaxTime \in Right
    <2>. HIDE DEF Right
    <2>. QED
      BY <1>2, <1>3, EveryNumber, MaxTimeAssumption
  <1>5. Upto(MaxTime) <=> \E d \in DOMAIN msgs : Deletes(msgs, d, x)
    BY DEF Times, Deletes, Actions
  <1>. QED
    BY <1>1, <1>4, <1>5, MaxTimeAssumption

---------------------------------------------------------------------------
(* What is deleted among the messages ids.                                 *)
GoneIn(msgs, ids) == Gone([t \in ids |-> msgs[t]])

(* What a view has deleted, in terms of the messages alone.                *)
LEMMA ViewDeletes == \A ids : View(ids).deleted = GoneIn(posted, ids)
  BY DEF View, Has, GoneIn, Gone

(* A message that is no action is deleted when a deletion of its author    *)
(* has it for a target.                                                    *)
LEMMA GoneInIs ==
    ASSUME NEW msgs, NEW ids \in SUBSET Times, NEW x
    PROVE  x \in GoneIn(msgs, ids) <=>
              /\ x \in ids /\ ~IsAction(msgs[x])
              /\ \E d \in ids : /\ msgs[d].kind = "delete" /\ msgs[d].target = x
                                /\ msgs[x].author = msgs[d].author
  <1>. DEFINE held == [t \in ids |-> msgs[t]]
  <1>1. DOMAIN held = ids /\ \A t \in ids : held[t] = msgs[t]
    OBVIOUS
  <1>. HIDE DEF held
  <1>2. x \in Gone(held) <=> \E d \in ids : Deletes(held, d, x)
    BY <1>1, GoneIs
  <1>3. \A d \in ids : Deletes(held, d, x) <=>
            /\ x \in ids /\ ~IsAction(msgs[x])
            /\ msgs[d].kind = "delete" /\ msgs[d].target = x /\ msgs[x].author = msgs[d].author
    <2>. TAKE d \in ids
    <2>1. d \in Actions(held) <=> IsAction(msgs[d])
      BY <1>1 DEF Actions
    <2>2. x \in Authored(held) <=> x \in ids /\ ~IsAction(msgs[x])
      BY <1>1 DEF Authored, Actions
    <2>3. msgs[d].kind = "delete" => IsAction(msgs[d])
      BY DEF IsAction, ActionKinds
    <2>. QED
      BY <1>1, <2>1, <2>2, <2>3 DEF Deletes
  <1>. QED
    BY <1>2, <1>3 DEF GoneIn, held

(* Only the messages themselves matter.                                    *)
LEMMA GoneSame ==
    ASSUME NEW msgs, NEW after, NEW ids, \A t \in ids : after[t] = msgs[t]
    PROVE  GoneIn(after, ids) = GoneIn(msgs, ids)
  <1>1. [t \in ids |-> after[t]] = [t \in ids |-> msgs[t]]
    OBVIOUS
  <1>. QED
    BY <1>1 DEF GoneIn

(* Messages that come later bring nothing back.                            *)
LEMMA GoneGrows ==
    ASSUME NEW msgs, NEW after, NEW ids \in SUBSET Times, NEW more \in SUBSET Times,
           ids \subseteq more, \A t \in ids : after[t] = msgs[t]
    PROVE  GoneIn(msgs, ids) \subseteq GoneIn(after, more)
  <1>. SUFFICES ASSUME NEW x \in GoneIn(msgs, ids)
                PROVE  x \in GoneIn(after, more)
    OBVIOUS
  <1>1. /\ x \in ids /\ ~IsAction(msgs[x])
        /\ \E d \in ids : /\ msgs[d].kind = "delete" /\ msgs[d].target = x
                          /\ msgs[x].author = msgs[d].author
    BY GoneInIs
  <1>2. /\ x \in more /\ ~IsAction(after[x])
        /\ \E d \in more : /\ after[d].kind = "delete" /\ after[d].target = x
                           /\ after[x].author = after[d].author
    BY <1>1
  <1>. QED
    BY <1>2, GoneInIs

---------------------------------------------------------------------------
(* What the board has deleted by now.                                      *)
Deleted == GoneIn(posted, Board)

(* p is the j-th in s, or in hand for j = 0: what was deleted when it was   *)
(* sent is so in every answer after it, and in gone.                       *)
Follows(p, j, s, gone) ==
    /\ p.gone \subseteq gone
    /\ \A i \in DOMAIN s : i > j /\ s[i].kind = "get" => p.gone \subseteq s[i].gone

Trails(p, j) == "gone" \in DOMAIN p /\ Follows(p, j, socket, Deleted)

Answers == \A i \in DOMAIN socket :
    socket[i].kind = "get" => socket[i].gone = GoneIn(posted, socket[i].ids)
Deltas == \A j \in DOMAIN socket : socket[j].kind = "delta" => Trails(socket[j], j)
Wire == Answers /\ Deltas

InTime == pc \in {"handling", "fetching"} => Trails(news, 0)

(* What is sent, what is in hand and what was written.                     *)
Ordered == Wire /\ InTime /\ NoPhantoms

(* An item is sent when more may be deleted.                               *)
LEMMA FollowsSent ==
    ASSUME NEW s, IsSeq(s), NEW p, NEW j, NEW gone, NEW more, NEW q,
           Follows(p, j, s, gone), gone \subseteq more, q.kind = "get" => gone \subseteq q.gone
    PROVE  Follows(p, j, Append(s, q), more)
  <1>1. \A i \in DOMAIN Append(s, q) :
            \/ i \in DOMAIN s /\ Append(s, q)[i] = s[i]
            \/ Append(s, q)[i] = q
    BY Pushed
  <1>. QED
    BY <1>1 DEF Follows

(* The first item is taken.                                                *)
LEMMA FollowsTaken ==
    ASSUME NEW s, IsSeq(s), s # <<>>, NEW p, NEW j \in Nat, NEW k \in 0..(j + 1), NEW gone,
           Follows(p, k, s, gone)
    PROVE  Follows(p, j, Tail(s), gone)
  <1>1. /\ DOMAIN s = 1..Len(s) /\ Len(s) \in Nat /\ DOMAIN Tail(s) = 1..(Len(s) - 1)
        /\ \A i \in DOMAIN Tail(s) : i + 1 \in DOMAIN s /\ Tail(s)[i] = s[i + 1]
    BY Popped
  <1>2. \A i \in DOMAIN Tail(s) : i > j => i + 1 > k
    BY <1>1
  <1>. QED
    BY <1>1, <1>2 DEF Follows

(* The order of the wire holds at first.                                   *)
LEMMA OrderedInit == Init => Ordered
  <1>. SUFFICES ASSUME Init
                PROVE  Ordered
    OBVIOUS
  <1>1. DOMAIN socket = {} /\ DOMAIN shown = {}
    BY EmptySeq DEF Init
  <1>. QED
    BY <1>1 DEF Init, Ordered, Wire, Answers, Deltas, InTime, NoPhantoms

(* What has changed of the messages, the socket and the delta in hand      *)
(* decides about the order of the wire.                                    *)
LEMMA WireSame ==
    ASSUME Wire, UNCHANGED <<posted, socket>>
    PROVE  Wire' /\ \A p, j : Trails(p, j) => Trails(p, j)'
  BY DEF Wire, Answers, Deltas, Trails, Deleted, Board

(* The first is taken.                                                     *)
LEMMA WireTaken ==
    ASSUME IInv, Wire, UNCHANGED posted, socket # <<>>, socket' = Tail(socket)
    PROVE  Wire'
  <1>1. /\ IsSeq(socket) /\ DOMAIN socket = 1..Len(socket) /\ Len(socket) \in Nat \ {0}
        /\ DOMAIN socket' = 1..(Len(socket) - 1)
        /\ \A i \in DOMAIN socket' : i + 1 \in DOMAIN socket /\ socket'[i] = socket[i + 1]
    BY Popped DEF IInv, Types, Packets
  <1>2. Answers' /\ Deleted' = Deleted
    BY <1>1 DEF Wire, Answers, Deleted, Board
  <1>3. Deltas'
    <2>. SUFFICES ASSUME NEW j \in DOMAIN socket', socket'[j].kind = "delta"
                  PROVE  Trails(socket[j], j)'
      BY DEF Deltas
    <2>1. PICK p : p = socket'[j] /\ p = socket[j + 1] /\ j + 1 \in DOMAIN socket
      BY <1>1
    <2>2. "gone" \in DOMAIN p /\ Follows(p, j + 1, socket, Deleted)
      BY <2>1 DEF Wire, Deltas, Trails
    <2>3. j \in Nat /\ j + 1 \in 0..(j + 1)
      BY <1>1
    <2>4. Follows(p, j, socket', Deleted)
      BY <1>1, <2>2, <2>3, FollowsTaken
    <2>. QED
      BY <1>2, <2>1, <2>2, <2>4 DEF Trails
  <1>. QED
    BY <1>2, <1>3 DEF Wire

(* One more is sent, when nothing has come back.                           *)
LEMMA WireSent ==
    ASSUME IInv, Ordered, UNCHANGED <<pc, news, shown, command>>, Deleted \subseteq Deleted',
           \A ids \in SUBSET DOMAIN posted : GoneIn(posted', ids) = GoneIn(posted, ids),
           NEW q, socket' = Append(socket, q),
           q.kind = "get" => q.gone = GoneIn(posted', q.ids) /\ Deleted \subseteq q.gone,
           q.kind = "delta" => "gone" \in DOMAIN q /\ q.gone \subseteq Deleted'
    PROVE  Ordered'
  <1>1. /\ IsSeq(socket) /\ DOMAIN socket = 1..Len(socket) /\ Len(socket) \in Nat
        /\ DOMAIN socket' = 1..(Len(socket) + 1)
        /\ \A i \in 1..Len(socket) : socket'[i] = socket[i]
        /\ socket'[Len(socket) + 1] = q
        /\ \A i \in DOMAIN socket : socket[i].ids \subseteq DOMAIN posted
    BY Pushed DEF IInv, Types, Packets, Packet
  <1>2. Answers'
    <2>1. \A i \in DOMAIN socket' : (i \in DOMAIN socket /\ socket'[i] = socket[i]) \/ socket'[i] = q
      BY <1>1
    <2>. QED
      BY <1>1, <2>1 DEF Ordered, Wire, Answers
  <1>3. ASSUME NEW p, NEW j, Trails(p, j)
        PROVE  "gone" \in DOMAIN p /\ Follows(p, j, socket', Deleted')
    BY <1>1, <1>3, FollowsSent DEF Trails
  <1>4. Deltas'
    <2>. SUFFICES ASSUME NEW j \in DOMAIN socket', socket'[j].kind = "delta"
                  PROVE  Trails(socket[j], j)'
      BY DEF Deltas
    <2>1. PICK p : p = socket'[j]
      OBVIOUS
    <2>2. CASE j \in DOMAIN socket
      <3>1. Trails(p, j)
        BY <1>1, <2>1, <2>2 DEF Ordered, Wire, Deltas
      <3>. QED
        BY <1>3, <2>1, <3>1 DEF Trails
    <2>3. CASE j \notin DOMAIN socket
      <3>1. p = q /\ ~ \E i \in DOMAIN socket' : i > j
        BY <1>1, <2>1, <2>3
      <3>2. Follows(p, j, socket', Deleted')
        BY <2>1, <3>1 DEF Follows
      <3>. QED
        BY <2>1, <3>1, <3>2 DEF Trails
    <2>. QED
      BY <2>2, <2>3
  <1>5. InTime'
    <2>. SUFFICES ASSUME pc' \in {"handling", "fetching"}
                  PROVE  Trails(news, 0)'
      BY DEF InTime
    <2>1. Trails(news, 0)
      BY DEF Ordered, InTime
    <2>. QED
      BY <1>3, <2>1 DEF Trails
  <1>6. NoPhantoms'
    BY DEF Ordered, NoPhantoms
  <1>. QED
    BY <1>2, <1>4, <1>5, <1>6 DEF Ordered, Wire

(* The node puts an answer, and with it the board, into the socket.        *)
LEMMA AnswerOrdered ==
    ASSUME IInv, Ordered, AnswerGet \/ AnswerSubscribe
    PROVE  Ordered'
  <1>1. UNCHANGED <<posted, pc, news, shown, command>>
    BY DEF AnswerGet, AnswerSubscribe, remote, written
  <1>2. PICK q : /\ socket' = Append(socket, q) /\ q.kind # "delta"
                 /\ q.kind = "get" => q.gone = GoneIn(posted, q.ids) /\ q.gone = Deleted
    <2>1. /\ Bare("failed").kind = "failed" /\ Bare("refused").kind = "refused"
          /\ Bare("subscribed").kind = "subscribed"
      BY DEF Bare
    <2>2. /\ Sent("get", Board).kind = "get" /\ Sent("get", Board).ids = Board
          /\ Sent("get", Board).gone = GoneIn(posted, Board)
      BY ViewDeletes DEF Sent
    <2>3. \/ socket' = Append(socket, Sent("get", Board))
          \/ socket' = Append(socket, Bare("failed"))
          \/ socket' = Append(socket, Bare("refused"))
          \/ socket' = Append(socket, Bare("subscribed"))
      BY DEF AnswerGet, AnswerSubscribe
    <2>. QED
      BY <2>1, <2>2, <2>3 DEF Deleted
  <1>3. Deleted' = Deleted /\ \A ids : GoneIn(posted', ids) = GoneIn(posted, ids)
    BY <1>1 DEF Deleted, Board
  <1>. QED
    BY <1>1, <1>2, <1>3, WireSent

(* A message is posted: nothing comes back, and whoever subscribed is told. *)
LEMMA PostOrdered ==
    ASSUME IInv, Ordered, NEW kind, NEW x, NEW t, Post(kind, x, t)
    PROVE  Ordered'
  <1>1. /\ UNCHANGED <<command, pc, shown, news>> /\ t \in Times /\ t \notin DOMAIN posted
        /\ DOMAIN posted' = DOMAIN posted \cup {t}
        /\ \A u \in DOMAIN posted : posted'[u] = posted[u]
    BY DEF Post, written
  <1>2. \A ids \in SUBSET DOMAIN posted : GoneIn(posted', ids) = GoneIn(posted, ids)
    BY <1>1, GoneSame
  <1>3. Deleted \subseteq Deleted'
    BY <1>1, GoneGrows DEF Deleted, Board, IInv, Types
  <1>4. CASE UNCHANGED socket
    <2>1. Answers'
      BY <1>2, <1>4 DEF Ordered, Wire, Answers, IInv, Types, Packets, Packet
    <2>2. ASSUME NEW p, NEW j, Trails(p, j)
          PROVE  Trails(p, j)'
      BY <1>3, <1>4, <2>2 DEF Trails, Follows
    <2>3. Deltas' /\ InTime' /\ NoPhantoms'
      BY <1>1, <1>4, <2>2 DEF Ordered, Wire, Deltas, InTime, NoPhantoms
    <2>. QED
      BY <2>1, <2>3 DEF Ordered, Wire
  <1>5. CASE ~UNCHANGED socket
    <2>1. PICK k, ids : k \in {"delta", "state"} /\ socket' = Append(socket, Sent(k, ids)')
      BY <1>5 DEF Post
    <2>2. PICK q : q = Sent(k, ids)'
      OBVIOUS
    <2>3. q.kind = k /\ "gone" \in DOMAIN q /\ q.gone = View(Board)'.deleted
      BY <2>2 DEF Sent
    <2>4. View(Board)'.deleted = Deleted'
      BY DEF View, Has, Deleted, GoneIn, Gone
    <2>. QED
      BY <1>1, <1>2, <1>3, <2>1, <2>2, <2>3, <2>4, WireSent
  <1>. QED
    BY <1>4, <1>5

---------------------------------------------------------------------------
(* The client reads.                                                       *)

(* Whatever it reads, the wire is in order.                                *)
LEMMA WireRead ==
    ASSUME IInv, Wire, UNCHANGED posted,
           UNCHANGED socket \/ (socket # <<>> /\ socket' = Tail(socket))
    PROVE  Wire'
  BY WireSame, WireTaken

(* Steps that leave the delta in hand alone.                               *)
LEMMA WaitOrdered ==
    ASSUME IInv, Ordered, Begin \/ Poll \/ Stop \/ FirstFails \/ Subscribe \/ ListenLate
    PROVE  Ordered'
  <1>1. /\ UNCHANGED <<command, posted, shown>>
        /\ UNCHANGED socket \/ (socket # <<>> /\ socket' = Tail(socket))
        /\ pc' \notin {"handling", "fetching"}
    BY DEF Begin, Poll, Stop, FirstFails, Subscribe, ListenLate, Failed, Received, remote, written
  <1>2. Wire'
    BY <1>1, WireRead DEF Ordered
  <1>. QED
    BY <1>1, <1>2 DEF Ordered, InTime, NoPhantoms

(* The delta at the head is the one in hand.                               *)
LEMMA DeltaOrdered ==
    ASSUME IInv, Ordered, ListenDelta
    PROVE  Ordered'
  <1>1. /\ UNCHANGED <<command, posted, shown>>
        /\ socket # <<>> /\ socket' = Tail(socket) /\ Head(socket).kind = "delta"
        /\ news' = Head(socket)
    BY DEF ListenDelta, Received, remote, written
  <1>2. Wire' /\ Deleted' = Deleted
    BY <1>1, WireRead DEF Ordered, Deleted, Board
  <1>3. PICK p : p = socket[1] /\ 1 \in DOMAIN socket /\ Head(socket) = p /\ IsSeq(socket)
    BY <1>1, Popped DEF IInv, Types, Packets
  <1>4. "gone" \in DOMAIN p /\ Follows(p, 1, socket, Deleted)
    BY <1>1, <1>3 DEF Ordered, Wire, Deltas, Trails
  <1>5. Follows(p, 0, Tail(socket), Deleted)
    <2>1. 0 \in Nat /\ 1 \in 0..(0 + 1)
      OBVIOUS
    <2>. QED
      BY <1>1, <1>3, <1>4, <2>1, FollowsTaken
  <1>6. Trails(news, 0)'
    BY <1>1, <1>2, <1>3, <1>4, <1>5 DEF Trails
  <1>. QED
    BY <1>1, <1>2, <1>6 DEF Ordered, InTime, NoPhantoms

(* What of a delta is left keeps what was deleted with it.                  *)
LEMMA FollowsLess ==
    ASSUME NEW p, NEW ids, NEW j, NEW s, NEW gone, "gone" \in DOMAIN p, Follows(p, j, s, gone),
           NEW r, r = [p EXCEPT !.ids = ids]
    PROVE  "gone" \in DOMAIN r /\ r.gone = p.gone /\ Follows(r, j, s, gone)
  <1>1. "gone" \in DOMAIN r /\ r.gone = p.gone
    OBVIOUS
  <1>. QED
    BY <1>1 DEF Follows

(* What was seen is left out.                                              *)
LEMMA HandleOrdered ==
    ASSUME IInv, Ordered, Handle
    PROVE  Ordered'
  <1>1. /\ UNCHANGED <<command, posted, shown, socket>>
        /\ news' = [news EXCEPT !.ids = news.ids \ seen] /\ pc = "handling"
    BY DEF Handle, remote
  <1>2. Wire' /\ Deleted' = Deleted
    BY <1>1, WireRead DEF Ordered, Deleted, Board
  <1>3. Trails(news, 0)'
    BY <1>1, <1>2, FollowsLess DEF Ordered, InTime, Trails
  <1>. QED
    BY <1>1, <1>2, <1>3 DEF Ordered, InTime, NoPhantoms

(* A line about a message that the view it is written from has not         *)
(* deleted.                                                                *)
LEMMA LineNotGone ==
    ASSUME NEW t, NEW how, NEW gone, t \notin gone
    PROVE  Line(t, how, gone).gone = FALSE
  <1>. DEFINE g == t \in gone
  <1>1. g = FALSE /\ Line(t, how, gone) = [id |-> t, how |-> how, gone |-> g]
    BY DEF Line
  <1>. HIDE DEF g
  <1>. QED
    BY <1>1

(* Lines of messages none of which is gone.                                *)
LEMMA LinesGone ==
    ASSUME NEW S, NEW s \in Seq(S), NEW how, NEW gone, S \cap gone = {},
           NEW l, l = Lines(s, how, gone)
    PROVE  \A i \in DOMAIN l : ~l[i].gone
  <1>1. DOMAIN l = DOMAIN s /\ \A i \in DOMAIN s : l[i] = Line(s[i], how, gone)
    BY DEF Lines
  <1>2. \A i \in DOMAIN s : s[i] \in S
    BY LenProperties, ElementOfSeq
  <1>3. \A i \in DOMAIN s : Line(s[i], how, gone).gone = FALSE
    BY <1>2, LineNotGone
  <1>. QED
    BY <1>1, <1>3

(* What is listed is not deleted.                                          *)
LEMMA FirstOrdered ==
    ASSUME IInv, Ordered, List \/ PollFirst \/ SubscribeFirst
    PROVE  Ordered'
  <1>. DEFINE got == Head(socket)
  <1>1. /\ UNCHANGED <<command, posted>>
        /\ got.kind = "get" /\ socket # <<>> /\ socket' = Tail(socket)
        /\ pc' \notin {"listen", "handling", "fetching"}
    BY DEF List, PollFirst, SubscribeFirst, Got, Received, remote
  <1>2. Wire'
    BY <1>1, WireRead DEF Ordered
  <1>3. got.ids \in SUBSET Times /\ got.gone = View(got.ids).deleted
    <2>1. 1 \in DOMAIN socket /\ Head(socket) = socket[1]
      BY <1>1, Popped DEF IInv, Types, Packets
    <2>2. got.ids \in SUBSET Times
      BY <2>1 DEF IInv, Types, Packets, Packet
    <2>. QED
      BY <1>1, <2>1, <2>2, ViewDeletes DEF Ordered, Wire, Answers
  <1>4. command.initial \in Nat
    BY CommandsAssumption DEF IInv, Types
  <1>. DEFINE display == Displayed(Has(got.ids), View(got.ids))
  <1>5. display \in SUBSET Times /\ display \cap got.gone = {}
    BY <1>3 DEF Displayed, Authored, Has
  <1>6. ASSUME NEW S \in SUBSET display,
               shown' = Lines(LastOf(Sorted(S), command.initial), "first", got.gone)
        PROVE  NoPhantoms'
    <2>. HIDE DEF display
    <2>1. S \in SUBSET Times /\ S \cap got.gone = {}
      BY <1>5
    <2>2. LastOf(Sorted(S), command.initial) \in Seq(S)
      BY <1>4, <2>1, LastSelected DEF Listing
    <2>3. PICK l : l = shown'
      OBVIOUS
    <2>4. \A i \in DOMAIN l : ~l[i].gone
      BY <1>6, <2>1, <2>2, <2>3, LinesGone
    <2>. QED
      BY <2>3, <2>4 DEF NoPhantoms
  <1>7. CASE List
    <2>. DEFINE recent == {t \in display : t >= command.since}
    <2>1. recent \in SUBSET display
      OBVIOUS
    <2>2. shown' = Lines(LastOf(Sorted(recent), command.initial), "first", got.gone)
      BY <1>7 DEF List
    <2>. HIDE DEF recent
    <2>3. NoPhantoms'
      BY <1>6, <2>1, <2>2
    <2>. QED
      BY <1>1, <1>2, <2>3 DEF Ordered, InTime
  <1>8. CASE PollFirst
    <2>1. NoPhantoms'
      BY <1>1, <1>8 DEF PollFirst, NoPhantoms
    <2>. QED
      BY <1>1, <1>2, <2>1 DEF Ordered, InTime
  <1>9. CASE SubscribeFirst
    <2>1. shown' = Lines(LastOf(Sorted(display), command.initial), "first", got.gone)
      BY <1>9 DEF SubscribeFirst, Display
    <2>2. NoPhantoms'
      BY <1>6, <2>1
    <2>. QED
      BY <1>1, <1>2, <2>2 DEF Ordered, InTime
  <1>. QED
    BY <1>7, <1>8, <1>9

(* What a poll or a whole state shows is not of a delta.                    *)
LEMMA NewOrdered ==
    ASSUME IInv, Ordered, Polled \/ ListenState
    PROVE  Ordered'
  <1>1. /\ UNCHANGED <<command, posted, known>>
        /\ UNCHANGED socket \/ (socket # <<>> /\ socket' = Tail(socket))
    BY DEF Polled, ListenState, Got, Failed, Received, remote
  <1>2. Wire'
    BY <1>1, WireRead DEF Ordered
  <1>3. CASE Polled
    <2>1. command.mode = "poll" /\ pc' \notin {"listen", "handling", "fetching"}
      BY <1>3 DEF Polled, ShowNew, IInv, Courses
    <2>. QED
      BY <1>1, <1>2, <2>1 DEF Ordered, InTime, NoPhantoms
  <1>4. CASE ListenState
    <2>1. /\ pc = "listen" /\ ShowNew(Head(socket).ids, "state", "listen")
          /\ socket # <<>> /\ socket' = Tail(socket)
      BY <1>4 DEF ListenState, Received
    <2>2. Head(socket).ids \in SUBSET DOMAIN posted /\ command.mode # "list"
      BY <1>1, <2>1, Taken DEF Packet, IInv, Courses
    <2>3. /\ pc' \in {"done", "listen"}
          /\ \A i \in DOMAIN shown' :
                shown'[i].how = "state" \/ (i \in DOMAIN shown /\ shown'[i] = shown[i])
      BY <1>1, <2>1, <2>2, NewWritten
    <2>4. NoPhantoms'
      BY <1>1, <2>3 DEF Ordered, NoPhantoms
    <2>. QED
      BY <1>1, <1>2, <2>1, <2>3, <2>4 DEF Ordered, InTime
  <1>. QED
    BY <1>3, <1>4

(* The oldest message of the delta in hand is fetched: the answer that is   *)
(* taken for it has it deleted, if it was before.                          *)
LEMMA FetchedOrdered ==
    ASSUME IInv, Ordered, Fetched
    PROVE  Ordered'
  <1>. DEFINE t == InHand
              got == Head(socket)
              line == Line(t, "delta", news.gone)
  <1>1. /\ UNCHANGED <<command, posted>>
        /\ UNCHANGED socket \/ (socket # <<>> /\ socket' = Tail(socket))
        /\ news' = [news EXCEPT !.ids = news.ids \ {t}] /\ pc = "fetching"
        /\ UNCHANGED shown \/ (/\ socket # <<>> /\ got.kind = "get"
                               /\ t \notin View(got.ids).deleted /\ shown' = Append(shown, line))
    BY DEF Fetched, Got, Failed, Received, remote, written, InHand
  <1>2. Wire' /\ Deleted' = Deleted
    BY <1>1, WireRead DEF Ordered, Deleted, Board
  <1>3. IsSeq(socket) /\ "gone" \in DOMAIN news /\ Follows(news, 0, socket, Deleted)
    BY <1>1 DEF Ordered, InTime, Trails, IInv, Types, Packets
  <1>4. Trails(news, 0)'
    <2>1. Follows(news, 0, socket', Deleted)
      <3>1. 0 \in Nat /\ 0 \in 0..(0 + 1)
        OBVIOUS
      <3>. QED
        BY <1>1, <1>3, <3>1, FollowsTaken
    <2>. QED
      BY <1>1, <1>2, <1>3, <2>1, FollowsLess DEF Trails
  <1>5. NoPhantoms'
    <2>1. CASE UNCHANGED shown
      BY <1>1, <2>1 DEF Ordered, NoPhantoms
    <2>2. CASE ~UNCHANGED shown
      <3>1. 1 \in DOMAIN socket /\ got = socket[1] /\ 1 > 0
        BY <1>1, <1>3, <2>2, Popped
      <3>2. t \notin got.gone /\ news.gone \subseteq got.gone
        BY <1>1, <1>3, <2>2, <3>1, ViewDeletes DEF Ordered, Wire, Answers, Follows
      <3>3. line.gone = FALSE
        BY <3>2, LineNotGone
      <3>. HIDE DEF line
      <3>4. \A i \in DOMAIN shown' : (i \in DOMAIN shown /\ shown'[i] = shown[i]) \/ shown'[i] = line
        <4>1. shown \in Seq(Written)
          BY DEF IInv, Types
        <4>. QED
          BY <1>1, <2>2, <4>1, AnySeq, Pushed
      <3>. QED
        BY <1>1, <3>3, <3>4 DEF Ordered, NoPhantoms
    <2>. QED
      BY <2>1, <2>2
  <1>. QED
    BY <1>1, <1>2, <1>4, <1>5 DEF Ordered, InTime

(* The order of the wire is kept by every step.                            *)
LEMMA OrderedNext == IInv /\ Ordered /\ [Next]_vars => Ordered'
  <1>. SUFFICES ASSUME IInv, Ordered, [Next]_vars
                PROVE  Ordered'
    OBVIOUS
  <1>1. CASE \E kind, x, t : Post(kind, x, t)
    BY <1>1, PostOrdered
  <1>2. CASE AnswerGet \/ AnswerSubscribe
    BY <1>2, AnswerOrdered
  <1>3. CASE Begin \/ Poll \/ Stop \/ FirstFails \/ Subscribe \/ ListenLate
    BY <1>3, WaitOrdered
  <1>4. CASE ListenDelta \/ Handle
    BY <1>4, DeltaOrdered, HandleOrdered
  <1>5. CASE List \/ PollFirst \/ SubscribeFirst
    BY <1>5, FirstOrdered
  <1>6. CASE Polled \/ ListenState
    BY <1>6, NewOrdered
  <1>7. CASE Fetched
    BY <1>7, FetchedOrdered
  <1>8. CASE UNCHANGED vars
    <2>1. UNCHANGED <<command, posted, socket, pc, shown, news>>
      BY <1>8 DEF vars, remote, written
    <2>2. Wire' /\ (Trails(news, 0) => Trails(news, 0)')
      BY <2>1, WireSame DEF Ordered, Trails
    <2>. QED
      BY <2>1, <2>2 DEF Ordered, InTime, NoPhantoms
  <1>. QED
    BY <1>1, <1>2, <1>3, <1>4, <1>5, <1>6, <1>7, <1>8 DEF Next, Client

(* A message that was deleted when the node sent the delta with it, or the  *)
(* answer it was listed from, is not written, whatever is posted in between *)
(* and however late an answer comes ("Skip deleted messages").             *)
THEOREM NoPhantomsShown == Spec => []NoPhantoms
  <1>1. Spec => []Ordered
    BY AlwaysHolds, OrderedInit, OrderedNext, PTL DEF Spec
  <1>2. Ordered => NoPhantoms
    BY DEF Ordered
  <1>. QED
    BY <1>1, <1>2, PTL
=============================================================================
