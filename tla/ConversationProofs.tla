------------------------ MODULE ConversationProofs ------------------------
(***************************************************************************)
(* What a client makes of the messages it has, for every set of messages   *)
(* and every number of them: the fold of rebuild_actions_state yields what *)
(* the messages mean.                                                      *)
(***************************************************************************)
EXTENDS Conversation, FiniteSetTheorems, WellFoundedInduction, TLAPS

(* A set of numbers has a least one: what the inductions rest on.          *)
LEMMA LeastNumber ==
    ASSUME NEW T \in SUBSET Nat, T # {}
    PROVE  \E x \in T : \A y \in T : x <= y
  <1>. DEFINE Less == {ss \in Nat \X Nat : ss[1] < ss[2]}
  <1>1. OpToRel(<, Nat) = Less
    BY Zenon DEF OpToRel
  <1>2. IsWellFoundedOn(Less, Nat)
    BY <1>1, NatLessThanWellFounded, Zenon
  <1>3. PICK x \in T : \A y \in T : <<y, x>> \notin Less
    BY <1>2, WFMin, Zenon
  <1>4. \A m, n \in Nat : m < n => <<m, n>> \in Less
    OBVIOUS
  <1>5. \A y \in T : ~(y < x)
    BY <1>3, <1>4
  <1>. QED
    BY <1>5

(* Induction over a set of numbers.                                        *)
LEMMA EveryNumber ==
    ASSUME NEW P, 0 \in P, \A n \in P : n \in Nat => n + 1 \in P
    PROVE  Nat \subseteq P
  <1>. SUFFICES ASSUME Nat \ P # {}
                PROVE  FALSE
    OBVIOUS
  <1>1. PICK x \in Nat \ P : \A y \in Nat \ P : x <= y
    BY LeastNumber
  <1>2. x # 0
    BY <1>1
  <1>3. /\ x - 1 \in Nat
        /\ x - 1 + 1 = x
        /\ ~(x <= x - 1)
    BY <1>2
  <1>. QED
    BY <1>1, <1>3

(* The messages read last: a set of ids has a greatest one.                *)
LEMMA LastId ==
    ASSUME NEW T \in SUBSET Times, T # {}
    PROVE  \E x \in T : \A y \in T : y <= x
  <1>. DEFINE L == {n \in Nat : \E t \in T : n = MaxTime - t}
  <1>1. \A t \in T : t \in Nat /\ MaxTime - t \in L
    BY MaxTimeAssumption DEF Times
  <1>2. PICK n \in L : \A k \in L : n <= k
    <2>1. L # {} /\ L \in SUBSET Nat
      BY <1>1
    <2>. QED
      BY <2>1, LeastNumber
  <1>3. PICK x \in T : n = MaxTime - x
    OBVIOUS
  <1>. QED
    BY <1>1, <1>2, <1>3, MaxTimeAssumption

---------------------------------------------------------------------------

(* One step of the fold: the effect of the message t on what the messages  *)
(* before it have led to.                                                  *)
After(v, msgs, readable, privileged, t) ==
    IF t \notin Actions(msgs) \cap readable THEN v
    ELSE CASE msgs[t].kind = "edit"     -> Edit(v, msgs, t)
           [] msgs[t].kind = "delete"   -> Delete(v, msgs, msgs[t])
           [] msgs[t].kind = "reaction" -> React(v, msgs, msgs[t])
           [] msgs[t].kind = "remove"   -> RemoveReaction(v, msgs[t])
           [] OTHER -> EditCategory(v, msgs, t, privileged)

(* The fold is one: there is a function of the steps that Rebuilt is the   *)
(* last value of.                                                          *)
LEMMA RebuiltFolds ==
    ASSUME NEW msgs, NEW readable, NEW privileged
    PROVE  \E f : /\ f = [t \in 0..MaxTime |->
                            IF t = 0 THEN Nothing
                            ELSE After(f[t - 1], msgs, readable, privileged, t)]
                  /\ Rebuilt(msgs, readable, privileged) = f[MaxTime]
  <1>. DEFINE Step(v, t) == After(v, msgs, readable, privileged, t)
              Fold(f, n) == f = [t \in 0..n |-> IF t = 0 THEN Nothing ELSE Step(f[t - 1], t)]
              Folded == {n \in Nat : \E f : Fold(f, n)}
              h == CHOOSE f : Fold(f, MaxTime)
  <1>1. Rebuilt(msgs, readable, privileged) = h[MaxTime]
    BY DEF Rebuilt, After
  <1>. HIDE DEF Step
  <1>2. 0 \in Folded
    <2>. DEFINE g == [t \in 0..0 |-> Nothing]
    <2>1. Fold(g, 0)
      OBVIOUS
    <2>. QED
      BY <2>1
  <1>3. ASSUME NEW n \in Folded
        PROVE  n + 1 \in Folded
    <2>1. PICK f : Fold(f, n)
      BY <1>3
    <2>. DEFINE g == [t \in 0..n+1 |-> IF t = 0 THEN Nothing ELSE Step(f[t - 1], t)]
    <2>2. ASSUME NEW t \in 0..n+1, t # 0
          PROVE  g[t - 1] = f[t - 1]
      <3>1. t - 1 \in 0..n /\ t - 1 \in 0..n+1
        BY <2>2, <1>3
      <3>. QED
        BY <3>1, <2>1
    <2>3. Fold(g, n + 1)
      BY <2>2
    <2>4. n + 1 \in Nat
      BY <1>3
    <2>. QED
      BY <2>3, <2>4
  <1>4. MaxTime \in Folded
    BY <1>2, <1>3, EveryNumber, MaxTimeAssumption
  <1>5. Fold(h, MaxTime)
    BY <1>4
  <1>. QED
    BY <1>1, <1>5 DEF Step

---------------------------------------------------------------------------

(* What Last yields is a set of pairs.                                     *)
LEMMA LastPairs ==
    ASSUME NEW x, NEW E, NEW e
    PROVE  e \in Last(x, E) <=> \E t \in E : e = <<x, t>> /\ \A f \in E : f <= t
  BY DEF Last

(* What each of X was last edited to, where E collects the edits.          *)
LatestIn(E, X) == UNION {Last(x, E[x]) : x \in X}

(* What LatestIn holds: of every edited member its latest edit.            *)
LEMMA LatestPairs ==
    ASSUME NEW E, NEW X, NEW e
    PROVE  e \in LatestIn(E, X) <=> \E x \in X : \E t \in E[x] : e = <<x, t>> /\ \A f \in E[x] : f <= t
  <1>1. e \in LatestIn(E, X) <=> \E x \in X : e \in Last(x, E[x])
    BY DEF LatestIn
  <1>. QED
    BY <1>1, LastPairs

(* The messages R and one more.                                            *)
With(R, t) == R \cup {t}

(* An edit later than all others takes their place.                        *)
LEMMA ReplacedLatest ==
    ASSUME NEW X, NEW y \in X, NEW t \in Nat, NEW E, NEW F,
           \A s \in E[y] : s \in Nat /\ s < t,
           F[y] = With(E[y], t), \A x \in X \ {y} : F[x] = E[x]
    PROVE  LatestIn(F, X) = Replaced(LatestIn(E, X), y, t)
  <1>. DEFINE old == LatestIn(E, X)
              new == LatestIn(F, X)
  <1>1. \A e : e \in old <=> \E x \in X : e \in Last(x, E[x])
    BY DEF LatestIn
  <1>2. \A e : e \in new <=> \E x \in X : e \in Last(x, F[x])
    BY DEF LatestIn
  <1>3. \A x, s : <<x, s>>[1] = x
    OBVIOUS
  <1>4. \A x \in X : \A e \in Last(x, E[x]) \cup Last(x, F[x]) : e[1] = x
    BY LastPairs, <1>3
  <1>5. Last(y, F[y]) = {<<y, t>>}
    BY LastPairs DEF With
  <1>6. \A x \in X \ {y} : Last(x, F[x]) = Last(x, E[x])
    OBVIOUS
  <1>. HIDE DEF old, new
  <1>7. ASSUME NEW e
        PROVE  e \in new <=> (e \in old /\ e[1] # y) \/ e = <<y, t>>
    <2>1. CASE e \in new
      <3>1. PICK x \in X : e \in Last(x, F[x])
        BY <1>2, <2>1
      <3>2. CASE x = y
        BY <2>1, <3>1, <3>2, <1>5
      <3>3. CASE x # y
        <4>1. e \in Last(x, E[x])
          BY <3>1, <3>3, <1>6
        <4>. QED
          BY <2>1, <3>3, <4>1, <1>1, <1>4
      <3>. QED
        BY <3>2, <3>3
    <2>2. CASE e \in old /\ e[1] # y
      <3>1. PICK x \in X : e \in Last(x, E[x])
        BY <1>1, <2>2
      <3>. QED
        BY <2>2, <3>1, <1>2, <1>4, <1>6
    <2>3. CASE e = <<y, t>>
      BY <2>3, <1>2, <1>5
    <2>. QED
      BY <2>1, <2>2, <2>3
  <1>. QED
    BY <1>7 DEF Replaced, old, new

(* Without y, what was edited in y is dropped.                             *)
LEMMA DroppedLatest ==
    ASSUME NEW X, NEW y, NEW E
    PROVE  LatestIn(E, X \ {y}) = Dropped(LatestIn(E, X), y)
  <1>. DEFINE old == LatestIn(E, X)
              new == LatestIn(E, X \ {y})
  <1>1. \A e : e \in old <=> \E x \in X : e \in Last(x, E[x])
    BY DEF LatestIn
  <1>2. \A e : e \in new <=> \E x \in X \ {y} : e \in Last(x, E[x])
    BY DEF LatestIn
  <1>3. \A x, s : <<x, s>>[1] = x
    OBVIOUS
  <1>4. \A x \in X : \A e \in Last(x, E[x]) : e[1] = x
    BY LastPairs, <1>3
  <1>. HIDE DEF old, new
  <1>5. new = {e \in old : e[1] # y}
    BY <1>1, <1>2, <1>4
  <1>. QED
    BY <1>5 DEF Dropped, old, new

---------------------------------------------------------------------------

(* The parts of Meaning, each named for what it collects.                  *)
By(msgs, R, kind, x, users) == {t \in About(msgs, kind, x) \cap R : msgs[t].author \in users}

(* Deletions of x, edits and changes of category: each by those who may.   *)
Deletions(msgs, R, x) == By(msgs, R, "delete", x, {msgs[x].author})
Edits(msgs, R) == [x \in Authored(msgs) |-> By(msgs, R, "edit", x, {msgs[x].author})]
Changes(msgs, R, privileged) ==
    [x \in Authored(msgs) |-> By(msgs, R, "editcategory", x, privileged \cup {msgs[x].author})]

(* What they amount to: the deleted, the last edits of the others.         *)
DeletedBy(msgs, R) == {x \in Authored(msgs) : Deletions(msgs, R, x) # {}}
EditedBy(msgs, R) ==
    LatestIn(Edits(msgs, R), Authored(msgs) \ (DeletedBy(msgs, R) \cup Categories(msgs)))
ChangedBy(msgs, R, privileged) ==
    LatestIn(Changes(msgs, R, privileged), Categories(msgs) \ DeletedBy(msgs, R))

(* The reactions, and those among them neither deleted nor taken back.     *)
Reactions(msgs, R) ==
    {t \in Actions(msgs) \cap R : msgs[t].kind = "reaction" /\ msgs[t].target \in Authored(msgs)}
Stands(msgs, R, r) ==
    /\ \A d \in Deletions(msgs, R, msgs[r].target) : r < d
    /\ \A t \in By(msgs, R, "remove", msgs[r].target, {msgs[r].author}) :
            msgs[t].emoji = msgs[r].emoji => t < r
(* What a reaction shows: the message, the emoji and who reacts.           *)
Triple(m) == <<m.target, m.emoji, m.author>>
ReactedBy(msgs, R) == {Triple(msgs[r]) : r \in {s \in Reactions(msgs, R) : Stands(msgs, R, s)}}

(* Meaning is made of these parts.                                         *)
LEMMA MeaningParts ==
    ASSUME NEW msgs, NEW R, NEW privileged
    PROVE  Meaning(msgs, R, privileged) =
              [deleted |-> DeletedBy(msgs, R), edited |-> EditedBy(msgs, R),
               categories |-> ChangedBy(msgs, R, privileged), reactions |-> ReactedBy(msgs, R)]
  <1>. DEFINE m == Meaning(msgs, R, privileged)
  <1>1. DeletedBy(msgs, R) = m.deleted
    BY DEF Meaning, DeletedBy, Deletions, By
  <1>2. EditedBy(msgs, R) = m.edited
    BY DEF Meaning, EditedBy, LatestIn, Edits, DeletedBy, Deletions, By
  <1>3. ChangedBy(msgs, R, privileged) = m.categories
    <2>1. \A x \in Categories(msgs) : x \in Authored(msgs)
      BY DEF Categories, Authored, Actions, IsAction, ActionKinds
    <2>2. m.categories =
            UNION {Last(x, By(msgs, R, "editcategory", x, privileged \cup {msgs[x].author})) :
                    x \in Categories(msgs) \ DeletedBy(msgs, R)}
      BY DEF Meaning, DeletedBy, Deletions, By
    <2>. QED
      BY <2>1, <2>2 DEF ChangedBy, LatestIn, Changes
  <1>4. ReactedBy(msgs, R) = m.reactions
    BY DEF Meaning, ReactedBy, Reactions, Stands, Triple, Deletions, By
  <1>5. m = [deleted |-> m.deleted, edited |-> m.edited,
             categories |-> m.categories, reactions |-> m.reactions]
    BY DEF Meaning
  <1>. QED
    BY <1>1, <1>2, <1>3, <1>4, <1>5

---------------------------------------------------------------------------

(* The message t edits or deletes a message of its author's.               *)
EditsOwn(msgs, t) == t \in Actions(msgs) /\ msgs[t].kind = "edit" /\ ByAuthor(msgs, msgs[t])
DeletesOwn(msgs, t) == t \in Actions(msgs) /\ msgs[t].kind = "delete" /\ ByAuthor(msgs, msgs[t])

(* The message t changes a category, and its author may.                   *)
ChangesCategory(msgs, t, privileged) ==
    /\ t \in Actions(msgs) /\ msgs[t].kind = "editcategory"
    /\ msgs[t].author \in privileged \/ ByAuthor(msgs, msgs[t])

(* What one more message adds to what is collected.                        *)

LEMMA DeletedAdding ==
    ASSUME NEW msgs, NEW R, NEW t
    PROVE  /\ DeletesOwn(msgs, t) => DeletedBy(msgs, With(R, t)) = DeletedBy(msgs, R) \cup {msgs[t].target}
           /\ ~DeletesOwn(msgs, t) => DeletedBy(msgs, With(R, t)) = DeletedBy(msgs, R)
  <1>1. \A x \in Authored(msgs) :
          Deletions(msgs, With(R, t), x) # {} <=>
            \/ Deletions(msgs, R, x) # {}
            \/ t \in About(msgs, "delete", x) /\ msgs[t].author = msgs[x].author
    <2>. TAKE x \in Authored(msgs)
    <2>1. By(msgs, With(R, t), "delete", x, {msgs[x].author}) =
              IF t \in About(msgs, "delete", x) /\ msgs[t].author \in {msgs[x].author}
              THEN By(msgs, R, "delete", x, {msgs[x].author}) \cup {t}
              ELSE By(msgs, R, "delete", x, {msgs[x].author})
      BY DEF By, With
    <2>. QED
      BY <2>1 DEF Deletions
  <1>. QED
    BY <1>1 DEF DeletedBy, DeletesOwn, ByAuthor, About

(* One message more is an edit of its author's message, or edits nothing.  *)
LEMMA EditsAdding ==
    ASSUME NEW msgs, NEW R, NEW t
    PROVE  \A x \in Authored(msgs) :
              /\ EditsOwn(msgs, t) /\ x = msgs[t].target =>
                    Edits(msgs, With(R, t))[x] = With(Edits(msgs, R)[x], t)
              /\ ~(EditsOwn(msgs, t) /\ x = msgs[t].target) =>
                    Edits(msgs, With(R, t))[x] = Edits(msgs, R)[x]
  <1>. TAKE x \in Authored(msgs)
  <1>1. t \in About(msgs, "edit", x) /\ msgs[t].author \in {msgs[x].author} <=>
          EditsOwn(msgs, t) /\ x = msgs[t].target
    BY DEF About, ByAuthor, EditsOwn
  <1>2. \A Q : Edits(msgs, Q)[x] = By(msgs, Q, "edit", x, {msgs[x].author})
    BY DEF Edits
  <1>3. By(msgs, With(R, t), "edit", x, {msgs[x].author}) =
            IF t \in About(msgs, "edit", x) /\ msgs[t].author \in {msgs[x].author}
            THEN By(msgs, R, "edit", x, {msgs[x].author}) \cup {t}
            ELSE By(msgs, R, "edit", x, {msgs[x].author})
    BY DEF By, With
  <1>. QED
    BY <1>1, <1>2, <1>3 DEF With

(* One message more changes a category, or changes none.                   *)
LEMMA ChangesAdding ==
    ASSUME NEW msgs, NEW R, NEW t, NEW privileged
    PROVE  \A x \in Authored(msgs) :
              /\ ChangesCategory(msgs, t, privileged) /\ x = msgs[t].target =>
                    Changes(msgs, With(R, t), privileged)[x] = With(Changes(msgs, R, privileged)[x], t)
              /\ ~(ChangesCategory(msgs, t, privileged) /\ x = msgs[t].target) =>
                    Changes(msgs, With(R, t), privileged)[x] = Changes(msgs, R, privileged)[x]
  <1>. TAKE x \in Authored(msgs)
  <1>. DEFINE Fits == ChangesCategory(msgs, t, privileged) /\ x = msgs[t].target
  <1>1. t \in About(msgs, "editcategory", x) /\ msgs[t].author \in privileged \cup {msgs[x].author} <=>
          Fits
    BY DEF About, ByAuthor, ChangesCategory
  <1>2. \A Q : Changes(msgs, Q, privileged)[x] =
                  By(msgs, Q, "editcategory", x, privileged \cup {msgs[x].author})
    BY DEF Changes
  <1>3. By(msgs, With(R, t), "editcategory", x, privileged \cup {msgs[x].author}) =
            IF t \in About(msgs, "editcategory", x) /\ msgs[t].author \in privileged \cup {msgs[x].author}
            THEN By(msgs, R, "editcategory", x, privileged \cup {msgs[x].author}) \cup {t}
            ELSE By(msgs, R, "editcategory", x, privileged \cup {msgs[x].author})
    BY DEF By, With
  <1>. QED
    BY <1>1, <1>2, <1>3 DEF With

(* Categories are authored messages.                                       *)
LEMMA CategoriesAuthored ==
    ASSUME NEW msgs
    PROVE  Categories(msgs) \subseteq Authored(msgs)
  BY DEF Categories, Authored, Actions, IsAction, ActionKinds

---------------------------------------------------------------------------
(* The message t comes after all of R: each part of the meaning changes as *)
(* the step of the fold changes it.                                        *)

(* All of R comes before t.                                                *)
Earlier(R, t) == t \in Nat /\ \A r \in R : r \in Nat /\ r < t

(* An edit replaces the one shown, a deletion drops it, nothing else does. *)
LEMMA EditedStep ==
    ASSUME NEW msgs, NEW R, NEW t, Earlier(R, t)
    PROVE  /\ EditsOwn(msgs, t) /\ msgs[t].target \notin Categories(msgs) \cup DeletedBy(msgs, R) =>
                EditedBy(msgs, With(R, t)) = Replaced(EditedBy(msgs, R), msgs[t].target, t)
           /\ DeletesOwn(msgs, t) =>
                EditedBy(msgs, With(R, t)) = Dropped(EditedBy(msgs, R), msgs[t].target)
           /\ /\ ~(EditsOwn(msgs, t) /\ msgs[t].target \notin Categories(msgs) \cup DeletedBy(msgs, R))
              /\ ~DeletesOwn(msgs, t)
              => EditedBy(msgs, With(R, t)) = EditedBy(msgs, R)
  <1>0. \A x \in Authored(msgs) :
          /\ EditsOwn(msgs, t) /\ x = msgs[t].target =>
                Edits(msgs, With(R, t))[x] = With(Edits(msgs, R)[x], t)
          /\ ~(EditsOwn(msgs, t) /\ x = msgs[t].target) =>
                Edits(msgs, With(R, t))[x] = Edits(msgs, R)[x]
    BY EditsAdding
  <1>. DEFINE a == msgs[t]
              E == Edits(msgs, R)
              F == Edits(msgs, With(R, t))
              X == Authored(msgs) \ (DeletedBy(msgs, R) \cup Categories(msgs))
              Y == Authored(msgs) \ (DeletedBy(msgs, With(R, t)) \cup Categories(msgs))
              edits == EditsOwn(msgs, t)
              deletes == DeletesOwn(msgs, t)
  <1>1. Y = IF deletes THEN X \ {a.target} ELSE X
    BY DeletedAdding
  <1>2. \A x \in Authored(msgs) :
          /\ edits /\ x = a.target => F[x] = With(E[x], t)
          /\ ~(edits /\ x = a.target) => F[x] = E[x]
    BY <1>0
  <1>3. /\ EditedBy(msgs, R) = LatestIn(E, X)
        /\ EditedBy(msgs, With(R, t)) = LatestIn(F, Y)
    BY DEF EditedBy
  <1>4. \A x \in X : \A s \in E[x] : s \in Nat /\ s < t
    BY DEF Edits, By, Earlier
  <1>5. X \subseteq Authored(msgs) /\ Y \subseteq Authored(msgs)
    OBVIOUS
  <1>6. ~(edits /\ deletes)
    BY DEF EditsOwn, DeletesOwn
  <1>7. edits => a.target \in Authored(msgs)
    BY DEF ByAuthor, EditsOwn
  <1>8. edits /\ a.target \notin Categories(msgs) \cup DeletedBy(msgs, R) <=> edits /\ a.target \in X
    BY <1>7
  <1>. HIDE DEF E, F, X, Y, edits, deletes
  <1>9. CASE edits /\ a.target \in X
    <2>1. F[a.target] = With(E[a.target], t) /\ \A x \in X \ {a.target} : F[x] = E[x]
      BY <1>9, <1>2, <1>5
    <2>2. LatestIn(F, X) = Replaced(LatestIn(E, X), a.target, t)
      <3>1. \A s \in E[a.target] : s \in Nat /\ s < t
        BY <1>4, <1>9
      <3>. QED
        BY <2>1, <3>1, <1>9, ReplacedLatest DEF Earlier
    <2>3. EditedBy(msgs, With(R, t)) = Replaced(EditedBy(msgs, R), a.target, t)
      BY <2>2, <1>1, <1>3, <1>6, <1>9
    <2>. QED
      BY <2>3, <1>8, <1>9, <1>6 DEF edits, deletes
  <1>10. CASE deletes
    <2>1. \A x \in Y : F[x] = E[x]
      BY <1>2, <1>5, <1>6, <1>10
    <2>2. LatestIn(F, Y) = LatestIn(E, Y)
      BY <2>1 DEF LatestIn
    <2>3. EditedBy(msgs, With(R, t)) = Dropped(EditedBy(msgs, R), a.target)
      <3>1. LatestIn(E, X \ {a.target}) =
              Dropped(LatestIn(E, X), a.target)
        BY DroppedLatest
      <3>. QED
        BY <2>2, <3>1, <1>1, <1>3, <1>10
    <2>. QED
      BY <2>3, <1>10, <1>6 DEF edits, deletes
  <1>11. CASE ~(edits /\ a.target \in X) /\ ~deletes
    <2>1. \A x \in X : F[x] = E[x]
      BY <1>2, <1>5, <1>11
    <2>2. LatestIn(F, X) = LatestIn(E, X)
      BY <2>1 DEF LatestIn
    <2>3. EditedBy(msgs, With(R, t)) = EditedBy(msgs, R)
      BY <2>2, <1>1, <1>3, <1>11
    <2>. QED
      BY <2>3, <1>8, <1>11 DEF edits, deletes
  <1>. QED
    BY <1>9, <1>10, <1>11

(* The same of changes of category.                                        *)
LEMMA ChangedStep ==
    ASSUME NEW msgs, NEW R, NEW t, NEW privileged, Earlier(R, t)
    PROVE  /\ ChangesCategory(msgs, t, privileged) /\ msgs[t].target \in Categories(msgs) \ DeletedBy(msgs, R) =>
                ChangedBy(msgs, With(R, t), privileged) =
                    Replaced(ChangedBy(msgs, R, privileged), msgs[t].target, t)
           /\ DeletesOwn(msgs, t) =>
                ChangedBy(msgs, With(R, t), privileged) =
                    Dropped(ChangedBy(msgs, R, privileged), msgs[t].target)
           /\ /\ ~(/\ ChangesCategory(msgs, t, privileged)
                   /\ msgs[t].target \in Categories(msgs) \ DeletedBy(msgs, R))
              /\ ~DeletesOwn(msgs, t)
              => ChangedBy(msgs, With(R, t), privileged) = ChangedBy(msgs, R, privileged)
  <1>0. \A x \in Authored(msgs) :
          /\ ChangesCategory(msgs, t, privileged) /\ x = msgs[t].target =>
                Changes(msgs, With(R, t), privileged)[x] = With(Changes(msgs, R, privileged)[x], t)
          /\ ~(ChangesCategory(msgs, t, privileged) /\ x = msgs[t].target) =>
                Changes(msgs, With(R, t), privileged)[x] = Changes(msgs, R, privileged)[x]
    BY ChangesAdding
  <1>. DEFINE a == msgs[t]
              E == Changes(msgs, R, privileged)
              F == Changes(msgs, With(R, t), privileged)
              X == Categories(msgs) \ DeletedBy(msgs, R)
              Y == Categories(msgs) \ DeletedBy(msgs, With(R, t))
              edits == ChangesCategory(msgs, t, privileged)
              deletes == DeletesOwn(msgs, t)
  <1>1. Y = IF deletes THEN X \ {a.target} ELSE X
    BY DeletedAdding
  <1>2. \A x \in Authored(msgs) :
          /\ edits /\ x = a.target => F[x] = With(E[x], t)
          /\ ~(edits /\ x = a.target) => F[x] = E[x]
    BY <1>0
  <1>3. /\ ChangedBy(msgs, R, privileged) = LatestIn(E, X)
        /\ ChangedBy(msgs, With(R, t), privileged) = LatestIn(F, Y)
    BY DEF ChangedBy
  <1>4. X \subseteq Authored(msgs) /\ Y \subseteq Authored(msgs)
    BY CategoriesAuthored
  <1>5. \A x \in X : \A s \in E[x] : s \in Nat /\ s < t
    BY <1>4 DEF Changes, By, Earlier
  <1>6. ~(edits /\ deletes)
    BY DEF ChangesCategory, DeletesOwn
  <1>7. edits /\ a.target \in Categories(msgs) \ DeletedBy(msgs, R) <=> edits /\ a.target \in X
    OBVIOUS
  <1>. HIDE DEF E, F, X, Y, edits, deletes
  <1>8. CASE edits /\ a.target \in X
    <2>1. F[a.target] = With(E[a.target], t) /\ \A x \in X \ {a.target} : F[x] = E[x]
      BY <1>8, <1>2, <1>4
    <2>2. LatestIn(F, X) = Replaced(LatestIn(E, X), a.target, t)
      <3>1. \A s \in E[a.target] : s \in Nat /\ s < t
        BY <1>5, <1>8
      <3>. QED
        BY <2>1, <3>1, <1>8, ReplacedLatest DEF Earlier
    <2>3. LatestIn(F, Y) = Replaced(LatestIn(E, X), a.target, t)
      BY <2>2, <1>1, <1>6, <1>8
    <2>. QED
      BY <2>3, <1>3, <1>7, <1>8, <1>6 DEF edits, deletes
  <1>9. CASE deletes
    <2>1. \A x \in Y : F[x] = E[x]
      BY <1>2, <1>4, <1>6, <1>9
    <2>2. LatestIn(F, Y) = LatestIn(E, Y)
      BY <2>1 DEF LatestIn
    <2>3. LatestIn(F, Y) = Dropped(LatestIn(E, X), a.target)
      BY <2>2, <1>1, <1>9, DroppedLatest
    <2>. QED
      BY <2>3, <1>3, <1>9, <1>6 DEF edits, deletes
  <1>10. CASE ~(edits /\ a.target \in X) /\ ~deletes
    <2>1. \A x \in X : F[x] = E[x]
      BY <1>2, <1>4, <1>10
    <2>2. LatestIn(F, X) = LatestIn(E, X)
      BY <2>1 DEF LatestIn
    <2>3. LatestIn(F, Y) = LatestIn(E, X)
      BY <2>2, <1>1, <1>10
    <2>. QED
      BY <2>3, <1>3, <1>7, <1>10 DEF edits, deletes
  <1>. QED
    BY <1>8, <1>9, <1>10

(* A reaction stands until it is taken back; a deletion that comes later   *)
(* does not touch it.                                                      *)
LEMMA StandsAdding ==
    ASSUME NEW msgs, NEW R, NEW t, Earlier(R, t),
           NEW r \in Reactions(msgs, R)
    PROVE  Stands(msgs, With(R, t), r) <=>
              /\ Stands(msgs, R, r)
              /\ ~(t \in Actions(msgs) /\ msgs[t].kind = "remove" /\ Triple(msgs[t]) = Triple(msgs[r]))
  <1>1. r \in R /\ r < t /\ r \in Nat
    BY DEF Reactions, Earlier
  <1>2. \A d \in Deletions(msgs, With(R, t), msgs[r].target) :
          d \in Deletions(msgs, R, msgs[r].target) \/ d = t
    BY DEF Deletions, By, With
  <1>3. Deletions(msgs, R, msgs[r].target) \subseteq Deletions(msgs, With(R, t), msgs[r].target)
    BY DEF Deletions, By, With
  <1>4. \A s : s \in By(msgs, With(R, t), "remove", msgs[r].target, {msgs[r].author}) <=>
          \/ s \in By(msgs, R, "remove", msgs[r].target, {msgs[r].author})
          \/ /\ s = t /\ t \in Actions(msgs) /\ msgs[t].kind = "remove"
             /\ msgs[t].target = msgs[r].target /\ msgs[t].author = msgs[r].author
    BY DEF By, About, With
  <1>5. Triple(msgs[t]) = Triple(msgs[r]) <=>
          /\ msgs[t].target = msgs[r].target /\ msgs[t].emoji = msgs[r].emoji
          /\ msgs[t].author = msgs[r].author
    BY DEF Triple
  <1>6. (\A d \in Deletions(msgs, With(R, t), msgs[r].target) : r < d) <=>
          (\A d \in Deletions(msgs, R, msgs[r].target) : r < d)
    BY <1>1, <1>2, <1>3
  <1>. DEFINE Before(s) == msgs[s].emoji = msgs[r].emoji => s < r
              Old == By(msgs, R, "remove", msgs[r].target, {msgs[r].author})
              Now == By(msgs, With(R, t), "remove", msgs[r].target, {msgs[r].author})
              takes == t \in Actions(msgs) /\ msgs[t].kind = "remove" /\ Triple(msgs[t]) = Triple(msgs[r])
  <1>7. (\A s \in Now : Before(s)) <=> (\A s \in Old : Before(s)) /\ ~takes
    <2>1. ~(t < r)
      BY <1>1 DEF Earlier
    <2>2. takes => t \in Now /\ ~Before(t)
      BY <1>4, <1>5, <2>1
    <2>3. \A s \in Now : s \in Old \/ takes \/ Before(s)
      BY <1>4, <1>5
    <2>4. Old \subseteq Now
      BY <1>4
    <2>. HIDE DEF Old, Now, takes, Before
    <2>. QED
      BY <2>2, <2>3, <2>4
  <1>. QED
    BY <1>6, <1>7 DEF Stands

(* A reaction is added, taking it back and a deletion remove it; nothing   *)
(* else does.                                                              *)
LEMMA ReactedStep ==
    ASSUME NEW msgs, NEW R, NEW t, Earlier(R, t)
    PROVE  /\ t \in Actions(msgs) /\ msgs[t].kind = "reaction" /\ msgs[t].target \in Authored(msgs) \ DeletedBy(msgs, R)
              => ReactedBy(msgs, With(R, t)) = ReactedBy(msgs, R) \cup {Triple(msgs[t])}
           /\ t \in Actions(msgs) /\ msgs[t].kind = "remove"
              => ReactedBy(msgs, With(R, t)) = ReactedBy(msgs, R) \ {Triple(msgs[t])}
           /\ /\ ~(/\ t \in Actions(msgs) /\ msgs[t].kind = "reaction"
                   /\ msgs[t].target \in Authored(msgs) \ DeletedBy(msgs, R))
              /\ ~(t \in Actions(msgs) /\ msgs[t].kind = "remove")
              => ReactedBy(msgs, With(R, t)) = ReactedBy(msgs, R)
  <1>. DEFINE S == With(R, t)
  <1>1. \A u : u \in ReactedBy(msgs, S) <=>
                \E r \in Reactions(msgs, S) : Stands(msgs, S, r) /\ u = Triple(msgs[r])
    BY DEF ReactedBy
  <1>2. \A u : u \in ReactedBy(msgs, R) <=>
                \E r \in Reactions(msgs, R) : Stands(msgs, R, r) /\ u = Triple(msgs[r])
    BY DEF ReactedBy
  <1>3. \A r \in Reactions(msgs, R) :
          Stands(msgs, S, r) <=>
            /\ Stands(msgs, R, r)
            /\ ~(t \in Actions(msgs) /\ msgs[t].kind = "remove" /\ Triple(msgs[t]) = Triple(msgs[r]))
    BY StandsAdding
  <1>4. CASE t \in Actions(msgs) /\ msgs[t].kind = "reaction" /\ msgs[t].target \in Authored(msgs)
    <2>1. Reactions(msgs, S) = Reactions(msgs, R) \cup {t}
      BY <1>4 DEF Reactions, With
    <2>2. Stands(msgs, S, t) <=> msgs[t].target \notin DeletedBy(msgs, R)
      <3>1. Deletions(msgs, S, msgs[t].target) = Deletions(msgs, R, msgs[t].target)
        BY <1>4 DEF Deletions, By, About, With
      <3>2. \A s \in By(msgs, S, "remove", msgs[t].target, {msgs[t].author}) : s \in R
        BY <1>4 DEF By, About, With
      <3>3. \A d \in Deletions(msgs, R, msgs[t].target) : ~(t < d)
        BY DEF Deletions, By, Earlier
      <3>. QED
        BY <1>4, <3>1, <3>2, <3>3 DEF Stands, DeletedBy, Earlier
    <2>3. \A r \in Reactions(msgs, R) : Stands(msgs, S, r) <=> Stands(msgs, R, r)
      BY <1>3, <1>4
    <2>. HIDE DEF S
    <2>4. \A u : u \in ReactedBy(msgs, S) <=>
            \/ u \in ReactedBy(msgs, R)
            \/ msgs[t].target \notin DeletedBy(msgs, R) /\ u = Triple(msgs[t])
      BY <1>1, <1>2, <2>1, <2>2, <2>3
    <2>5. ReactedBy(msgs, S) = IF msgs[t].target \notin DeletedBy(msgs, R)
                               THEN ReactedBy(msgs, R) \cup {Triple(msgs[t])} ELSE ReactedBy(msgs, R)
      BY <2>4
    <2>. QED
      BY <2>5, <1>4 DEF S
  <1>5. CASE ~(t \in Actions(msgs) /\ msgs[t].kind = "reaction" /\ msgs[t].target \in Authored(msgs))
    <2>1. Reactions(msgs, S) = Reactions(msgs, R)
      BY <1>5 DEF Reactions, With
    <2>. HIDE DEF S
    <2>2. \A u : u \in ReactedBy(msgs, S) <=>
            /\ u \in ReactedBy(msgs, R)
            /\ ~(t \in Actions(msgs) /\ msgs[t].kind = "remove" /\ u = Triple(msgs[t]))
      BY <1>1, <1>2, <1>3, <2>1
    <2>3. ReactedBy(msgs, S) = IF t \in Actions(msgs) /\ msgs[t].kind = "remove"
                               THEN ReactedBy(msgs, R) \ {Triple(msgs[t])} ELSE ReactedBy(msgs, R)
      BY <2>2
    <2>. QED
      BY <2>3, <1>5 DEF S
  <1>. QED
    BY <1>4, <1>5

(* One step of the fold, on the meaning of the messages before: their      *)
(* meaning with the one more.                                              *)
LEMMA MeaningStep ==
    ASSUME NEW msgs, NEW R, NEW t, NEW privileged, Earlier(R, t)
    PROVE  After(Meaning(msgs, R, privileged), msgs, With(R, t), privileged, t) =
              Meaning(msgs, With(R, t), privileged)
  <1>a. /\ DeletesOwn(msgs, t) => DeletedBy(msgs, With(R, t)) = DeletedBy(msgs, R) \cup {msgs[t].target}
        /\ ~DeletesOwn(msgs, t) => DeletedBy(msgs, With(R, t)) = DeletedBy(msgs, R)
    BY DeletedAdding
  <1>b. /\ EditsOwn(msgs, t) /\ msgs[t].target \notin Categories(msgs) \cup DeletedBy(msgs, R) =>
             EditedBy(msgs, With(R, t)) = Replaced(EditedBy(msgs, R), msgs[t].target, t)
        /\ DeletesOwn(msgs, t) =>
             EditedBy(msgs, With(R, t)) = Dropped(EditedBy(msgs, R), msgs[t].target)
        /\ /\ ~(EditsOwn(msgs, t) /\ msgs[t].target \notin Categories(msgs) \cup DeletedBy(msgs, R))
           /\ ~DeletesOwn(msgs, t)
           => EditedBy(msgs, With(R, t)) = EditedBy(msgs, R)
    BY EditedStep
  <1>c. /\ ChangesCategory(msgs, t, privileged) /\ msgs[t].target \in Categories(msgs) \ DeletedBy(msgs, R) =>
             ChangedBy(msgs, With(R, t), privileged) =
                 Replaced(ChangedBy(msgs, R, privileged), msgs[t].target, t)
        /\ DeletesOwn(msgs, t) =>
             ChangedBy(msgs, With(R, t), privileged) =
                 Dropped(ChangedBy(msgs, R, privileged), msgs[t].target)
        /\ /\ ~(/\ ChangesCategory(msgs, t, privileged)
                /\ msgs[t].target \in Categories(msgs) \ DeletedBy(msgs, R))
           /\ ~DeletesOwn(msgs, t)
           => ChangedBy(msgs, With(R, t), privileged) = ChangedBy(msgs, R, privileged)
    BY ChangedStep
  <1>d. /\ t \in Actions(msgs) /\ msgs[t].kind = "reaction" /\ msgs[t].target \in Authored(msgs) \ DeletedBy(msgs, R)
           => ReactedBy(msgs, With(R, t)) = ReactedBy(msgs, R) \cup {Triple(msgs[t])}
        /\ t \in Actions(msgs) /\ msgs[t].kind = "remove"
           => ReactedBy(msgs, With(R, t)) = ReactedBy(msgs, R) \ {Triple(msgs[t])}
        /\ /\ ~(/\ t \in Actions(msgs) /\ msgs[t].kind = "reaction"
                /\ msgs[t].target \in Authored(msgs) \ DeletedBy(msgs, R))
           /\ ~(t \in Actions(msgs) /\ msgs[t].kind = "remove")
           => ReactedBy(msgs, With(R, t)) = ReactedBy(msgs, R)
    BY ReactedStep
  <1>. DEFINE a == msgs[t]
              m == Meaning(msgs, R, privileged)
              next == Meaning(msgs, With(R, t), privileged)
  <1>1. m = [deleted |-> DeletedBy(msgs, R), edited |-> EditedBy(msgs, R),
             categories |-> ChangedBy(msgs, R, privileged), reactions |-> ReactedBy(msgs, R)]
    BY MeaningParts
  <1>2. next = [deleted |-> DeletedBy(msgs, With(R, t)), edited |-> EditedBy(msgs, With(R, t)),
                categories |-> ChangedBy(msgs, With(R, t), privileged),
                reactions |-> ReactedBy(msgs, With(R, t))]
    BY MeaningParts
  <1>3. /\ m.deleted = DeletedBy(msgs, R) /\ m.edited = EditedBy(msgs, R)
        /\ m.categories = ChangedBy(msgs, R, privileged) /\ m.reactions = ReactedBy(msgs, R)
    BY <1>1
  <1>4. After(m, msgs, With(R, t), privileged, t) =
          IF t \notin Actions(msgs) THEN m
          ELSE CASE a.kind = "edit"     -> Edit(m, msgs, t)
                 [] a.kind = "delete"   -> Delete(m, msgs, a)
                 [] a.kind = "reaction" -> React(m, msgs, a)
                 [] a.kind = "remove"   -> RemoveReaction(m, a)
                 [] OTHER -> EditCategory(m, msgs, t, privileged)
    BY DEF After, With
  <1>5. t \in Actions(msgs) => a.kind \in ActionKinds
    BY DEF Actions, IsAction
  <1>. SUFFICES After(m, msgs, With(R, t), privileged, t) = next
    OBVIOUS
  <1>. HIDE DEF m, next
  <1>6. CASE t \notin Actions(msgs)
    BY <1>1, <1>2, <1>4, <1>6, <1>a, <1>b, <1>c, <1>d DEF ChangesCategory, EditsOwn, DeletesOwn
  <1>7. CASE t \in Actions(msgs) /\ a.kind = "edit"
    <2>1. /\ DeletedBy(msgs, With(R, t)) = DeletedBy(msgs, R)
          /\ ChangedBy(msgs, With(R, t), privileged) = ChangedBy(msgs, R, privileged)
          /\ ReactedBy(msgs, With(R, t)) = ReactedBy(msgs, R)
          /\ EditedBy(msgs, With(R, t)) =
                IF a.target \notin Categories(msgs) \cup DeletedBy(msgs, R) /\ ByAuthor(msgs, a)
                THEN Replaced(EditedBy(msgs, R), a.target, t) ELSE EditedBy(msgs, R)
      BY <1>7, <1>a, <1>b, <1>c, <1>d DEF ChangesCategory, EditsOwn, DeletesOwn
    <2>. QED
      BY <2>1, <1>1, <1>2, <1>3, <1>4, <1>7 DEF Edit
  <1>8. CASE t \in Actions(msgs) /\ a.kind = "delete"
    <2>1. /\ ReactedBy(msgs, With(R, t)) = ReactedBy(msgs, R)
          /\ ByAuthor(msgs, a) =>
                /\ DeletedBy(msgs, With(R, t)) = DeletedBy(msgs, R) \cup {a.target}
                /\ EditedBy(msgs, With(R, t)) = Dropped(EditedBy(msgs, R), a.target)
                /\ ChangedBy(msgs, With(R, t), privileged) = Dropped(ChangedBy(msgs, R, privileged), a.target)
          /\ ~ByAuthor(msgs, a) =>
                /\ DeletedBy(msgs, With(R, t)) = DeletedBy(msgs, R)
                /\ EditedBy(msgs, With(R, t)) = EditedBy(msgs, R)
                /\ ChangedBy(msgs, With(R, t), privileged) = ChangedBy(msgs, R, privileged)
      BY <1>8, <1>a, <1>b, <1>c, <1>d DEF ChangesCategory, EditsOwn, DeletesOwn
    <2>. QED
      BY <2>1, <1>1, <1>2, <1>3, <1>4, <1>8 DEF Delete
  <1>9. CASE t \in Actions(msgs) /\ a.kind = "reaction"
    <2>1. /\ DeletedBy(msgs, With(R, t)) = DeletedBy(msgs, R)
          /\ EditedBy(msgs, With(R, t)) = EditedBy(msgs, R)
          /\ ChangedBy(msgs, With(R, t), privileged) = ChangedBy(msgs, R, privileged)
          /\ ReactedBy(msgs, With(R, t)) =
                IF a.target \in Authored(msgs) \ DeletedBy(msgs, R)
                THEN ReactedBy(msgs, R) \cup {Triple(a)} ELSE ReactedBy(msgs, R)
      BY <1>9, <1>a, <1>b, <1>c, <1>d DEF ChangesCategory, EditsOwn, DeletesOwn
    <2>. QED
      BY <2>1, <1>1, <1>2, <1>3, <1>4, <1>9 DEF React, Triple
  <1>10. CASE t \in Actions(msgs) /\ a.kind = "remove"
    <2>1. /\ DeletedBy(msgs, With(R, t)) = DeletedBy(msgs, R)
          /\ EditedBy(msgs, With(R, t)) = EditedBy(msgs, R)
          /\ ChangedBy(msgs, With(R, t), privileged) = ChangedBy(msgs, R, privileged)
          /\ ReactedBy(msgs, With(R, t)) = ReactedBy(msgs, R) \ {Triple(a)}
      BY <1>10, <1>a, <1>b, <1>c, <1>d DEF ChangesCategory, EditsOwn, DeletesOwn
    <2>. QED
      BY <2>1, <1>1, <1>2, <1>3, <1>4, <1>10 DEF RemoveReaction, Triple
  <1>11. CASE t \in Actions(msgs) /\ a.kind = "editcategory"
    <2>1. /\ DeletedBy(msgs, With(R, t)) = DeletedBy(msgs, R)
          /\ EditedBy(msgs, With(R, t)) = EditedBy(msgs, R)
          /\ ReactedBy(msgs, With(R, t)) = ReactedBy(msgs, R)
          /\ ChangedBy(msgs, With(R, t), privileged) =
                IF /\ a.target \in Categories(msgs) \ DeletedBy(msgs, R)
                   /\ a.author \in privileged \/ ByAuthor(msgs, a)
                THEN Replaced(ChangedBy(msgs, R, privileged), a.target, t)
                ELSE ChangedBy(msgs, R, privileged)
      BY <1>11, <1>a, <1>b, <1>c, <1>d DEF ChangesCategory, EditsOwn, DeletesOwn
    <2>. QED
      BY <2>1, <1>1, <1>2, <1>3, <1>4, <1>11 DEF EditCategory
  <1>. QED
    BY <1>5, <1>6, <1>7, <1>8, <1>9, <1>10, <1>11 DEF ActionKinds

---------------------------------------------------------------------------

(* Before any action the messages mean nothing out of the ordinary.        *)
LEMMA MeaningOfNone ==
    ASSUME NEW msgs, NEW privileged
    PROVE  Meaning(msgs, {}, privileged) = Nothing
  <1>1. \A kind, x, users : By(msgs, {}, kind, x, users) = {}
    BY DEF By
  <1>2. DeletedBy(msgs, {}) = {}
    BY <1>1 DEF DeletedBy, Deletions
  <1>3. EditedBy(msgs, {}) = {}
    <2>1. \A x \in Authored(msgs) : Last(x, Edits(msgs, {})[x]) = {}
      BY <1>1 DEF Edits, Last
    <2>. QED
      BY <2>1 DEF EditedBy, LatestIn
  <1>4. ChangedBy(msgs, {}, privileged) = {}
    <2>1. \A x \in Authored(msgs) : Last(x, Changes(msgs, {}, privileged)[x]) = {}
      BY <1>1 DEF Changes, Last
    <2>. QED
      BY <2>1, CategoriesAuthored DEF ChangedBy, LatestIn
  <1>5. ReactedBy(msgs, {}) = {}
    BY DEF ReactedBy, Reactions
  <1>. QED
    BY <1>2, <1>3, <1>4, <1>5, MeaningParts DEF Nothing

(* Ids of no action are as good as not read.                               *)
LEMMA MeaningOfActions ==
    ASSUME NEW msgs, NEW R, NEW S, NEW privileged,
           Actions(msgs) \cap R = Actions(msgs) \cap S
    PROVE  Meaning(msgs, R, privileged) = Meaning(msgs, S, privileged)
  <1>1. \A kind, x, users : By(msgs, R, kind, x, users) = By(msgs, S, kind, x, users)
    BY DEF By, About
  <1>2. DeletedBy(msgs, R) = DeletedBy(msgs, S)
    BY <1>1 DEF DeletedBy, Deletions
  <1>3. EditedBy(msgs, R) = EditedBy(msgs, S)
    BY <1>1, <1>2 DEF EditedBy, Edits
  <1>4. ChangedBy(msgs, R, privileged) = ChangedBy(msgs, S, privileged)
    BY <1>1, <1>2 DEF ChangedBy, Changes
  <1>5. ReactedBy(msgs, R) = ReactedBy(msgs, S)
    <2>1. Reactions(msgs, R) = Reactions(msgs, S)
      BY DEF Reactions
    <2>2. \A r : Stands(msgs, R, r) <=> Stands(msgs, S, r)
      BY <1>1 DEF Stands, Deletions
    <2>. QED
      BY <2>1, <2>2 DEF ReactedBy
  <1>. QED
    BY <1>2, <1>3, <1>4, <1>5, MeaningParts

(* Whatever the messages are and whichever of them can be read, the fold   *)
(* over them in their order yields what they mean: which of them their     *)
(* authors ever deleted, the last edit of each and the reactions that      *)
(* stand (rebuild_actions_state).                                          *)
THEOREM RebuiltIsMeaning ==
    ASSUME NEW msgs, DOMAIN msgs \subseteq Times, NEW readable, NEW privileged
    PROVE  Rebuilt(msgs, readable, privileged) = Meaning(msgs, readable, privileged)
  <1>. DEFINE Step(v, t) == After(v, msgs, readable, privileged, t)
              Upto(n) == readable \cap (1..n)
              M(n) == Meaning(msgs, Upto(n), privileged)
  <1>1. PICK f : /\ f = [t \in 0..MaxTime |-> IF t = 0 THEN Nothing ELSE Step(f[t - 1], t)]
                 /\ Rebuilt(msgs, readable, privileged) = f[MaxTime]
    BY RebuiltFolds
  <1>. DEFINE Right == {n \in Nat : n <= MaxTime => f[n] = M(n)}
  <1>2. M(0) = Nothing
    <2>1. Upto(0) = {}
      OBVIOUS
    <2>. QED
      BY <2>1, MeaningOfNone
  <1>3. 0 \in Right
    BY <1>1, <1>2, MaxTimeAssumption
  <1>4. ASSUME NEW n \in Nat, n + 1 <= MaxTime
        PROVE  Step(M(n), n + 1) = M(n + 1)
    <2>1. CASE n + 1 \notin Actions(msgs) \cap readable
      <3>1. Actions(msgs) \cap Upto(n) = Actions(msgs) \cap Upto(n + 1)
        BY <2>1, <1>4
      <3>. HIDE DEF Upto
      <3>2. M(n) = M(n + 1)
        BY <3>1, MeaningOfActions
      <3>. QED
        BY <3>2, <2>1 DEF After
    <2>2. CASE n + 1 \in Actions(msgs) \cap readable
      <3>1. Upto(n + 1) = With(Upto(n), n + 1)
        BY <2>2, <1>4 DEF With
      <3>2. Earlier(Upto(n), n + 1)
        BY DEF Earlier
      <3>3. Step(M(n), n + 1) = After(M(n), msgs, Upto(n + 1), privileged, n + 1)
        BY <2>2 DEF After
      <3>. HIDE DEF Upto
      <3>4. After(Meaning(msgs, Upto(n), privileged), msgs, With(Upto(n), n + 1), privileged, n + 1) =
              Meaning(msgs, With(Upto(n), n + 1), privileged)
        BY <3>2, MeaningStep
      <3>. QED
        BY <3>1, <3>3, <3>4
    <2>. QED
      BY <2>1, <2>2
  <1>5. ASSUME NEW n \in Right
        PROVE  n + 1 \in Right
    <2>. HIDE DEF Step, M
    <2>1. CASE n + 1 <= MaxTime
      <3>1. f[n + 1] = Step(f[n], n + 1)
        BY <1>1, <2>1, MaxTimeAssumption
      <3>2. f[n] = M(n)
        BY <2>1, MaxTimeAssumption
      <3>. QED
        BY <3>1, <3>2, <1>4, <2>1
    <2>. QED
      BY <2>1
  <1>6. MaxTime \in Right
    <2>. HIDE DEF Right
    <2>. QED
      BY <1>3, <1>5, EveryNumber, MaxTimeAssumption
  <1>7. f[MaxTime] = M(MaxTime)
    BY <1>6, MaxTimeAssumption
  <1>8. M(MaxTime) = Meaning(msgs, readable, privileged)
    <2>1. Actions(msgs) \cap Upto(MaxTime) = Actions(msgs) \cap readable
      BY DEF Actions, Times
    <2>. HIDE DEF Upto
    <2>. QED
      BY <2>1, MeaningOfActions
  <1>. QED
    BY <1>1, <1>7, <1>8

---------------------------------------------------------------------------
(* The invariants of a conversation.                                       *)

(* What a message is about is there, or was when it was composed.          *)
Placed(msgs, m) ==
    /\ m.author \in {Self, Other} /\ m.kind \in Kinds
    /\ m.target \in DOMAIN msgs \cup {0}
    /\ m.kind = "text" => m.target = 0
    /\ m.kind = "category" => m.target \in Categories(msgs) \cup {0}

(* Messages are about earlier ones, whatever their ids say: they can be    *)
(* ranked.                                                                 *)
Ranks(msgs, rank) ==
    \A t \in DOMAIN msgs :
        /\ rank[t] \in 1..Cardinality(DOMAIN msgs)
        /\ msgs[t].target \in DOMAIN msgs => rank[msgs[t].target] < rank[t]

(* The messages there are.                                                 *)
MessagesSound(msgs) ==
    /\ DOMAIN msgs \subseteq Times
    /\ \A t \in DOMAIN msgs : Placed(msgs, msgs[t])
    /\ \E rank : Ranks(msgs, rank)

(* The messages of a task: those signed and the one yet to be.             *)
Parts(k) == {k.signed[t] : t \in DOMAIN k.signed} \cup {k.rest[i] : i \in DOMAIN k.rest}

(* A task holds messages of the user, the signed ones not yet among msgs;  *)
(* at most a reaction is still to be signed.                               *)
TaskSound(msgs, k) ==
    /\ k = [signed |-> k.signed, rest |-> k.rest, about |-> k.about]
    /\ DOMAIN k.signed \subseteq Times \ DOMAIN msgs
    /\ k.rest = <<>> \/ \E m \in Parts(k) : m.kind = "reaction" /\ k.rest = <<m>>
    /\ \A m \in Parts(k) :
        /\ Placed(msgs, m) /\ m.author = Self
        /\ m.kind \in {"reaction", "remove"} => m.target = k.about

(* Two tasks have signed with different stamps.                            *)
Apart(k, l) == DOMAIN k.signed \cap DOMAIN l.signed = {}

(* The tasks under way.                                                    *)
TasksSound ==
    /\ \A k \in tasks : TaskSound(posted, k)
    /\ \A k, l \in tasks : k # l => Apart(k, l)
    /\ tasks # {} => board # "absent"

(* What the client has, has noted and has told the user of.                *)
HeldSound ==
    /\ held \subseteq DOMAIN posted /\ timed \subseteq held /\ unseen \subseteq held
    /\ board \in {"absent", "present", "synced"} /\ (board = "absent" => held = {})
    /\ \A t \in DOMAIN posted : posted[t].author = Self /\ IsAction(posted[t]) => t \in held

(* What the page, the marks, the title and the notifications hold.         *)
AttentionSound ==
    /\ workload \in Workloads
    /\ {here, visible, focused, due} \subseteq BOOLEAN
    /\ lastRead \in held \cup {0} /\ title \in 0..MaxTime
    /\ permission \in {"default", "granted", "denied"} /\ asking \cup announced \subseteq held

(* The inductive invariant of a conversation.                              *)
Sound == MessagesSound(posted) /\ TasksSound /\ HeldSound /\ AttentionSound

---------------------------------------------------------------------------
(* More messages: msgs and some others.                                    *)
Extends(new, msgs) ==
    /\ DOMAIN msgs \subseteq DOMAIN new
    /\ \A t \in DOMAIN msgs : new[t] = msgs[t]

(* new is msgs with those of more that msgs lacks.                         *)
Gains(new, msgs, more) ==
    /\ DOMAIN new = DOMAIN msgs \cup DOMAIN more
    /\ Extends(new, msgs)
    /\ \A t \in DOMAIN more : t \notin DOMAIN msgs => new[t] = more[t]

(* That is what Added makes.                                               *)
LEMMA AddedMessages ==
    ASSUME NEW f, NEW g
    PROVE  Gains(Added(f, g), f, g)
  BY DEF Added, Extends, Gains

(* new is msgs and the message m stamped t.                                *)
Joins(new, msgs, t, m) ==
    /\ DOMAIN new = DOMAIN msgs \cup {t}
    /\ Extends(new, msgs)
    /\ new[t] = m

(* That is what adding one message makes.                                  *)
LEMMA AddedOne ==
    ASSUME NEW f, NEW t, t \notin DOMAIN f, NEW m
    PROVE  Joins(Added(f, One(t, m)), f, t, m)
  BY DEF Added, Extends, One, Joins

(* A message stays where it was placed when others come.                   *)
LEMMA PlacedStays ==
    ASSUME NEW msgs, NEW new, Extends(new, msgs), NEW m, Placed(msgs, m)
    PROVE  Placed(new, m)
  BY DEF Placed, Extends, Categories

(* New messages are about old ones: the ranks go on.                       *)
LEMMA SoundExtended ==
    ASSUME NEW msgs, MessagesSound(msgs), NEW new, Extends(new, msgs), DOMAIN new \subseteq Times,
           \A t \in DOMAIN new \ DOMAIN msgs : Placed(msgs, new[t])
    PROVE  MessagesSound(new)
  <1>1. \A t \in DOMAIN new : Placed(new, new[t])
    <2>1. \A m : Placed(msgs, m) => Placed(new, m)
      BY PlacedStays
    <2>. QED
      BY <2>1 DEF Extends, MessagesSound
  <1>2. PICK rank : Ranks(msgs, rank)
    BY DEF MessagesSound
  <1>. DEFINE N == Cardinality(DOMAIN msgs)
              M == Cardinality(DOMAIN new)
              next == [t \in DOMAIN new |-> IF t \in DOMAIN msgs THEN rank[t] ELSE N + 1]
  <1>3. IsFiniteSet(DOMAIN new) /\ IsFiniteSet(DOMAIN msgs)
    <2>1. IsFiniteSet(Times)
      BY FS_Interval, MaxTimeAssumption DEF Times
    <2>. QED
      BY <2>1, FS_Subset DEF MessagesSound
  <1>4. N \in Nat /\ M \in Nat /\ N <= M /\ (DOMAIN new # DOMAIN msgs => N + 1 <= M)
    <2>1. N \in Nat /\ M \in Nat
      BY <1>3, FS_CardinalityType
    <2>2. DOMAIN msgs \in SUBSET DOMAIN new
      BY DEF Extends
    <2>3. N <= M /\ (M = N => DOMAIN new = DOMAIN msgs)
      BY <1>3, <2>2, FS_Subset
    <2>. QED
      BY <2>1, <2>3
  <1>5. 0 \notin Times
    BY DEF Times
  <1>. HIDE DEF N, M
  <1>6. \A t \in DOMAIN new : new[t].target \in DOMAIN msgs \cup {0}
    BY DEF Placed, Extends, MessagesSound
  <1>7. \A t \in DOMAIN msgs :
          /\ rank[t] \in 1..N
          /\ msgs[t].target \in DOMAIN msgs => rank[msgs[t].target] < rank[t]
    BY <1>2 DEF Ranks, N
  <1>8. ASSUME NEW t \in DOMAIN new
        PROVE  /\ next[t] \in 1..M
               /\ new[t].target \in DOMAIN new => next[new[t].target] < next[t]
    <2>1. CASE t \in DOMAIN msgs
      <3>1. new[t] = msgs[t] /\ next[t] = rank[t]
        BY <2>1 DEF Extends
      <3>2. new[t].target \in DOMAIN new => new[t].target \in DOMAIN msgs
        BY <1>5, <1>6
      <3>. QED
        BY <2>1, <3>1, <3>2, <1>4, <1>7
    <2>2. CASE t \notin DOMAIN msgs
      <3>1. next[t] = N + 1 /\ N + 1 <= M
        BY <2>2, <1>4
      <3>2. new[t].target \in DOMAIN new => new[t].target \in DOMAIN msgs
        BY <1>5, <1>6
      <3>. QED
        BY <3>1, <3>2, <1>4, <1>7
    <2>. QED
      BY <2>1, <2>2
  <1>9. Ranks(new, next)
    BY <1>8 DEF Ranks, M
  <1>. QED
    BY <1>1, <1>9 DEF MessagesSound

---------------------------------------------------------------------------
(* What is shown is among what is held; what is counted among it is not    *)
(* more than there can be; what is read last is shown.                     *)
LEMMA ShownHeld ==
    ASSUME NEW msgs, NEW ids, NEW v
    PROVE  Shown(msgs, ids, v) \subseteq ids
  BY DEF Shown, Displayed, Authored, Only

(* Sets of stamps are finite, and there are at most MaxTime of them.       *)
LEMMA FiniteIds ==
    ASSUME NEW T, T \subseteq Times
    PROVE  IsFiniteSet(T) /\ Cardinality(T) \in 0..MaxTime
  <1>1. IsFiniteSet(Times) /\ Cardinality(Times) <= MaxTime
    BY FS_Interval, MaxTimeAssumption DEF Times
  <1>2. IsFiniteSet(T) /\ Cardinality(T) <= Cardinality(Times)
    BY <1>1, FS_Subset
  <1>3. Cardinality(T) \in Nat /\ Cardinality(Times) \in Nat
    BY <1>1, <1>2, FS_CardinalityType
  <1>. QED
    BY <1>1, <1>2, <1>3, MaxTimeAssumption

(* The unread are counted up to MaxTime.                                   *)
LEMMA UnreadCounted ==
    ASSUME NEW msgs, NEW ids, ids \subseteq Times, NEW v, NEW mark
    PROVE  Unread(msgs, ids, v, mark) \in 0..MaxTime
  <1>. DEFINE new == {t \in Shown(msgs, ids, v) : mark < t /\ msgs[t].author # Self}
  <1>1. new \subseteq Times
    BY ShownHeld
  <1>2. Cardinality(new) \in 0..MaxTime
    BY <1>1, FiniteIds
  <1>. QED
    BY <1>2, MaxTimeAssumption DEF Unread

(* What the title tells is such a number.                                  *)
LEMMA ToldCounted ==
    ASSUME NEW msgs, NEW ids \in SUBSET Times, NEW v, NEW mark, NEW looking
    PROVE  Told(looking, msgs, ids, v, mark) \in 0..MaxTime
  BY UnreadCounted, MaxTimeAssumption DEF Told

(* The read mark stays or moves to a message that is shown.                *)
LEMMA MarkedShown ==
    ASSUME NEW shown, shown \subseteq Times
    PROVE  \/ Marked(shown) = lastRead
           \/ here /\ Marked(shown) \in shown
  <1>1. CASE here /\ shown # {}
    <2>1. \E x \in shown : \A y \in shown : y <= x
      BY <1>1, LastId
    <2>. QED
      BY <1>1, <2>1 DEF Marked
  <1>. QED
    BY <1>1 DEF Marked

(* A task stays as it is when other messages come.                         *)
LEMMA TaskStays ==
    ASSUME NEW msgs, NEW new, Extends(new, msgs), NEW k, TaskSound(msgs, k),
           DOMAIN k.signed \cap DOMAIN new = {}
    PROVE  TaskSound(new, k)
  <1>1. \A m : Placed(msgs, m) => Placed(new, m)
    BY PlacedStays
  <1>. QED
    BY <1>1 DEF TaskSound

(* A member posts: the message is placed, and ranks above all others.      *)
LEMMA PostSound ==
    ASSUME Sound, NEW u \in {Self, Other}, NEW kind \in Kinds, NEW t \in Times, Post(u, kind, t)
    PROVE  Sound'
  <1>0. PICK x \in Targets(kind, posted) :
          \E e : posted' = Added(posted, One(t, Message(kind, u, x, e)))
    BY DEF Post
  <1>1. PICK e : posted' = Added(posted, One(t, Message(kind, u, x, e)))
    BY <1>0
  <1>. DEFINE m == Message(kind, u, x, e)
  <1>2. /\ t \notin DOMAIN posted
        /\ \A k \in tasks : t \notin DOMAIN k.signed
    BY DEF Post, Free
  <1>3. /\ DOMAIN posted' = DOMAIN posted \cup {t}
        /\ Extends(posted', posted) /\ posted'[t] = m
    <2>1. posted' = Added(posted, One(t, m))
      BY <1>1
    <2>. HIDE DEF m
    <2>2. Joins(Added(posted, One(t, m)), posted, t, m)
      BY <1>2, AddedOne
    <2>. QED
      BY <2>1, <2>2 DEF Joins
  <1>4. Placed(posted, m)
    BY DEF Placed, Message, Targets, Authored, Categories
  <1>5. m.author = Self => ~IsAction(m)
    BY UsersAssumption DEF Post, Message, IsAction
  <1>6. /\ UNCHANGED <<workload, tasks, held, timed, unseen, board>>
        /\ UNCHANGED <<attention, marks, notices>>
    BY DEF Post, content
  <1>. HIDE DEF m
  <1>7. MessagesSound(posted')
    <2>1. DOMAIN posted' \subseteq Times
      BY <1>3 DEF Sound, MessagesSound
    <2>. QED
      BY <2>1, <1>3, <1>4, SoundExtended DEF Sound
  <1>8. TasksSound'
    <2>1. \A k \in tasks : TaskSound(posted', k)
      BY <1>2, <1>3, TaskStays DEF Sound, TasksSound, TaskSound
    <2>. QED
      BY <2>1, <1>6 DEF Sound, TasksSound
  <1>9. HeldSound'
    BY <1>3, <1>5, <1>6 DEF Sound, HeldSound, Extends
  <1>10. AttentionSound'
    BY <1>6 DEF Sound, AttentionSound, attention, marks, notices
  <1>. QED
    BY <1>7, <1>8, <1>9, <1>10 DEF Sound

(* What arrives is among what there is.                                    *)
LEMMA ArrivalSound ==
    ASSUME Sound, NEW ids \in SUBSET DOMAIN posted,
           Load(ids) \/ ReceiveDelta(ids) \/ ReceiveState(ids)
    PROVE  Sound'
  <1>. DEFINE now == held \cup ids
              shown == Shown(posted, now, view')
  <1>1. UNCHANGED <<workload, posted, tasks, permission, here, visible, focused>>
    BY DEF Load, ReceiveDelta, ReceiveState, conversation, attention, notices
  <1>2. held' = now /\ view' = RebuiltView(posted, now) /\ board' \in {board, "synced"}
        /\ (board' = "absent" => board = "absent" /\ ids = {})
    BY DEF Load, ReceiveDelta, ReceiveState
  <1>3. timed' \subseteq now /\ unseen' \subseteq now /\ asking' \cup announced' \subseteq now
    BY DEF Load, ReceiveDelta, ReceiveState, Timed, Seen, New, Notify, Quiet, notices,
           Sound, HeldSound, AttentionSound
  <1>4. /\ lastRead' \in {Marked(shown), lastRead}
        /\ title' = Told(visible, posted, now, view', lastRead')
        /\ due' = TRUE
    BY DEF Load, ReceiveDelta, ReceiveState, Mark
  <1>5. now \subseteq Times /\ now \subseteq DOMAIN posted
    BY DEF Sound, MessagesSound, HeldSound
  <1>6. shown \subseteq now
    BY ShownHeld
  <1>. HIDE DEF shown
  <1>7. lastRead' \in now \cup {0}
    <2>1. Marked(shown) = lastRead \/ Marked(shown) \in shown
      BY <1>5, <1>6, MarkedShown
    <2>. QED
      BY <2>1, <1>4, <1>6 DEF Sound, AttentionSound
  <1>8. title' \in 0..MaxTime
    BY <1>4, <1>5, ToldCounted
  <1>9. MessagesSound(posted')
    BY <1>1 DEF Sound
  <1>10. TasksSound'
    BY <1>1, <1>2 DEF Sound, TasksSound
  <1>11. HeldSound'
    BY <1>1, <1>2, <1>3, <1>5 DEF Sound, HeldSound
  <1>12. AttentionSound'
    BY <1>1, <1>2, <1>3, <1>4, <1>7, <1>8 DEF Sound, AttentionSound
  <1>. QED
    BY <1>9, <1>10, <1>11, <1>12 DEF Sound

---------------------------------------------------------------------------
(* The tasks: begun with one message or with two, of which the second is   *)
(* signed later.                                                           *)
Begun(k, t, m, rest, x) == k = [signed |-> One(t, m), rest |-> rest, about |-> x]

(* The messages of a task that has begun.                                  *)
LEMMA BegunParts ==
    ASSUME NEW k, NEW t, NEW m, NEW x
    PROVE  /\ Begun(k, t, m, <<>>, x) => Parts(k) = {m}
           /\ \A n : Begun(k, t, m, <<n>>, x) => Parts(k) = {m, n}
  BY DEF Begun, Parts, One

(* The user's message m may be part of a task about x.                     *)
Own(m, x) ==
    /\ Placed(posted, m) /\ m.author = Self
    /\ m.kind \in {"reaction", "remove"} => m.target = x

(* A task of such messages is sound.                                       *)
LEMMA BegunSound ==
    ASSUME NEW k, NEW t \in Times \ DOMAIN posted, NEW m, NEW x, Own(m, x)
    PROVE  /\ Begun(k, t, m, <<>>, x) => TaskSound(posted, k)
           /\ \A n : Own(n, x) /\ n.kind = "reaction" /\ Begun(k, t, m, <<n>>, x) => TaskSound(posted, k)
  <1>1. \A r : Begun(k, t, m, r, x) =>
          /\ k = [signed |-> k.signed, rest |-> k.rest, about |-> k.about]
          /\ DOMAIN k.signed \subseteq Times \ DOMAIN posted
          /\ k.rest = r /\ k.about = x
    BY DEF Begun, One
  <1>2. Begun(k, t, m, <<>>, x) => Parts(k) = {m}
    BY BegunParts
  <1>3. \A n : Begun(k, t, m, <<n>>, x) => Parts(k) = {m, n}
    BY BegunParts
  <1>4. ASSUME Begun(k, t, m, <<>>, x)
        PROVE  TaskSound(posted, k)
    BY <1>1, <1>2, <1>4 DEF TaskSound, Own
  <1>5. ASSUME NEW n, Own(n, x), n.kind = "reaction", Begun(k, t, m, <<n>>, x)
        PROVE  TaskSound(posted, k)
    <2>1. Parts(k) = {m, n} /\ k.rest = <<n>> /\ k.about = x
      BY <1>1, <1>3, <1>5
    <2>2. /\ k = [signed |-> k.signed, rest |-> k.rest, about |-> k.about]
          /\ DOMAIN k.signed \subseteq Times \ DOMAIN posted
      BY <1>1, <1>5
    <2>. QED
      BY <2>1, <2>2, <1>5 DEF TaskSound, Own
  <1>. QED
    BY <1>4, <1>5

(* One more task, with a stamp of its own.                                 *)
LEMMA TasksBegun ==
    ASSUME Sound, NEW k, NEW t \in Free, DOMAIN k.signed = {t}, TaskSound(posted, k),
           tasks' = tasks \cup {k}, board # "absent", UNCHANGED <<posted, board>>
    PROVE  TasksSound'
  <1>1. \A l \in tasks : t \notin DOMAIN l.signed
    BY DEF Free
  <1>. QED
    BY <1>1 DEF Sound, TasksSound, Apart

(* The client begins the task k, whose first message is stamped t.         *)
Beginning(k, t) ==
    /\ board # "absent" /\ here
    /\ t \in Free /\ NextStamp(t)
    /\ tasks' = tasks \cup {k}

(* A task of one message begins with it signed.                            *)
LEMMA BeginsOne ==
    ASSUME NEW m, NEW x, Begin(<<m>>, x)
    PROVE  \E k : \E t : Beginning(k, t) /\ Begun(k, t, m, <<>>, x)
  <1>1. Head(<<m>>) = m /\ Tail(<<m>>) = <<>>
    OBVIOUS
  <1>2. PICK t \in Free :
          NextStamp(t) /\ tasks' = tasks \cup {[signed |-> One(t, m), rest |-> <<>>, about |-> x]}
    BY <1>1 DEF Begin
  <1>. QED
    BY <1>2 DEF Begin, Beginning, Begun

(* A task of two begins with the first signed and the second to be.        *)
LEMMA BeginsTwo ==
    ASSUME NEW m, NEW n, NEW x, Begin(<<m, n>>, x)
    PROVE  \E k : \E t : Beginning(k, t) /\ Begun(k, t, m, <<n>>, x)
  <1>1. Head(<<m, n>>) = m /\ Tail(<<m, n>>) = <<n>>
    OBVIOUS
  <1>2. PICK t \in Free :
          NextStamp(t) /\ tasks' = tasks \cup {[signed |-> One(t, m), rest |-> <<n>>, about |-> x]}
    BY <1>1 DEF Begin
  <1>. QED
    BY <1>2 DEF Begin, Beginning, Begun

(* What the click on a reaction begins.                                    *)
Toggling(k, t, x, e) ==
    \/ Existing(x) = {} /\ Begun(k, t, Message("reaction", Self, x, e), <<>>, x)
    \/ e \in Existing(x) /\ Begun(k, t, Message("remove", Self, x, e), <<>>, x)
    \/ \E old \in Existing(x) \ {e} :
          Begun(k, t, Message("remove", Self, x, old), <<Message("reaction", Self, x, e)>>, x)

(* A click on a reaction begins such a task.                               *)
LEMMA TogglingTask ==
    ASSUME NEW x, NEW e, ToggleReaction(x, e)
    PROVE  \E k : \E t : Beginning(k, t) /\ Toggling(k, t, x, e)
  <1>. DEFINE React1(emoji) == Message("reaction", Self, x, emoji)
              Remove(emoji) == Message("remove", Self, x, emoji)
  <1>1. \/ Existing(x) = {} /\ Begin(<<React1(e)>>, x)
        \/ \E old \in Existing(x) :
             Begin(IF old = e THEN <<Remove(e)>> ELSE <<Remove(old), React1(e)>>, x)
    BY DEF ToggleReaction
  <1>. HIDE DEF React1, Remove
  <1>2. CASE Existing(x) = {} /\ Begin(<<React1(e)>>, x)
    <2>1. \E k : \E t : Beginning(k, t) /\ Begun(k, t, React1(e), <<>>, x)
      BY <1>2, BeginsOne
    <2>. QED
      BY <2>1, <1>2 DEF Toggling, React1
  <1>3. CASE e \in Existing(x) /\ Begin(<<Remove(e)>>, x)
    <2>1. \E k : \E t : Beginning(k, t) /\ Begun(k, t, Remove(e), <<>>, x)
      BY <1>3, BeginsOne
    <2>. QED
      BY <2>1, <1>3 DEF Toggling, Remove
  <1>4. ASSUME NEW old \in Existing(x) \ {e}, Begin(<<Remove(old), React1(e)>>, x)
        PROVE  \E k : \E t : Beginning(k, t) /\ Toggling(k, t, x, e)
    <2>1. \E k : \E t : Beginning(k, t) /\ Begun(k, t, Remove(old), <<React1(e)>>, x)
      BY <1>4, BeginsTwo
    <2>. QED
      BY <2>1, <1>4 DEF Toggling, Remove, React1
  <1>. QED
    BY <1>1, <1>2, <1>3, <1>4

(* What else the user begins: a message about x that is no reaction.       *)
LEMMA ChangingTask ==
    ASSUME Sound, NEW x, NEW kind \in Kinds, Change(kind, x) \/ Send(kind, x)
    PROVE  \E k : \E t : \E m :
              /\ Beginning(k, t) /\ Begun(k, t, m, <<>>, x)
              /\ Own(m, x) /\ m.kind \notin {"reaction", "remove"}
  <1>. DEFINE m == Message(kind, Self, x, 0)
  <1>1. Begin(<<m>>, x)
    BY DEF Change, Send
  <1>2. m.kind = kind /\ m.author = Self /\ m.target = x
    BY DEF Message
  <1>3. OnDisplay \subseteq DOMAIN posted
    BY ShownHeld DEF OnDisplay, Sound, HeldSound
  <1>4. \/ kind \in {"delete", "editcategory", "edit"} /\ x \in DOMAIN posted
        \/ kind \in {"text", "category"} /\ x = 0
        \/ kind = "reply" /\ x \in DOMAIN posted
        \/ kind = "category" /\ x \in Categories(posted)
    BY <1>3 DEF Change, Send, CategoryOffers, CardOffers, Categories
  <1>. HIDE DEF m
  <1>5. Own(m, x) /\ m.kind \notin {"reaction", "remove"}
    BY <1>2, <1>4 DEF Own, Placed, Categories
  <1>6. \E k : \E t : Beginning(k, t) /\ Begun(k, t, m, <<>>, x)
    BY <1>1, BeginsOne
  <1>. QED
    BY <1>5, <1>6

(* That task is sound.                                                     *)
LEMMA TogglingSound ==
    ASSUME Sound, NEW k, NEW t \in Free, NEW x \in OnDisplay, NEW e, Toggling(k, t, x, e)
    PROVE  TaskSound(posted, k)
  <1>1. t \in Times \ DOMAIN posted
    BY DEF Free
  <1>2. x \in DOMAIN posted
    BY ShownHeld DEF OnDisplay, Sound, HeldSound
  <1>3. \A f : /\ Own(Message("reaction", Self, x, f), x)
               /\ Own(Message("remove", Self, x, f), x)
               /\ Message("reaction", Self, x, f).kind = "reaction"
    BY <1>2 DEF Own, Placed, Message, Kinds, ActionKinds
  <1>4. \A m : Own(m, x) /\ Begun(k, t, m, <<>>, x) => TaskSound(posted, k)
    BY <1>1, BegunSound
  <1>5. \A m, n : Own(m, x) /\ Own(n, x) /\ n.kind = "reaction" /\ Begun(k, t, m, <<n>>, x)
                    => TaskSound(posted, k)
    BY <1>1, BegunSound
  <1>. QED
    BY <1>3, <1>4, <1>5 DEF Toggling

(* Only the tasks have changed.                                            *)
LEMMA OnlyTasks ==
    ASSUME Sound, TasksSound',
           UNCHANGED <<workload, posted, content, attention, marks, notices, unseen>>
    PROVE  Sound'
  <1>1. MessagesSound(posted') /\ HeldSound' /\ AttentionSound'
    BY DEF Sound, HeldSound, AttentionSound, content, attention, marks, notices
  <1>. QED
    BY <1>1 DEF Sound

(* Sound stays when a sound task begins.                                   *)
LEMMA BeginningSound ==
    ASSUME Sound, NEW k, NEW t, NEW m, NEW rest, NEW x, Beginning(k, t), Begun(k, t, m, rest, x),
           TaskSound(posted, k),
           UNCHANGED <<workload, posted, content, attention, marks, notices, unseen>>
    PROVE  Sound'
  <1>1. DOMAIN k.signed = {t}
    BY DEF Begun, One
  <1>2. TasksSound'
    BY <1>1, TasksBegun DEF Beginning, content
  <1>. QED
    BY <1>2, OnlyTasks

(* Sound stays at every click.                                             *)
LEMMA ClickSound ==
    ASSUME Sound, Click
    PROVE  Sound'
  <1>1. ASSUME NEW x, NEW e, ToggleReaction(x, e)
        PROVE  Sound'
    <2>1. PICK k : \E t : Beginning(k, t) /\ Toggling(k, t, x, e)
      BY <1>1, TogglingTask
    <2>2. PICK t : Beginning(k, t) /\ Toggling(k, t, x, e)
      BY <2>1
    <2>3. TaskSound(posted, k)
      BY <1>1, <2>2, TogglingSound DEF ToggleReaction, Beginning
    <2>4. \E m : \E rest : Begun(k, t, m, rest, x)
      BY <2>2 DEF Toggling
    <2>5. UNCHANGED <<workload, posted, content, attention, marks, notices, unseen>>
      BY <1>1 DEF ToggleReaction
    <2>. QED
      BY <2>2, <2>3, <2>4, <2>5, BeginningSound
  <1>2. ASSUME NEW x, NEW kind \in Kinds, Change(kind, x) \/ Send(kind, x)
        PROVE  Sound'
    <2>1. PICK k : \E t : \E m : Beginning(k, t) /\ Begun(k, t, m, <<>>, x) /\ Own(m, x)
      BY <1>2, ChangingTask
    <2>2. PICK t : \E m : Beginning(k, t) /\ Begun(k, t, m, <<>>, x) /\ Own(m, x)
      BY <2>1
    <2>3. PICK m : Beginning(k, t) /\ Begun(k, t, m, <<>>, x) /\ Own(m, x)
      BY <2>2
    <2>4. TaskSound(posted, k)
      BY <2>3, BegunSound DEF Beginning, Free
    <2>5. UNCHANGED <<workload, posted, content, attention, marks, notices, unseen>>
      BY <1>2 DEF Change, Send
    <2>. QED
      BY <2>3, <2>4, <2>5, BeginningSound
  <1>. QED
    BY <1>1, <1>2 DEF Click

---------------------------------------------------------------------------
(* The second message of a task is signed.                                 *)
LEMMA SignedParts ==
    ASSUME NEW k, k = [signed |-> k.signed, rest |-> k.rest, about |-> k.about],
           NEW m, k.rest = <<m>>, NEW t, t \notin DOMAIN k.signed, NEW l,
           l = [k EXCEPT !.signed = Added(@, One(t, Head(k.rest))), !.rest = Tail(@)]
    PROVE  /\ l = [signed |-> l.signed, rest |-> <<>>, about |-> k.about]
           /\ Joins(l.signed, k.signed, t, m)
           /\ Parts(l) = Parts(k)
  <1>1. Head(<<m>>) = m /\ Tail(<<m>>) = <<>>
    OBVIOUS
  <1>2. l = [signed |-> Added(k.signed, One(t, m)), rest |-> <<>>, about |-> k.about]
    BY <1>1
  <1>3. Joins(Added(k.signed, One(t, m)), k.signed, t, m)
    BY AddedOne
  <1>4. Parts(k) = {k.signed[s] : s \in DOMAIN k.signed} \cup {m}
    BY DEF Parts
  <1>5. Parts(l) = {l.signed[s] : s \in DOMAIN l.signed}
    BY <1>2 DEF Parts
  <1>6. Joins(l.signed, k.signed, t, m) /\ l.rest = <<>> /\ l.about = k.about
    BY <1>2, <1>3
  <1>7. Parts(l) = Parts(k)
    BY <1>4, <1>5, <1>6 DEF Joins, Extends
  <1>. QED
    BY <1>2, <1>6, <1>7

(* Sound stays when a task signs its second message.                       *)
LEMMA SignSound ==
    ASSUME Sound, NEW k \in tasks, NEW t \in Times, Sign(k, t)
    PROVE  Sound'
  <1>. DEFINE l == [k EXCEPT !.signed = Added(@, One(t, Head(k.rest))), !.rest = Tail(@)]
  <1>1. TaskSound(posted, k)
    BY DEF Sound, TasksSound
  <1>2. PICK m \in Parts(k) : m.kind = "reaction" /\ k.rest = <<m>>
    BY <1>1 DEF TaskSound, Sign
  <1>3. t \in Free /\ tasks' = (tasks \ {k}) \cup {l}
    BY DEF Sign, NextStamp
  <1>4. /\ t \in Times \ DOMAIN posted
        /\ \A j \in tasks : t \notin DOMAIN j.signed
    BY <1>3 DEF Free
  <1>5. k = [signed |-> k.signed, rest |-> k.rest, about |-> k.about]
    BY <1>1 DEF TaskSound
  <1>6. /\ l = [signed |-> l.signed, rest |-> <<>>, about |-> k.about]
        /\ Joins(l.signed, k.signed, t, m)
        /\ Parts(l) = Parts(k)
    <2>1. t \notin DOMAIN k.signed
      BY <1>4
    <2>. QED
      BY <1>2, <1>5, <2>1, SignedParts
  <1>. HIDE DEF l
  <1>7. l.rest = <<>> /\ l.about = k.about /\ DOMAIN l.signed = DOMAIN k.signed \cup {t}
    BY <1>6 DEF Joins
  <1>8. TaskSound(posted, l)
    BY <1>1, <1>4, <1>6, <1>7 DEF TaskSound
  <1>9. UNCHANGED <<workload, posted, content, attention, marks, notices, unseen>>
    BY DEF Sign
  <1>10. TasksSound'
    BY <1>3, <1>4, <1>7, <1>8, <1>9 DEF Sound, TasksSound, Apart, content
  <1>. QED
    BY <1>9, <1>10, OnlyTasks

(* The messages of a task are applied.                                     *)
LEMMA ApplySound ==
    ASSUME Sound, NEW k \in tasks, Apply(k)
    PROVE  Sound'
  <1>1. TaskSound(posted, k) /\ \A l \in tasks \ {k} : Apart(k, l)
    BY DEF Sound, TasksSound
  <1>2. UNCHANGED <<workload, overlapped, board, timed, attention, lastRead, title, notices, unseen>>
    BY DEF Apply
  <1>3. tasks' = tasks \ {k}
    BY DEF Apply
  <1>4. board # "absent"
    BY DEF Sound, TasksSound
  <1>5. CASE Refused(k)
    <2>1. UNCHANGED <<posted, held, view, due>>
      BY <1>5 DEF Apply
    <2>2. TasksSound'
      BY <1>2, <1>3, <2>1 DEF Sound, TasksSound
    <2>3. HeldSound' /\ AttentionSound' /\ MessagesSound(posted')
      BY <1>2, <2>1 DEF Sound, HeldSound, AttentionSound, attention, notices
    <2>. QED
      BY <2>2, <2>3 DEF Sound
  <1>6. CASE ~Refused(k)
    <2>1. posted' = Added(posted, k.signed) /\ held' = held \cup DOMAIN k.signed /\ due' = TRUE
      BY <1>6 DEF Apply
    <2>2. /\ DOMAIN posted' = DOMAIN posted \cup DOMAIN k.signed
          /\ Extends(posted', posted)
          /\ \A t \in DOMAIN k.signed : t \notin DOMAIN posted => posted'[t] = k.signed[t]
      <3>1. Gains(posted', posted, k.signed)
        BY <2>1, AddedMessages
      <3>. QED
        BY <3>1 DEF Gains
    <2>3. DOMAIN posted' \subseteq Times
      BY <1>1, <2>2 DEF Sound, MessagesSound, TaskSound
    <2>4. \A t \in DOMAIN k.signed : posted'[t] \in Parts(k)
      BY <1>1, <2>2 DEF TaskSound, Parts
    <2>5. \A t \in DOMAIN posted' \ DOMAIN posted : Placed(posted, posted'[t])
      BY <1>1, <2>2, <2>4 DEF TaskSound
    <2>6. MessagesSound(posted')
      BY <2>2, <2>3, <2>5, SoundExtended DEF Sound
    <2>7. TasksSound'
      <3>1. ASSUME NEW l \in tasks \ {k}
            PROVE  TaskSound(posted', l)
        <4>1. DOMAIN l.signed \cap DOMAIN posted' = {}
          BY <1>1, <2>2 DEF Sound, TasksSound, TaskSound, Apart
        <4>2. TaskSound(posted, l)
          BY DEF Sound, TasksSound
        <4>. QED
          BY <4>1, <4>2, <2>2, TaskStays
      <3>. QED
        BY <3>1, <1>2, <1>3 DEF Sound, TasksSound
    <2>8. HeldSound'
      BY <1>2, <1>4, <2>1, <2>2 DEF Sound, HeldSound, Extends
    <2>9. AttentionSound'
      BY <1>2, <2>1 DEF Sound, AttentionSound, attention, notices
    <2>. QED
      BY <2>6, <2>7, <2>8, <2>9 DEF Sound
  <1>. QED
    BY <1>5, <1>6

(* The user looks elsewhere, and the title follows.                        *)
LEMMA LookSound ==
    ASSUME Sound, Look \/ RunTitleUpdater
    PROVE  Sound'
  <1>1. UNCHANGED <<workload, posted, tasks, board, held, view, timed>>
    BY DEF Look, SwitchTab, SwitchFocus, SwitchBoard, ClickNotification, AnswerPrompt,
           RunTitleUpdater, conversation, content
  <1>2. unseen' \subseteq unseen
    BY DEF Look, SwitchTab, SwitchFocus, SwitchBoard, ClickNotification, AnswerPrompt,
           RunTitleUpdater, Seen
  <1>3. /\ permission' \in {"default", "granted", "denied"}
        /\ asking' \cup announced' \subseteq asking \cup announced
    BY DEF Look, SwitchTab, SwitchFocus, SwitchBoard, ClickNotification, AnswerPrompt,
           RunTitleUpdater, notices, Sound, AttentionSound
  <1>4. {here', visible', focused', due'} \subseteq BOOLEAN
    BY DEF Look, SwitchTab, SwitchFocus, SwitchBoard, ClickNotification, AnswerPrompt,
           RunTitleUpdater, attention, marks, Mark, Sound, AttentionSound
  <1>5. \/ UNCHANGED <<lastRead, title>>
        \/ /\ lastRead' \in {Marked(OnDisplay), lastRead}
           /\ title' = Told(visible', posted, held, view, lastRead')
    BY DEF Look, SwitchTab, SwitchFocus, SwitchBoard, ClickNotification, AnswerPrompt,
           RunTitleUpdater, Mark, marks, attention
  <1>6. OnDisplay \subseteq held /\ held \subseteq Times
    BY ShownHeld DEF OnDisplay, Sound, HeldSound, MessagesSound
  <1>7. lastRead' \in held \cup {0}
    <2>1. Marked(OnDisplay) = lastRead \/ Marked(OnDisplay) \in OnDisplay
      BY <1>6, MarkedShown
    <2>. QED
      BY <2>1, <1>5, <1>6 DEF Sound, AttentionSound
  <1>8. title' \in 0..MaxTime
    BY <1>5, <1>6, ToldCounted DEF Sound, AttentionSound
  <1>9. TasksSound' /\ MessagesSound(posted')
    BY <1>1 DEF Sound, TasksSound
  <1>10. HeldSound'
    BY <1>1, <1>2 DEF Sound, HeldSound
  <1>11. AttentionSound'
    BY <1>1, <1>3, <1>4, <1>7, <1>8 DEF Sound, AttentionSound
  <1>. QED
    BY <1>9, <1>10, <1>11 DEF Sound

(* Sound holds at first.                                                   *)
LEMMA SoundInit == Init => Sound
  <1>. SUFFICES ASSUME Init
                PROVE  Sound
    OBVIOUS
  <1>1. DOMAIN posted = {}
    BY DEF Init
  <1>2. MessagesSound(posted)
    BY <1>1 DEF MessagesSound, Ranks
  <1>3. TasksSound
    BY DEF Init, TasksSound
  <1>4. HeldSound
    BY <1>1 DEF Init, HeldSound
  <1>5. AttentionSound
    <2>1. permission \in {"default", "granted", "denied"}
      BY WorkloadsAssumption DEF Init
    <2>2. title \in 0..MaxTime
      BY MaxTimeAssumption DEF Init
    <2>. QED
      BY <2>1, <2>2 DEF Init, AttentionSound
  <1>. QED
    BY <1>2, <1>3, <1>4, <1>5 DEF Sound

(* Sound is kept by every step, one action at a time.                      *)
LEMMA SoundNext == Sound /\ [Next]_vars => Sound'
  <1>. SUFFICES ASSUME Sound, [Next]_vars
                PROVE  Sound'
    OBVIOUS
  <1>1. ASSUME NEW u \in {Self, Other}, NEW kind \in Kinds, NEW t \in Times, Post(u, kind, t)
        PROVE  Sound'
    BY <1>1, PostSound
  <1>2. ASSUME NEW ids \in Deliveries, Load(ids) \/ ReceiveDelta(ids) \/ ReceiveState(ids)
        PROVE  Sound'
    BY <1>2, ArrivalSound DEF Deliveries
  <1>3. CASE Click
    BY <1>3, ClickSound
  <1>4. ASSUME NEW k \in tasks, Apply(k)
        PROVE  Sound'
    BY <1>4, ApplySound
  <1>5. ASSUME NEW k \in tasks, NEW t \in Times, Sign(k, t)
        PROVE  Sound'
    BY <1>5, SignSound
  <1>6. CASE Look \/ RunTitleUpdater
    BY <1>6, LookSound
  <1>7. CASE UNCHANGED vars
    BY <1>7 DEF vars, conversation, content, attention, marks, notices, Sound, TasksSound,
                HeldSound, AttentionSound
  <1>. QED
    BY <1>1, <1>2, <1>3, <1>4, <1>5, <1>6, <1>7 DEF Next

(* Sound holds always.                                                     *)
LEMMA AlwaysSound == Spec => []Sound
  BY SoundInit, SoundNext, PTL DEF Spec

(* The state of the conversation is of its type: the messages of the tasks *)
(* are apart from each other and from those there are, and what the client *)
(* shows, counts and announces is among what it holds.                     *)
THEOREM ConversationTypes == Spec => []TypeOK
  <1>1. Sound => TypeOK
    BY DEF Sound, MessagesSound, Placed, TasksSound, TaskSound, Apart, HeldSound, AttentionSound, TypeOK
  <1>. QED
    BY <1>1, AlwaysSound, PTL

---------------------------------------------------------------------------
(* What the client may show of the messages ids.                           *)
Right(v, msgs, ids) ==
    IF workload.private
    THEN v \in {Nothing, Meaning(Only(msgs, ids), IF workload.secret THEN ids ELSE {}, Privileged)}
    ELSE v = Meaning(Only(msgs, ids), ids, {})

(* A rebuilt view is what the client may show.                             *)
LEMMA RebuiltRight ==
    ASSUME NEW msgs, NEW ids, ids \subseteq Times
    PROVE  Right(RebuiltView(msgs, ids), msgs, ids)
  <1>1. DOMAIN Only(msgs, ids) \subseteq Times
    BY DEF Only
  <1>2. \A readable, privileged :
          Rebuilt(Only(msgs, ids), readable, privileged) = Meaning(Only(msgs, ids), readable, privileged)
    BY <1>1, RebuiltIsMeaning
  <1>. QED
    BY <1>2 DEF Right, RebuiltView

(* So is the view after a change of the client's own.                      *)
LEMMA LocalRight ==
    ASSUME NEW msgs, NEW ids, ids \subseteq Times
    PROVE  Right(LocalView(msgs, ids), msgs, ids)
  <1>1. DOMAIN Only(msgs, ids) \subseteq Times
    BY DEF Only
  <1>2. \A readable, privileged :
          Rebuilt(Only(msgs, ids), readable, privileged) = Meaning(Only(msgs, ids), readable, privileged)
    BY <1>1, RebuiltIsMeaning
  <1>3. Meaning(Only(msgs, ids), {}, {}) = Nothing
    BY MeaningOfNone
  <1>. QED
    BY <1>2, <1>3 DEF Right, LocalView

(* The messages a client holds stay the same when others come.             *)
LEMMA OnlyStays ==
    ASSUME NEW msgs, NEW new, Extends(new, msgs), NEW ids, ids \subseteq DOMAIN msgs
    PROVE  Only(new, ids) = Only(msgs, ids)
  BY DEF Extends, Only

(* What a step does to what the client holds and shows: messages may come  *)
(* that it does not hold; it may hold more and makes of that what it       *)
(* should; its conversation never shrinks.                                 *)
Follows ==
    /\ workload' = workload
    /\ Extends(posted', posted) /\ held \subseteq held'
    /\ \/ held' = held /\ view' = view
       \/ view' = RebuiltView(posted', held')
       \/ view' = LocalView(posted', held')

(* Every step does no more than that.                                      *)
LEMMA StepFollows == Sound /\ [Next]_vars => Follows
  <1>. SUFFICES ASSUME Sound, [Next]_vars
                PROVE  Follows
    OBVIOUS
  <1>1. posted' = posted => Extends(posted', posted)
    BY DEF Extends
  <1>2. ASSUME NEW u \in {Self, Other}, NEW kind \in Kinds, NEW t \in Times, Post(u, kind, t)
        PROVE  Follows
    <2>1. PICK m : posted' = Added(posted, m)
      BY <1>2 DEF Post
    <2>2. Gains(posted', posted, m)
      BY <2>1, AddedMessages
    <2>. QED
      BY <1>2, <2>2 DEF Post, content, Gains, Follows
  <1>3. ASSUME NEW ids \in Deliveries, Load(ids) \/ ReceiveDelta(ids) \/ ReceiveState(ids)
        PROVE  Follows
    BY <1>1, <1>3 DEF Load, ReceiveDelta, ReceiveState, conversation, Follows
  <1>4. CASE Click
    BY <1>1, <1>4 DEF Click, ToggleReaction, Change, Send, content, Follows
  <1>5. ASSUME NEW k \in tasks, Apply(k)
        PROVE  Follows
    <2>1. CASE Refused(k)
      BY <1>1, <1>5, <2>1 DEF Apply, Follows
    <2>2. CASE ~Refused(k)
      <3>1. /\ posted' = Added(posted, k.signed) /\ held' = held \cup DOMAIN k.signed
            /\ view' = LocalView(posted', held') /\ workload' = workload
        BY <1>5, <2>2 DEF Apply
      <3>2. Gains(posted', posted, k.signed)
        BY <3>1, AddedMessages
      <3>3. Extends(posted', posted)
        BY <3>2 DEF Gains
      <3>. QED
        BY <3>1, <3>3 DEF Follows
    <2>. QED
      BY <2>1, <2>2
  <1>6. ASSUME NEW k \in tasks, NEW t \in Times, Sign(k, t)
        PROVE  Follows
    BY <1>1, <1>6 DEF Sign, content, Follows
  <1>7. CASE Look \/ RunTitleUpdater
    BY <1>1, <1>7 DEF Look, SwitchTab, SwitchFocus, SwitchBoard, ClickNotification, AnswerPrompt,
                RunTitleUpdater, conversation, content, Follows
  <1>8. CASE UNCHANGED vars
    BY <1>1, <1>8 DEF vars, conversation, content, Follows
  <1>. QED
    BY <1>2, <1>3, <1>4, <1>5, <1>6, <1>7, <1>8 DEF Next

(* The view stays right when such a step is taken.                         *)
LEMMA RightNext == Sound /\ Sound' /\ ViewIsMeaning /\ Follows => ViewIsMeaning'
  <1>. SUFFICES ASSUME Sound, Sound', Right(view, posted, held), Follows
                PROVE  Right(view', posted', held')
    BY DEF Right, ViewIsMeaning, Follows
  <1>1. held' \subseteq Times /\ held \subseteq DOMAIN posted
    BY DEF Sound, HeldSound, MessagesSound
  <1>2. workload' = workload /\ Extends(posted', posted)
    BY DEF Follows
  <1>3. CASE held' = held /\ view' = view
    <2>1. Only(posted', held) = Only(posted, held)
      BY <1>1, <1>2, OnlyStays
    <2>. QED
      BY <1>2, <1>3, <2>1 DEF Right
  <1>4. CASE view' = RebuiltView(posted', held')
    <2>1. Right(RebuiltView(posted', held'), posted', held')
      BY <1>1, RebuiltRight
    <2>. QED
      BY <1>2, <1>4, <2>1 DEF Right
  <1>5. CASE view' = LocalView(posted', held')
    <2>1. Right(LocalView(posted', held'), posted', held')
      BY <1>1, LocalRight
    <2>. QED
      BY <1>2, <1>5, <2>1 DEF Right
  <1>. QED
    BY <1>3, <1>4, <1>5 DEF Follows

(* The view is right at first.                                             *)
LEMMA RightInit == Init => ViewIsMeaning
  <1>. SUFFICES ASSUME Init
                PROVE  ViewIsMeaning
    OBVIOUS
  <1>1. held = {} /\ view = Nothing
    BY DEF Init
  <1>2. \A msgs, privileged : Meaning(msgs, {}, privileged) = Nothing
    BY MeaningOfNone
  <1>. QED
    BY <1>1, <1>2 DEF ViewIsMeaning

(* In whatever order messages arrive, late ones before ones already        *)
(* folded, and in whatever order the user's own are applied, the client    *)
(* shows what they mean (rebuild_actions_state and its callers).           *)
THEOREM ShownAsMeant == Spec => []ViewIsMeaning
  <1>1. Sound /\ ViewIsMeaning /\ [Next]_vars => ViewIsMeaning'
    BY SoundNext, StepFollows, RightNext
  <1>. QED
    BY <1>1, RightInit, AlwaysSound, PTL DEF Spec

---------------------------------------------------------------------------
(* More messages, and more of them read.                                   *)
More(new, S, msgs, R) ==
    /\ Extends(new, msgs) /\ DOMAIN new \subseteq Times
    /\ R \subseteq S

(* More messages say more of each kind about each message.                 *)
LEMMA ByGrows ==
    ASSUME NEW new, NEW S, NEW msgs, NEW R, More(new, S, msgs, R)
    PROVE  /\ Authored(msgs) \subseteq Authored(new) /\ Categories(msgs) \subseteq Categories(new)
           /\ \A x \in Authored(msgs) : new[x] = msgs[x] /\ (x \in Categories(new) => x \in Categories(msgs))
           /\ \A kind, x, users : By(msgs, R, kind, x, users) \subseteq By(new, S, kind, x, users)
           /\ \A kind, x, users : By(new, S, kind, x, users) \subseteq Times
  BY DEF More, Extends, Authored, Actions, Categories, By, About, IsAction

(* What has a last edit still has one, and none that is earlier.           *)
LEMMA LastGrows ==
    ASSUME NEW E, NEW F, E \subseteq F, F \subseteq Times, NEW x, NEW e \in Last(x, E)
    PROVE  e[1] = x /\ \E f \in Last(x, F) : f[1] = x /\ e[2] <= f[2]
  <1>1. PICK t \in E : e = <<x, t>> /\ \A s \in E : s <= t
    BY LastPairs
  <1>2. PICK s \in F : \A r \in F : r <= s
    BY LastId
  <1>3. <<x, s>> \in Last(x, F)
    BY <1>2 DEF Last
  <1>4. t <= s
    BY <1>2
  <1>5. <<x, s>>[1] = x /\ <<x, s>>[2] = s /\ e[1] = x /\ e[2] = t
    BY <1>1
  <1>. QED
    BY <1>3, <1>4, <1>5

(* With more messages no deletion is lost, and an edit gives way to a      *)
(* later one or to a deletion only.                                        *)
LEMMA MeaningGrows ==
    ASSUME NEW new, NEW S, NEW msgs, NEW R, More(new, S, msgs, R), NEW privileged
    PROVE  /\ DeletedBy(msgs, R) \subseteq DeletedBy(new, S)
           /\ \A e \in EditedBy(msgs, R) :
                \/ e[1] \in DeletedBy(new, S)
                \/ \E f \in EditedBy(new, S) : f[1] = e[1] /\ e[2] <= f[2]
           /\ \A e \in ChangedBy(msgs, R, privileged) :
                \/ e[1] \in DeletedBy(new, S)
                \/ \E f \in ChangedBy(new, S, privileged) : f[1] = e[1] /\ e[2] <= f[2]
  <1>1. /\ Authored(msgs) \subseteq Authored(new) /\ Categories(msgs) \subseteq Categories(new)
        /\ \A x \in Authored(msgs) : new[x] = msgs[x] /\ (x \in Categories(new) => x \in Categories(msgs))
        /\ \A kind, x, users : By(msgs, R, kind, x, users) \subseteq By(new, S, kind, x, users)
        /\ \A kind, x, users : By(new, S, kind, x, users) \subseteq Times
    BY ByGrows
  <1>2. DeletedBy(msgs, R) \subseteq DeletedBy(new, S)
    BY <1>1 DEF DeletedBy, Deletions
  <1>3. ASSUME NEW e \in EditedBy(msgs, R), e[1] \notin DeletedBy(new, S)
        PROVE  \E f \in EditedBy(new, S) : f[1] = e[1] /\ e[2] <= f[2]
    <2>1. PICK x \in Authored(msgs) \ (DeletedBy(msgs, R) \cup Categories(msgs)) :
            e \in Last(x, Edits(msgs, R)[x])
      BY DEF EditedBy, LatestIn
    <2>2. /\ Edits(msgs, R)[x] = By(msgs, R, "edit", x, {msgs[x].author})
          /\ Edits(new, S)[x] = By(new, S, "edit", x, {msgs[x].author})
      BY <1>1 DEF Edits
    <2>3. Edits(msgs, R)[x] \subseteq Edits(new, S)[x] /\ Edits(new, S)[x] \subseteq Times
      BY <1>1, <2>2
    <2>4. e[1] = x /\ \E f \in Last(x, Edits(new, S)[x]) : f[1] = x /\ e[2] <= f[2]
      BY <2>1, <2>3, LastGrows
    <2>5. x \in Authored(new) \ (DeletedBy(new, S) \cup Categories(new))
      BY <1>1, <1>3, <2>1, <2>4
    <2>. QED
      BY <2>4, <2>5 DEF EditedBy, LatestIn
  <1>4. ASSUME NEW e \in ChangedBy(msgs, R, privileged), e[1] \notin DeletedBy(new, S)
        PROVE  \E f \in ChangedBy(new, S, privileged) : f[1] = e[1] /\ e[2] <= f[2]
    <2>1. PICK x \in Categories(msgs) \ DeletedBy(msgs, R) :
            e \in Last(x, Changes(msgs, R, privileged)[x])
      BY DEF ChangedBy, LatestIn
    <2>2. x \in Authored(msgs)
      BY CategoriesAuthored
    <2>3. /\ Changes(msgs, R, privileged)[x] =
                By(msgs, R, "editcategory", x, privileged \cup {msgs[x].author})
          /\ Changes(new, S, privileged)[x] =
                By(new, S, "editcategory", x, privileged \cup {msgs[x].author})
      BY <1>1, <2>2 DEF Changes
    <2>4. /\ Changes(msgs, R, privileged)[x] \subseteq Changes(new, S, privileged)[x]
          /\ Changes(new, S, privileged)[x] \subseteq Times
      BY <1>1, <2>3
    <2>5. e[1] = x /\ \E f \in Last(x, Changes(new, S, privileged)[x]) : f[1] = x /\ e[2] <= f[2]
      BY <2>1, <2>4, LastGrows
    <2>6. x \in Categories(new) \ DeletedBy(new, S)
      BY <1>1, <1>4, <2>1, <2>5
    <2>. QED
      BY <2>5, <2>6 DEF ChangedBy, LatestIn
  <1>. QED
    BY <1>2, <1>3, <1>4

(* On a public board what was deleted never shows again, and an edit gives *)
(* way only to a later one or to the deletion, however late messages come. *)
THEOREM DeletedStaysDeleted == Spec => NothingComesBack
  <1>. DEFINE Back == ~workload.private =>
        /\ view.deleted \subseteq view'.deleted
        /\ \A e \in view.edited \cup view.categories :
            \/ e[1] \in view'.deleted
            \/ \E f \in view'.edited \cup view'.categories : f[1] = e[1] /\ e[2] <= f[2]
  <1>1. ASSUME Sound, Sound', ViewIsMeaning, ViewIsMeaning', Follows, ~workload.private
        PROVE  Back
    <2>. DEFINE msgs == Only(posted, held)
                new == Only(posted', held')
    <2>1. view = Meaning(msgs, held, {}) /\ view' = Meaning(new, held', {})
      BY <1>1 DEF ViewIsMeaning, Follows
    <2>2. More(new, held', msgs, held)
      BY <1>1 DEF Only, More, Extends, Follows, Sound, HeldSound, MessagesSound
    <2>. HIDE DEF msgs, new
    <2>3. /\ view.deleted = DeletedBy(msgs, held) /\ view.edited = EditedBy(msgs, held)
          /\ view.categories = ChangedBy(msgs, held, {})
      BY <2>1, MeaningParts
    <2>4. /\ view'.deleted = DeletedBy(new, held') /\ view'.edited = EditedBy(new, held')
          /\ view'.categories = ChangedBy(new, held', {})
      BY <2>1, MeaningParts
    <2>5. /\ DeletedBy(msgs, held) \subseteq DeletedBy(new, held')
          /\ \A e \in EditedBy(msgs, held) :
                \/ e[1] \in DeletedBy(new, held')
                \/ \E f \in EditedBy(new, held') : f[1] = e[1] /\ e[2] <= f[2]
          /\ \A e \in ChangedBy(msgs, held, {}) :
                \/ e[1] \in DeletedBy(new, held')
                \/ \E f \in ChangedBy(new, held', {}) : f[1] = e[1] /\ e[2] <= f[2]
      BY <2>2, MeaningGrows
    <2>. QED
      BY <2>3, <2>4, <2>5
  <1>2. Sound /\ Sound' /\ ViewIsMeaning /\ ViewIsMeaning' /\ [Next]_vars => Back
    BY <1>1, StepFollows
  <1>. QED
    BY <1>2, AlwaysSound, ShownAsMeant, PTL DEF Spec, NothingComesBack

---------------------------------------------------------------------------
(* What the user's attention is asked for: a visible page of the board     *)
(* leaves nothing unseen, what is unseen is above the read mark and was    *)
(* announced, and the title is right unless its effect is due.             *)
WaitingAt(msgs, ids) == {t \in ids : msgs[t].author = Other}

Attentive ==
    /\ Looking => unseen = {}
    /\ \A t \in unseen : lastRead < t
    /\ workload.permissions = {"granted"} =>
        permission = "granted" /\ WaitingAt(posted, unseen) \subseteq announced
    /\ ~due => title = Told(visible, posted, held, view, lastRead)

(* What is told of the messages a client holds depends on these only.      *)
LEMMA ToldStays ==
    ASSUME NEW msgs, NEW new, Extends(new, msgs), NEW ids, ids \subseteq DOMAIN msgs, NEW v, NEW mark,
           NEW looking
    PROVE  Told(looking, new, ids, v, mark) = Told(looking, msgs, ids, v, mark)
  <1>1. Only(new, ids) = Only(msgs, ids)
    BY OnlyStays
  <1>2. Shown(new, ids, v) = Shown(msgs, ids, v)
    BY <1>1 DEF Shown
  <1>3. Shown(msgs, ids, v) \subseteq ids
    BY ShownHeld
  <1>4. \A t \in Shown(msgs, ids, v) : new[t] = msgs[t]
    BY <1>3 DEF Extends
  <1>5. {t \in Shown(new, ids, v) : mark < t /\ new[t].author # Self} =
            {t \in Shown(msgs, ids, v) : mark < t /\ msgs[t].author # Self}
    BY <1>2, <1>4
  <1>. QED
    BY <1>2, <1>5 DEF Told, Unread

(* The mark of a board that is not open stays.                             *)
LEMMA MarkedElsewhere ==
    ASSUME NEW shown, ~here
    PROVE  Marked(shown) = lastRead
  BY DEF Marked

(* Attentive stays when messages arrive.                                   *)
LEMMA AttentiveArrival ==
    ASSUME Sound, Attentive, NEW ids \in SUBSET DOMAIN posted,
           Load(ids) \/ ReceiveDelta(ids) \/ ReceiveState(ids)
    PROVE  Attentive'
  <1>1. UNCHANGED <<workload, posted, permission, here, visible, focused>> /\ due' = TRUE
    BY DEF Load, ReceiveDelta, ReceiveState, Mark, conversation, attention, notices
  <1>2. Looking' = Looking
    BY <1>1 DEF Looking
  <1>3. \A shown : ~here => Marked(shown) = lastRead
    BY MarkedElsewhere
  <1>4. \/ Looking /\ unseen' = {}
        \/ ~Looking /\ lastRead' = lastRead /\ unseen' \subseteq unseen \cup New(ids)
        \/ here /\ unseen' = {}
    BY <1>3 DEF Load, ReceiveDelta, ReceiveState, Mark, Seen, Looking
  <1>5. Looking => unseen' = {}
    BY <1>4 DEF Looking
  <1>6. \A t \in unseen' : lastRead' < t
    BY <1>4 DEF Attentive, New
  <1>7. ASSUME workload.permissions = {"granted"}
        PROVE  WaitingAt(posted, unseen') \subseteq announced'
    <2>1. permission = "granted" /\ WaitingAt(posted, unseen) \subseteq announced
      BY <1>7 DEF Attentive
    <2>2. announced \subseteq announced'
      BY DEF Load, ReceiveDelta, ReceiveState, Notify, Quiet, notices
    <2>3. \/ unseen' \subseteq unseen
          \/ ~Looking /\ unseen' \subseteq unseen \cup New(ids) /\ (Notify(ids) \/ Notify(ids \ held))
      BY DEF Load, ReceiveDelta, ReceiveState, Seen
    <2>4. CASE unseen' \subseteq unseen
      BY <2>1, <2>2, <2>4 DEF WaitingAt
    <2>5. ASSUME ~Looking, unseen' \subseteq unseen \cup New(ids),
                 NEW told, told \in {ids, ids \ held}, Notify(told)
          PROVE  WaitingAt(posted, unseen') \subseteq announced'
      <3>1. announced' = announced \cup {t \in told : posted[t].author # Self}
        BY <2>1, <2>5 DEF Notify, Watched, Looking
      <3>2. New(ids) \subseteq told
        BY <2>5 DEF New
      <3>3. WaitingAt(posted, New(ids)) \subseteq announced'
        BY <3>1, <3>2, UsersAssumption DEF WaitingAt
      <3>. QED
        BY <2>1, <2>2, <2>5, <3>3 DEF WaitingAt
    <2>. QED
      BY <2>3, <2>4, <2>5
  <1>. QED
    BY <1>1, <1>2, <1>5, <1>6, <1>7 DEF Attentive

(* Attentive stays when the user looks, answers or clicks.                 *)
LEMMA AttentiveLook ==
    ASSUME Sound, Attentive, Look \/ RunTitleUpdater
    PROVE  Attentive'
  <1>1. UNCHANGED <<workload, posted, held, view>>
    BY DEF Look, SwitchTab, SwitchFocus, SwitchBoard, ClickNotification, AnswerPrompt,
           RunTitleUpdater, conversation, content
  <1>2. \A shown : ~here => Marked(shown) = lastRead
    BY MarkedElsewhere
  <1>3. unseen' \subseteq unseen /\ (Looking' => unseen' = {})
    BY DEF Look, SwitchTab, SwitchFocus, SwitchBoard, ClickNotification, AnswerPrompt,
           RunTitleUpdater, Seen, Looking, attention, Attentive
  <1>4. \A t \in unseen' : lastRead' < t
    <2>1. lastRead' = lastRead \/ unseen' = {}
      BY <1>2, <1>3 DEF Look, SwitchTab, SwitchFocus, SwitchBoard, ClickNotification, AnswerPrompt,
             RunTitleUpdater, Mark, marks, attention, Looking
    <2>. QED
      BY <2>1, <1>3 DEF Attentive
  <1>5. ASSUME workload.permissions = {"granted"}
        PROVE  permission' = "granted" /\ announced \subseteq announced'
    BY <1>5 DEF Look, SwitchTab, SwitchFocus, SwitchBoard, ClickNotification, AnswerPrompt,
           RunTitleUpdater, notices, Attentive
  <1>6. ~due' => title' = Told(visible', posted, held, view, lastRead')
    <2>1. CASE RunTitleUpdater
      BY <2>1 DEF RunTitleUpdater, attention
    <2>2. CASE Look
      BY <2>2 DEF Look, SwitchTab, SwitchFocus, SwitchBoard, ClickNotification, AnswerPrompt,
             Mark, marks, attention, Attentive
    <2>. QED
      BY <2>1, <2>2
  <1>. QED
    BY <1>1, <1>3, <1>4, <1>5, <1>6 DEF Attentive, WaitingAt

(* Attentive stays in every step.                                          *)
LEMMA AttentiveNext == Sound /\ Attentive /\ [Next]_vars => Attentive'
  <1>. SUFFICES ASSUME Sound, Attentive, [Next]_vars
                PROVE  Attentive'
    OBVIOUS
  <1>1. Follows /\ held \subseteq DOMAIN posted /\ unseen \subseteq held
    BY StepFollows DEF Sound, HeldSound
  <1>2. ASSUME UNCHANGED <<workload, held, view, attention, marks, notices, unseen>>
        PROVE  Attentive'
    <2>1. Told(visible, posted', held, view, lastRead) = Told(visible, posted, held, view, lastRead)
      BY <1>1, ToldStays DEF Follows
    <2>2. WaitingAt(posted', unseen) = WaitingAt(posted, unseen)
      BY <1>1 DEF Follows, Extends, WaitingAt
    <2>3. Looking' = Looking
      BY <1>2 DEF Looking, attention
    <2>. QED
      BY <1>2, <2>1, <2>2, <2>3 DEF Attentive, attention, marks, notices
  <1>3. ASSUME NEW k \in tasks, Apply(k)
        PROVE  Attentive'
    <2>1. CASE Refused(k)
      BY <1>2, <1>3, <2>1 DEF Apply, marks
    <2>2. CASE ~Refused(k)
      <3>1. /\ UNCHANGED <<workload, attention, lastRead, title, notices, unseen>>
            /\ due' = TRUE
        BY <1>3, <2>2 DEF Apply
      <3>2. WaitingAt(posted', unseen) = WaitingAt(posted, unseen)
        BY <1>1 DEF Follows, Extends, WaitingAt
      <3>3. Looking' = Looking
        BY <3>1 DEF Looking, attention
      <3>. QED
        BY <3>1, <3>2, <3>3 DEF Attentive, notices
    <2>. QED
      BY <2>1, <2>2
  <1>4. ASSUME NEW u \in {Self, Other}, NEW kind \in Kinds, NEW t \in Times, Post(u, kind, t)
        PROVE  Attentive'
    BY <1>2, <1>4 DEF Post, content
  <1>5. ASSUME NEW ids \in Deliveries, Load(ids) \/ ReceiveDelta(ids) \/ ReceiveState(ids)
        PROVE  Attentive'
    BY <1>5, AttentiveArrival DEF Deliveries
  <1>6. CASE Click
    BY <1>2, <1>6 DEF Click, ToggleReaction, Change, Send, content
  <1>7. ASSUME NEW k \in tasks, NEW t \in Times, Sign(k, t)
        PROVE  Attentive'
    BY <1>2, <1>7 DEF Sign, content
  <1>8. CASE Look \/ RunTitleUpdater
    BY <1>8, AttentiveLook
  <1>9. CASE UNCHANGED vars
    BY <1>2, <1>9 DEF vars, content
  <1>. QED
    BY <1>3, <1>4, <1>5, <1>6, <1>7, <1>8, <1>9 DEF Next

(* Attentive holds at first.                                               *)
LEMMA AttentiveInit == Init => Attentive
  <1>. SUFFICES ASSUME Init
                PROVE  Attentive
    OBVIOUS
  <1>1. Shown(posted, held, view) = {}
    BY ShownHeld DEF Init
  <1>2. Unread(posted, held, view, 0) = 0
    <2>1. Cardinality({}) = 0
      BY FS_EmptySet
    <2>2. {t \in Shown(posted, held, view) : 0 < t /\ posted[t].author # Self} = {}
      BY <1>1
    <2>. QED
      BY <2>1, <2>2 DEF Unread
  <1>3. workload.permissions = {"granted"} => permission = "granted"
    BY DEF Init
  <1>. QED
    BY <1>2, <1>3 DEF Init, Attentive, WaitingAt, Told

(* A message of another user that came above the read mark and has not     *)
(* been on a visible page is not marked as read; while the tab is hidden   *)
(* the title counts it once the effect has run; and the user was notified  *)
(* of it, whichever handler brought it (mark_current_board_as_read,        *)
(* update_document_title, notify_new_messages).                            *)
THEOREM NewsReachesUser == Spec => []NothingSlipsBy
  <1>1. ASSUME Sound, Attentive
        PROVE  NothingSlipsBy
    <2>. DEFINE waiting == {t \in unseen \cap OnDisplay : posted[t].author = Other}
                counted == {t \in Shown(posted, held, view) : lastRead < t /\ posted[t].author # Self}
    <2>1. \A t \in waiting : lastRead < t
      BY <1>1 DEF Attentive
    <2>2. ASSUME ~due, ~visible, lastRead \in OnDisplay \cup {0}
          PROVE  Cardinality(waiting) <= title
      <3>1. title = Cardinality(counted)
        BY <1>1, <2>2 DEF Attentive, Told, Unread, OnDisplay
      <3>2. waiting \subseteq counted
        BY <2>1, UsersAssumption DEF OnDisplay
      <3>3. counted \subseteq Times
        BY <1>1, ShownHeld DEF Sound, HeldSound, MessagesSound
      <3>. HIDE DEF waiting, counted
      <3>4. IsFiniteSet(counted)
        BY <3>3, FiniteIds
      <3>5. Cardinality(waiting) <= Cardinality(counted)
        BY <3>2, <3>4, FS_Subset
      <3>. QED
        BY <3>1, <3>5
    <2>3. workload.permissions = {"granted"} => waiting \subseteq announced
      BY <1>1 DEF Attentive, WaitingAt
    <2>. QED
      BY <2>1, <2>2, <2>3 DEF NothingSlipsBy
  <1>2. Spec => []Attentive
    BY AttentiveInit, AttentiveNext, AlwaysSound, PTL DEF Spec
  <1>. QED
    BY <1>1, <1>2, AlwaysSound, PTL

---------------------------------------------------------------------------
(* The user's own messages of a kind about x, and the reactions to x among *)
(* them that the user has not taken back.                                  *)
Mine(msgs, kind, x) ==
    {t \in DOMAIN msgs : msgs[t].author = Self /\ msgs[t].kind = kind /\ msgs[t].target = x}
Kept(msgs, x) ==
    {msgs[r].emoji : r \in {s \in Mine(msgs, "reaction", x) :
        \A t \in Mine(msgs, "remove", x) : msgs[t].emoji = msgs[s].emoji => t < s}}

(* The task reacts or takes a reaction back.                               *)
Reacting(k) == \E m \in Parts(k) : m.kind \in {"reaction", "remove"}

(* A task takes back what the user had reacted with and adds at most one   *)
(* reaction, another one; what it takes back is stamped before.            *)
TakesBack(msgs, k, e) ==
    \E t \in DOMAIN k.signed :
        /\ k.signed[t].kind = "remove" /\ k.signed[t].emoji = e
        /\ \A r \in Mine(msgs, "reaction", k.about) : r < t

Swaps(msgs, k) ==
    /\ \A m, n \in Parts(k) : m.kind = "reaction" /\ n.kind = "reaction" => m.emoji = n.emoji
    /\ \A e \in Kept(msgs, k.about) : TakesBack(msgs, k, e)

(* The user keeps at most one reaction to x.                               *)
OneKeptAt(x) == \A e, f \in Kept(posted, x) : e = f
(* The task leaves at most one reaction and is the only one about its      *)
(* message.                                                                *)
SwapsAlone(k) ==
    /\ Swaps(posted, k)
    /\ \A l \in tasks : Reacting(l) /\ l.about = k.about => l = k

(* The inductive invariant: on a message no two clicks overlapped on, the  *)
(* user keeps at most one reaction, and the task under way will leave at   *)
(* most one.                                                               *)
OneKept ==
    /\ \A x : x \notin overlapped => OneKeptAt(x)
    /\ \A k \in tasks : Reacting(k) /\ k.about \notin overlapped => SwapsAlone(k)

(* On a public board what the client knows to be the user's reactions to a *)
(* message are those not taken back, if the message is shown.              *)
LEMMA ExistingKept ==
    ASSUME Sound, ViewIsMeaning, ~workload.private, NEW x
    PROVE  /\ Existing(x) \subseteq Kept(posted, x)
           /\ x \in OnDisplay => Existing(x) = Kept(posted, x)
  <1>. DEFINE msgs == Only(posted, held)
              Old(kind) == By(msgs, held, kind, x, {Self})
  <1>1. view = Meaning(msgs, held, {})
    BY DEF ViewIsMeaning
  <1>2. DOMAIN msgs = held /\ \A t \in held : msgs[t] = posted[t]
    BY DEF Only
  <1>3. view.reactions = ReactedBy(msgs, held) /\ view.deleted = DeletedBy(msgs, held)
    <2>. HIDE DEF msgs
    <2>. QED
      BY <1>1, MeaningParts
  <1>4. /\ Mine(posted, "remove", x) = Old("remove")
        /\ \A r : r \in Mine(posted, "reaction", x) <=>
                    r \in Actions(msgs) /\ msgs[r].kind = "reaction" /\ msgs[r].target = x /\ msgs[r].author = Self
    BY <1>2 DEF Sound, HeldSound, Mine, By, About, Actions, IsAction, ActionKinds
  <1>5. \A r \in held : msgs[r] = posted[r]
    BY <1>2
  <1>6. OnDisplay = Authored(msgs) \ view.deleted
    BY DEF OnDisplay, Shown, Displayed
  <1>7. \A r : Triple(msgs[r])[1] = msgs[r].target /\ Triple(msgs[r])[2] = msgs[r].emoji
               /\ Triple(msgs[r])[3] = msgs[r].author
    BY DEF Triple
  <1>8. \A e : e \in Existing(x) <=>
          \E r \in Reactions(msgs, held) :
            /\ Stands(msgs, held, r) /\ msgs[r].target = x /\ msgs[r].author = Self
            /\ e = msgs[r].emoji
    <2>1. \A s : s \in view.reactions <=>
            \E r \in Reactions(msgs, held) : Stands(msgs, held, r) /\ s = Triple(msgs[r])
      BY <1>3 DEF ReactedBy
    <2>2. \A e : e \in Existing(x) <=> \E s \in view.reactions : s[1] = x /\ s[3] = Self /\ e = s[2]
      BY DEF Existing
    <2>. HIDE DEF msgs
    <2>. QED
      BY <2>1, <2>2, <1>7
  <1>9. \A e : e \in Kept(posted, x) <=>
          \E r \in Mine(posted, "reaction", x) :
            /\ \A t \in Mine(posted, "remove", x) : posted[t].emoji = posted[r].emoji => t < r
            /\ e = posted[r].emoji
    BY DEF Kept
  <1>10. \A r \in Actions(msgs) : r \in held
    BY <1>2 DEF Actions
  <1>11. Mine(posted, "remove", x) \subseteq held
    BY <1>4 DEF By
  <1>. HIDE DEF msgs
  <1>12. ASSUME NEW e \in Existing(x)
         PROVE  e \in Kept(posted, x)
    <2>1. PICK r \in Reactions(msgs, held) :
            /\ Stands(msgs, held, r) /\ msgs[r].target = x /\ msgs[r].author = Self
            /\ e = msgs[r].emoji
      BY <1>8
    <2>2. r \in Mine(posted, "reaction", x) /\ r \in held
      BY <1>4, <1>10, <2>1 DEF Reactions
    <2>3. \A t \in Mine(posted, "remove", x) : msgs[t].emoji = msgs[r].emoji => t < r
      BY <1>4, <2>1 DEF Stands
    <2>. QED
      BY <1>5, <1>9, <1>11, <2>1, <2>2, <2>3
  <1>13. ASSUME x \in OnDisplay, NEW e \in Kept(posted, x)
         PROVE  e \in Existing(x)
    <2>1. PICK r \in Mine(posted, "reaction", x) :
            /\ \A t \in Mine(posted, "remove", x) : posted[t].emoji = posted[r].emoji => t < r
            /\ e = posted[r].emoji
      BY <1>9
    <2>2. /\ r \in Reactions(msgs, held) /\ r \in held
          /\ msgs[r].target = x /\ msgs[r].author = Self
      BY <1>4, <1>6, <1>10, <1>13 DEF Reactions
    <2>3. Deletions(msgs, held, x) = {}
      BY <1>3, <1>6, <1>13 DEF DeletedBy
    <2>4. \A t \in Old("remove") : msgs[t].emoji = msgs[r].emoji => t < r
      BY <1>4, <1>5, <1>11, <2>1, <2>2
    <2>5. Stands(msgs, held, r)
      BY <2>2, <2>3, <2>4 DEF Stands
    <2>. QED
      BY <1>5, <1>8, <2>1, <2>2, <2>5
  <1>. QED
    BY <1>12, <1>13

(* Messages that are none of the user's reactions to x.                    *)
LEMMA KeptStays ==
    ASSUME NEW msgs, NEW new, Extends(new, msgs), NEW x,
           \A t \in DOMAIN new \ DOMAIN msgs :
              ~(new[t].author = Self /\ new[t].kind \in {"reaction", "remove"} /\ new[t].target = x)
    PROVE  /\ Mine(new, "reaction", x) = Mine(msgs, "reaction", x)
           /\ Kept(new, x) = Kept(msgs, x)
  <1>1. \A kind \in {"reaction", "remove"} : Mine(new, kind, x) = Mine(msgs, kind, x)
    BY DEF Mine, Extends
  <1>2. \A kind : \A t \in Mine(msgs, kind, x) : new[t] = msgs[t]
    BY DEF Mine, Extends
  <1>. QED
    BY <1>1, <1>2 DEF Kept

(* A task swaps as before while what the user has said of its message      *)
(* stays.                                                                  *)
LEMMA SwapsStays ==
    ASSUME NEW msgs, NEW new, NEW k,
           Mine(new, "reaction", k.about) = Mine(msgs, "reaction", k.about),
           Kept(new, k.about) = Kept(msgs, k.about)
    PROVE  Swaps(new, k) <=> Swaps(msgs, k)
  BY DEF Swaps, TakesBack

(* After a task that swaps one reaction is left.                           *)
LEMMA OneSwapped ==
    ASSUME NEW msgs, DOMAIN msgs \subseteq Times, NEW new, NEW k, TaskSound(msgs, k), k.rest = <<>>,
           Gains(new, msgs, k.signed), Swaps(msgs, k)
    PROVE  \A e, f \in Kept(new, k.about) : e = f
  <1>. DEFINE x == k.about
              Plus(e) == \E m \in Parts(k) : m.kind = "reaction" /\ m.emoji = e
  <1>1. \A t \in DOMAIN k.signed :
          /\ t \in DOMAIN new /\ t \notin DOMAIN msgs /\ new[t] = k.signed[t]
          /\ new[t] \in Parts(k)
          /\ new[t].author = Self
          /\ new[t].kind \in {"reaction", "remove"} => new[t].target = x
    BY DEF Gains, TaskSound, Parts
  <1>2. \A t \in DOMAIN msgs : t \in DOMAIN new /\ new[t] = msgs[t]
    BY DEF Gains, Extends
  <1>3. ASSUME NEW e \in Kept(new, x)
        PROVE  Plus(e)
    <2>1. PICK r \in Mine(new, "reaction", x) :
            /\ \A t \in Mine(new, "remove", x) : new[t].emoji = new[r].emoji => t < r
            /\ e = new[r].emoji
      BY DEF Kept
    <2>2. CASE r \in DOMAIN k.signed
      BY <1>1, <2>1, <2>2 DEF Mine
    <2>3. CASE r \in DOMAIN msgs
      <3>1. r \in Mine(msgs, "reaction", x) /\ e = msgs[r].emoji
        BY <1>2, <2>1, <2>3 DEF Mine
      <3>2. \A t \in Mine(msgs, "remove", x) : t \in Mine(new, "remove", x) /\ new[t] = msgs[t]
        BY <1>2 DEF Mine
      <3>3. \A t \in Mine(msgs, "remove", x) : msgs[t].emoji = msgs[r].emoji => t < r
        BY <1>2, <2>1, <2>3, <3>2
      <3>4. e \in Kept(msgs, x)
        BY <3>1, <3>3 DEF Kept
      <3>5. PICK t \in DOMAIN k.signed :
              /\ k.signed[t].kind = "remove" /\ k.signed[t].emoji = e
              /\ \A s \in Mine(msgs, "reaction", x) : s < t
        BY <3>4 DEF Swaps, TakesBack
      <3>6. t \in Mine(new, "remove", x) /\ new[t].emoji = e
        BY <1>1, <3>5 DEF Mine
      <3>7. t < r /\ r < t
        BY <2>1, <3>1, <3>5, <3>6
      <3>8. t \in Nat /\ r \in Nat
        BY <2>3 DEF TaskSound, Times
      <3>. QED
        BY <3>7, <3>8
    <2>. QED
      BY <2>2, <2>3 DEF Mine, Gains
  <1>4. \A e, f : Plus(e) /\ Plus(f) => e = f
    BY DEF Swaps
  <1>. QED
    BY <1>3, <1>4

(* A click on a reaction to x begins a task that swaps.                    *)
LEMMA TogglingSwaps ==
    ASSUME Sound, NEW k, NEW t, NextStamp(t), NEW x, NEW e, Toggling(k, t, x, e),
           Existing(x) = Kept(posted, x), OneKeptAt(x)
    PROVE  k.about = x /\ Reacting(k) /\ Swaps(posted, k)
  <1>1. \A r \in Mine(posted, "reaction", x) : r < t
    BY DEF NextStamp, Stamped, Mine
  <1>2. ASSUME Existing(x) = {}, Begun(k, t, Message("reaction", Self, x, e), <<>>, x)
        PROVE  k.about = x /\ Reacting(k) /\ Swaps(posted, k)
    <2>1. Parts(k) = {Message("reaction", Self, x, e)}
      BY <1>2, BegunParts
    <2>2. k.about = x /\ Kept(posted, x) = {}
      BY <1>2 DEF Begun
    <2>3. Message("reaction", Self, x, e).kind = "reaction"
      BY DEF Message
    <2>. QED
      BY <2>1, <2>2, <2>3 DEF Swaps, Reacting
  <1>3. ASSUME NEW old \in Existing(x), NEW rest, Begun(k, t, Message("remove", Self, x, old), rest, x)
        PROVE  /\ k.about = x
               /\ \A f \in Kept(posted, x) : TakesBack(posted, k, f)
    <2>1. k.about = x /\ t \in DOMAIN k.signed /\ k.signed[t] = Message("remove", Self, x, old)
      BY <1>3 DEF Begun, One
    <2>2. TakesBack(posted, k, old)
      BY <1>1, <2>1 DEF TakesBack, Message
    <2>. QED
      BY <1>3, <2>1, <2>2 DEF OneKeptAt
  <1>4. ASSUME e \in Existing(x), Begun(k, t, Message("remove", Self, x, e), <<>>, x)
        PROVE  k.about = x /\ Reacting(k) /\ Swaps(posted, k)
    <2>1. Parts(k) = {Message("remove", Self, x, e)}
      BY <1>4, BegunParts
    <2>2. k.about = x /\ \A f \in Kept(posted, x) : TakesBack(posted, k, f)
      BY <1>3, <1>4
    <2>. QED
      BY <2>1, <2>2 DEF Swaps, Reacting, Message
  <1>5. ASSUME NEW old \in Existing(x),
               Begun(k, t, Message("remove", Self, x, old), <<Message("reaction", Self, x, e)>>, x)
        PROVE  k.about = x /\ Reacting(k) /\ Swaps(posted, k)
    <2>1. Parts(k) = {Message("remove", Self, x, old), Message("reaction", Self, x, e)}
      BY <1>5, BegunParts
    <2>2. k.about = x /\ \A f \in Kept(posted, x) : TakesBack(posted, k, f)
      BY <1>3, <1>5
    <2>. QED
      BY <2>1, <2>2 DEF Swaps, Reacting, Message
  <1>. QED
    BY <1>2, <1>4, <1>5 DEF Toggling

(* OneKept stays at a click on a reaction.                                 *)
LEMMA OneKeptToggle ==
    ASSUME Sound, ViewIsMeaning, ~workload.private, OneKept, NEW x, NEW e, ToggleReaction(x, e)
    PROVE  OneKept'
  <1>1. PICK k : \E t : Beginning(k, t) /\ Toggling(k, t, x, e)
    BY TogglingTask
  <1>2. PICK t : Beginning(k, t) /\ Toggling(k, t, x, e)
    BY <1>1
  <1>3. UNCHANGED posted /\ tasks' = tasks \cup {k} /\ NextStamp(t)
    BY <1>2 DEF ToggleReaction, Beginning
  <1>4. overlapped' = IF \E l \in tasks : l.about = x THEN overlapped \cup {x} ELSE overlapped
    BY DEF ToggleReaction
  <1>5. Existing(x) = Kept(posted, x)
    BY ExistingKept DEF ToggleReaction
  <1>6. x \notin overlapped => Reacting(k) /\ Swaps(posted, k)
    BY <1>2, <1>3, <1>5, TogglingSwaps DEF OneKept
  <1>7. k.about = x
    BY <1>2 DEF Toggling, Begun
  <1>8. \A y : OneKeptAt(y)' = OneKeptAt(y)
    BY <1>3 DEF OneKeptAt
  <1>9. ASSUME NEW l \in tasks', Reacting(l), l.about \notin overlapped'
        PROVE  SwapsAlone(l)'
    <2>1. CASE l.about = x
      <3>1. \A j \in tasks : j.about # x
        BY <1>4, <1>9, <2>1
      <3>2. l = k
        BY <1>3, <2>1, <3>1
      <3>3. x \notin overlapped
        BY <1>4, <1>9, <2>1
      <3>. QED
        BY <1>3, <1>6, <2>1, <3>1, <3>2, <3>3 DEF SwapsAlone
    <2>2. CASE l.about # x
      <3>1. l \in tasks /\ l.about \notin overlapped
        BY <1>3, <1>4, <1>7, <1>9, <2>2
      <3>2. SwapsAlone(l)
        BY <1>9, <3>1 DEF OneKept
      <3>. QED
        BY <1>3, <1>7, <2>2, <3>2 DEF SwapsAlone
    <2>. QED
      BY <2>1, <2>2
  <1>10. \A y : y \notin overlapped' => OneKeptAt(y)'
    BY <1>4, <1>8 DEF OneKept
  <1>. QED
    BY <1>9, <1>10 DEF OneKept

(* OneKept stays when the user edits, deletes or sends.                    *)
LEMMA OneKeptChange ==
    ASSUME Sound, OneKept, NEW x, NEW kind \in Kinds, Change(kind, x) \/ Send(kind, x)
    PROVE  OneKept'
  <1>1. PICK k : \E t : \E m : Beginning(k, t) /\ Begun(k, t, m, <<>>, x) /\ m.kind \notin {"reaction", "remove"}
    BY ChangingTask
  <1>2. PICK t : \E m : Beginning(k, t) /\ Begun(k, t, m, <<>>, x) /\ m.kind \notin {"reaction", "remove"}
    BY <1>1
  <1>3. PICK m : Beginning(k, t) /\ Begun(k, t, m, <<>>, x) /\ m.kind \notin {"reaction", "remove"}
    BY <1>2
  <1>4. Parts(k) = {m}
    BY <1>3, BegunParts
  <1>5. ~Reacting(k)
    BY <1>3, <1>4 DEF Reacting
  <1>6. UNCHANGED <<posted, overlapped>> /\ tasks' = tasks \cup {k}
    BY <1>3 DEF Change, Send, Beginning
  <1>. QED
    BY <1>5, <1>6 DEF OneKept, OneKeptAt, SwapsAlone

(* OneKept stays when a task signs its second message.                     *)
LEMMA OneKeptSign ==
    ASSUME Sound, OneKept, NEW k \in tasks, NEW t \in Times, Sign(k, t)
    PROVE  OneKept'
  <1>. DEFINE l == [k EXCEPT !.signed = Added(@, One(t, Head(k.rest))), !.rest = Tail(@)]
  <1>1. TaskSound(posted, k)
    BY DEF Sound, TasksSound
  <1>2. PICK m \in Parts(k) : m.kind = "reaction" /\ k.rest = <<m>>
    BY <1>1 DEF TaskSound, Sign
  <1>3. t \in Free /\ tasks' = (tasks \ {k}) \cup {l} /\ UNCHANGED <<posted, overlapped>>
    BY DEF Sign, NextStamp
  <1>4. t \notin DOMAIN k.signed
    BY <1>3 DEF Free
  <1>5. k = [signed |-> k.signed, rest |-> k.rest, about |-> k.about]
    BY <1>1 DEF TaskSound
  <1>6. /\ l = [signed |-> l.signed, rest |-> <<>>, about |-> k.about]
        /\ Joins(l.signed, k.signed, t, m)
        /\ Parts(l) = Parts(k)
    BY <1>2, <1>4, <1>5, SignedParts
  <1>. HIDE DEF l
  <1>7. l.about = k.about /\ Reacting(l) = Reacting(k)
    BY <1>6 DEF Reacting
  <1>8. Swaps(posted, k) => Swaps(posted, l)
    <2>1. \A e : TakesBack(posted, k, e) => TakesBack(posted, l, e)
      BY <1>6, <1>7 DEF TakesBack, Joins, Extends
    <2>. QED
      BY <1>6, <1>7, <2>1 DEF Swaps
  <1>9. ASSUME NEW j \in tasks', Reacting(j), j.about \notin overlapped
        PROVE  SwapsAlone(j)'
    <2>1. CASE j = l
      <3>1. SwapsAlone(k)
        BY <1>7, <1>9, <2>1 DEF OneKept
      <3>. QED
        BY <1>3, <1>7, <1>8, <2>1, <3>1 DEF SwapsAlone
    <2>2. CASE j # l
      <3>1. j \in tasks \ {k} /\ SwapsAlone(j)
        BY <1>3, <1>9, <2>2 DEF OneKept
      <3>2. ~(Reacting(k) /\ k.about = j.about)
        BY <3>1 DEF SwapsAlone
      <3>. QED
        BY <1>3, <1>7, <3>1, <3>2 DEF SwapsAlone
    <2>. QED
      BY <2>1, <2>2
  <1>. QED
    BY <1>3, <1>9 DEF OneKept, OneKeptAt

(* OneKept stays when a task has its messages applied.                     *)
LEMMA OneKeptApply ==
    ASSUME Sound, OneKept, NEW k \in tasks, Apply(k)
    PROVE  OneKept'
  <1>1. TaskSound(posted, k) /\ DOMAIN posted \subseteq Times
    BY DEF Sound, TasksSound, MessagesSound
  <1>2. k.rest = <<>> /\ tasks' = tasks \ {k} /\ overlapped' = overlapped
    BY DEF Apply
  <1>3. CASE posted' = posted
    BY <1>2, <1>3 DEF OneKept, OneKeptAt, SwapsAlone
  <1>4. CASE posted' = Added(posted, k.signed)
    <2>1. Gains(posted', posted, k.signed)
      BY <1>4, AddedMessages
    <2>2. \A t \in DOMAIN posted' \ DOMAIN posted : posted'[t] \in Parts(k)
      BY <2>1 DEF Gains, Parts
    <2>3. Extends(posted', posted)
      BY <2>1 DEF Gains
    <2>4. ASSUME NEW x, ~(Reacting(k) /\ k.about = x)
          PROVE  /\ Mine(posted', "reaction", x) = Mine(posted, "reaction", x)
                 /\ Kept(posted', x) = Kept(posted, x)
      <3>1. \A t \in DOMAIN posted' \ DOMAIN posted :
              ~(posted'[t].author = Self /\ posted'[t].kind \in {"reaction", "remove"} /\ posted'[t].target = x)
        BY <1>1, <2>2, <2>4 DEF TaskSound, Reacting
      <3>. QED
        BY <2>3, <3>1, KeptStays
    <2>5. ASSUME NEW x, x \notin overlapped
          PROVE  OneKeptAt(x)'
      <3>1. CASE Reacting(k) /\ k.about = x
        <4>1. Swaps(posted, k)
          BY <2>5, <3>1 DEF OneKept, SwapsAlone
        <4>2. \A e, f \in Kept(posted', k.about) : e = f
          BY <1>1, <1>2, <2>1, <4>1, OneSwapped
        <4>. QED
          BY <3>1, <4>2 DEF OneKeptAt
      <3>2. CASE ~(Reacting(k) /\ k.about = x)
        BY <2>4, <2>5, <3>2 DEF OneKept, OneKeptAt
      <3>. QED
        BY <3>1, <3>2
    <2>6. ASSUME NEW l \in tasks', Reacting(l), l.about \notin overlapped
          PROVE  SwapsAlone(l)'
      <3>1. l \in tasks \ {k} /\ SwapsAlone(l)
        BY <1>2, <2>6 DEF OneKept
      <3>2. ~(Reacting(k) /\ k.about = l.about)
        BY <3>1 DEF SwapsAlone
      <3>3. Swaps(posted', l) <=> Swaps(posted, l)
        BY <2>4, <3>2, SwapsStays
      <3>. QED
        BY <1>2, <3>1, <3>3 DEF SwapsAlone
    <2>. QED
      BY <1>2, <2>5, <2>6 DEF OneKept
  <1>. QED
    BY <1>3, <1>4 DEF Apply

(* OneKept stays in every step.                                            *)
LEMMA OneKeptNext ==
    Sound /\ ViewIsMeaning /\ (~workload.private => OneKept) /\ [Next]_vars
        => (~workload.private => OneKept)'
  <1>. SUFFICES ASSUME Sound, ViewIsMeaning, ~workload.private, OneKept, [Next]_vars
                PROVE  OneKept'
    BY StepFollows DEF Follows
  <1>1. ASSUME UNCHANGED <<posted, tasks, overlapped>>
        PROVE  OneKept'
    BY <1>1 DEF OneKept, OneKeptAt, SwapsAlone
  <1>2. ASSUME NEW u \in {Self, Other}, NEW kind \in Kinds, NEW t \in Times, Post(u, kind, t)
        PROVE  OneKept'
    <2>0. PICK x \in Targets(kind, posted) :
            \E e : posted' = Added(posted, One(t, Message(kind, u, x, e)))
      BY <1>2 DEF Post
    <2>1. PICK e : posted' = Added(posted, One(t, Message(kind, u, x, e)))
      BY <2>0
    <2>. DEFINE m == Message(kind, u, x, e)
    <2>2. t \notin DOMAIN posted
      BY <1>2 DEF Post, Free
    <2>3. m.author = Self => m.kind \notin {"reaction", "remove"}
      BY <1>2, UsersAssumption DEF Post, Message, ActionKinds
    <2>4. posted' = Added(posted, One(t, m))
      BY <2>1
    <2>. HIDE DEF m
    <2>5. Joins(Added(posted, One(t, m)), posted, t, m)
      BY <2>2, AddedOne
    <2>6. Extends(posted', posted)
      BY <2>4, <2>5 DEF Joins
    <2>7. \A y : \A s \in DOMAIN posted' \ DOMAIN posted :
            ~(posted'[s].author = Self /\ posted'[s].kind \in {"reaction", "remove"} /\ posted'[s].target = y)
      BY <2>3, <2>4, <2>5 DEF Joins
    <2>8. \A y : /\ Mine(posted', "reaction", y) = Mine(posted, "reaction", y)
                 /\ Kept(posted', y) = Kept(posted, y)
      BY <2>6, <2>7, KeptStays
    <2>9. \A k : Swaps(posted', k) <=> Swaps(posted, k)
      BY <2>8, SwapsStays
    <2>10. UNCHANGED <<tasks, overlapped>>
      BY <1>2 DEF Post
    <2>. QED
      BY <2>8, <2>9, <2>10 DEF OneKept, OneKeptAt, SwapsAlone
  <1>3. ASSUME NEW ids \in Deliveries, Load(ids) \/ ReceiveDelta(ids) \/ ReceiveState(ids)
        PROVE  OneKept'
    BY <1>1, <1>3 DEF Load, ReceiveDelta, ReceiveState, conversation
  <1>4. CASE Click
    BY <1>4, OneKeptToggle, OneKeptChange DEF Click
  <1>5. ASSUME NEW k \in tasks, Apply(k)
        PROVE  OneKept'
    BY <1>5, OneKeptApply
  <1>6. ASSUME NEW k \in tasks, NEW t \in Times, Sign(k, t)
        PROVE  OneKept'
    BY <1>6, OneKeptSign
  <1>7. CASE Look \/ RunTitleUpdater
    BY <1>1, <1>7 DEF Look, SwitchTab, SwitchFocus, SwitchBoard, ClickNotification, AnswerPrompt,
                RunTitleUpdater, conversation
  <1>8. CASE UNCHANGED vars
    BY <1>1, <1>8 DEF vars, conversation
  <1>. QED
    BY <1>2, <1>3, <1>4, <1>5, <1>6, <1>7, <1>8 DEF Next

(* OneKept holds at first.                                                 *)
LEMMA OneKeptInit == Init => OneKept
  BY DEF Init, OneKept, OneKeptAt, Kept, Mine

(* A set without two members has at most one.                              *)
LEMMA AtMostOne ==
    ASSUME NEW S, \A a, b \in S : a = b
    PROVE  Cardinality(S) <= 1
  <1>1. CASE S = {}
    BY <1>1, FS_EmptySet
  <1>2. CASE S # {}
    <2>1. PICK a : S = {a}
      BY <1>2
    <2>. QED
      BY <2>1, FS_Singleton
  <1>. QED
    BY <1>1, <1>2

(* A reaction replaces the user's earlier one to the same message, although *)
(* the two messages this takes are stamped and signed one by one while the  *)
(* user goes on and others' messages come (toggle_reaction).                *)
THEOREM ReactionsReplaced == Spec => []OneReactionEach
  <1>1. Spec => [](~workload.private => OneKept)
    BY OneKeptInit, OneKeptNext, AlwaysSound, ShownAsMeant, PTL DEF Spec
  <1>2. ASSUME Sound, ViewIsMeaning, ~workload.private => OneKept
        PROVE  OneReactionEach
    <2>. SUFFICES ASSUME ~workload.private, NEW x \in held \ overlapped
                  PROVE  Cardinality(Existing(x)) <= 1
      BY DEF OneReactionEach
    <2>1. \A e, f \in Kept(posted, x) : e = f
      BY <1>2 DEF OneKept, OneKeptAt
    <2>2. Existing(x) \subseteq Kept(posted, x)
      BY <1>2, ExistingKept
    <2>. QED
      BY <2>1, <2>2, AtMostOne
  <1>. QED
    BY <1>1, <1>2, AlwaysSound, ShownAsMeant, PTL

---------------------------------------------------------------------------
(* The pages, one click deeper each.                                       *)
Deeper(S) == S \cup UNION {Below(x) : x \in S}

(* Found is the last of the sets that start with the front page.           *)
LEMMA FoundFolds ==
    \E f : /\ f = [n \in 0..MaxTime |-> IF n = 0 THEN TopLevel ELSE Deeper(f[n - 1])]
           /\ Found = f[MaxTime]
  <1>. DEFINE Fold(f, n) == f = [k \in 0..n |-> IF k = 0 THEN TopLevel ELSE Deeper(f[k - 1])]
              Folded == {n \in Nat : \E f : Fold(f, n)}
              h == CHOOSE f : Fold(f, MaxTime)
  <1>1. Found = h[MaxTime]
    BY DEF Found, Deeper
  <1>2. 0 \in Folded
    <2>. DEFINE g == [k \in 0..0 |-> TopLevel]
    <2>1. Fold(g, 0)
      OBVIOUS
    <2>. QED
      BY <2>1
  <1>3. ASSUME NEW n \in Folded
        PROVE  n + 1 \in Folded
    <2>1. PICK f : Fold(f, n)
      BY <1>3
    <2>. DEFINE g == [k \in 0..n+1 |-> IF k = 0 THEN TopLevel ELSE Deeper(f[k - 1])]
    <2>2. ASSUME NEW k \in 0..n+1, k # 0
          PROVE  g[k - 1] = f[k - 1]
      <3>1. k - 1 \in 0..n /\ k - 1 \in 0..n+1
        BY <2>2, <1>3
      <3>. QED
        BY <3>1, <2>1
    <2>3. Fold(g, n + 1)
      BY <2>2
    <2>4. n + 1 \in Nat
      BY <1>3
    <2>. QED
      BY <2>3, <2>4
  <1>4. MaxTime \in Folded
    BY <1>2, <1>3, EveryNumber, MaxTimeAssumption
  <1>5. Fold(h, MaxTime)
    BY <1>4
  <1>. QED
    BY <1>1, <1>5

(* Which messages lead to the front page through messages that are shown:  *)
(* a function, whatever the messages are about.                            *)
Leads(f, x) == x \in OnDisplay /\ (posted[x].target = 0 \/ f[posted[x].target])

(* Rooted messages are those of the largest set that leads to the front    *)
(* page.                                                                   *)
LEMMA RootedIs ==
    ASSUME Sound
    PROVE  \E f : f = [x \in Times |-> Leads(f, x)]
  <1>. DEFINE Closed == {S \in SUBSET OnDisplay : \A x \in S : posted[x].target \in S \cup {0}}
              G == UNION Closed
              f == [x \in Times |-> x \in G]
  <1>1. \A x \in OnDisplay : posted[x].target \in Times \cup {0}
    BY ShownHeld DEF OnDisplay, Sound, HeldSound, MessagesSound, Placed
  <1>2. \A x : x \in G <=> \E S \in Closed : x \in S
    OBVIOUS
  <1>3. ASSUME NEW x \in Times
        PROVE  (x \in G) <=> Leads(f, x)
    <2>1. CASE x \notin OnDisplay
      BY <2>1 DEF Leads
    <2>2. CASE x \in OnDisplay /\ posted[x].target = 0
      <3>1. {x} \in Closed
        BY <2>2
      <3>. QED
        BY <2>2, <3>1 DEF Leads
    <2>3. CASE x \in OnDisplay /\ posted[x].target # 0
      <3>1. Leads(f, x) <=> posted[x].target \in G
        BY <1>1, <2>3 DEF Leads
      <3>2. x \in G => posted[x].target \in G
        BY <2>3
      <3>3. ASSUME NEW S \in Closed, posted[x].target \in S
            PROVE  x \in G
        <4>1. S \cup {x} \in Closed
          BY <2>3, <3>3
        <4>. QED
          BY <4>1
      <3>. QED
        BY <3>1, <3>2, <3>3, <1>2
    <2>. QED
      BY <2>1, <2>2, <2>3
  <1>4. f = [x \in Times |-> Leads(f, x)]
    <2>. HIDE DEF G
    <2>. QED
      BY <1>3 DEF Leads
  <1>. QED
    BY <1>4

(* What is about a message that is found is found one click further.       *)
LEMMA FoundBelow ==
    ASSUME Sound, NEW x \in OnDisplay
    PROVE  \/ x \in TopLevel
           \/ posted[x].target \in OnDisplay => x \in Below(posted[x].target)
  <1>1. x \in DOMAIN posted /\ ~IsAction(posted[x])
    BY ShownHeld DEF OnDisplay, Shown, Displayed, Authored, Actions, Only, IsAction, Sound, HeldSound
  <1>2. Placed(posted, posted[x])
    BY <1>1 DEF Sound, MessagesSound
  <1>3. CASE posted[x].kind = "category"
    <2>1. posted[x].target \in Categories(posted) \cup {0}
      BY <1>2, <1>3 DEF Placed
    <2>2. CASE posted[x].target = 0
      BY <1>3, <2>2 DEF TopLevel
    <2>3. CASE posted[x].target \in Categories(posted)
      BY <1>3, <2>3 DEF Below, InCategory, Categories
    <2>. QED
      BY <2>1, <2>2, <2>3
  <1>4. CASE posted[x].kind # "category" /\ RepliesTo(x) = 0
    BY <1>4 DEF TopLevel
  <1>5. CASE posted[x].kind # "category" /\ RepliesTo(x) # 0
    <2>1. RepliesTo(x) = posted[x].target
      BY <1>5 DEF RepliesTo
    <2>. QED
      BY <1>5, <2>1 DEF Below, InCategory, Answers
  <1>. QED
    BY <1>3, <1>4, <1>5

(* A message that is shown can be found from the front page, if what it is *)
(* about, and so on, is shown: however late the messages in between came   *)
(* and however their ids are ordered (get_content, build_reply_tree).      *)
THEOREM ShownIsFound == Spec => []MessagesFindable
  <1>1. ASSUME Sound
        PROVE  MessagesFindable
    <2>. DEFINE Root == CHOOSE f : f = [x \in Times |-> Leads(f, x)]
    <2>1. Root = [x \in Times |-> Leads(Root, x)]
      BY <1>1, RootedIs
    <2>2. SUFFICES ASSUME NEW x \in OnDisplay, Root[x]
                   PROVE  x \in Found
      BY DEF MessagesFindable, Leads
    <2>. HIDE DEF Root
    <2>3. PICK f : /\ f = [n \in 0..MaxTime |-> IF n = 0 THEN TopLevel ELSE Deeper(f[n - 1])]
                   /\ Found = f[MaxTime]
      BY FoundFolds
    <2>4. PICK rank : Ranks(posted, rank)
      BY <1>1 DEF Sound, MessagesSound
    <2>5. OnDisplay \subseteq DOMAIN posted /\ DOMAIN posted \subseteq Times
      BY <1>1, ShownHeld DEF OnDisplay, Sound, HeldSound, MessagesSound
    <2>6. Cardinality(DOMAIN posted) \in 0..MaxTime
      BY <2>5, FiniteIds
    <2>7. \A y \in DOMAIN posted :
            /\ rank[y] \in 1..MaxTime
            /\ posted[y].target \in DOMAIN posted => rank[posted[y].target] < rank[y]
      BY <2>4, <2>6, MaxTimeAssumption DEF Ranks
    <2>. DEFINE Near(n) == \A y \in OnDisplay : Root[y] /\ rank[y] <= n => y \in f[n]
                Right1 == {n \in Nat : n <= MaxTime => TopLevel \subseteq f[n] /\ Near(n)}
    <2>8. 0 \in Right1
      BY <2>3, <2>5, <2>7, MaxTimeAssumption
    <2>9. ASSUME NEW n \in Right1
          PROVE  n + 1 \in Right1
      <3>. SUFFICES ASSUME n + 1 <= MaxTime
                    PROVE  TopLevel \subseteq f[n + 1] /\ Near(n + 1)
        OBVIOUS
      <3>1. n \in Nat /\ TopLevel \subseteq f[n] /\ Near(n)
        BY MaxTimeAssumption
      <3>2. f[n + 1] = Deeper(f[n])
        <4>1. n + 1 \in 0..MaxTime /\ n + 1 # 0 /\ (n + 1) - 1 = n
          BY <3>1, MaxTimeAssumption
        <4>. HIDE DEF Near, Right1
        <4>. QED
          BY <2>3, <4>1
      <3>3. f[n] \subseteq f[n + 1] /\ \A y \in f[n] : Below(y) \subseteq f[n + 1]
        BY <3>2 DEF Deeper
      <3>4. ASSUME NEW y \in OnDisplay, Root[y], rank[y] <= n + 1
            PROVE  y \in f[n + 1]
        <4>1. Leads(Root, y)
          BY <2>1, <2>5, <3>4
        <4>2. CASE y \in TopLevel
          BY <3>1, <3>3, <4>2
        <4>3. CASE y \notin TopLevel
          <5>. DEFINE z == posted[y].target
          <5>1. z # 0
            <6>1. z = 0 => RepliesTo(y) = 0
              BY DEF RepliesTo
            <6>. QED
              BY <4>3, <6>1 DEF TopLevel
          <5>2. Root[z]
            BY <4>1, <5>1 DEF Leads
          <5>3. z \in DOMAIN posted
            BY <1>1, <2>5, <5>1 DEF Sound, MessagesSound, Placed
          <5>4. z \in OnDisplay
            BY <2>1, <2>5, <5>2, <5>3 DEF Leads
          <5>5. rank[z] <= n
            BY <2>5, <2>7, <3>1, <3>4, <5>3
          <5>6. y \in Below(z)
            BY <1>1, <4>3, <5>4, FoundBelow
          <5>. QED
            BY <3>1, <3>3, <5>2, <5>4, <5>5, <5>6
        <4>. QED
          BY <4>2, <4>3
      <3>. QED
        BY <3>1, <3>3, <3>4
    <2>10. MaxTime \in Right1
      <3>. HIDE DEF Right1
      <3>. QED
        BY <2>8, <2>9, EveryNumber, MaxTimeAssumption
    <2>11. Near(MaxTime)
      BY <2>10, MaxTimeAssumption
    <2>. QED
      BY <2>2, <2>3, <2>5, <2>7, <2>11, MaxTimeAssumption
  <1>. QED
    BY <1>1, AlwaysSound, PTL
=============================================================================
