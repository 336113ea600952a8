--------------------------- MODULE MessageActions ---------------------------
(***************************************************************************)
(* What the messages of a board add up to: the edits, deletions and        *)
(* reactions among them, folded in the order of the messages               *)
(* (common/src/board_state/message.rs, rebuild_actions_state).             *)
(*                                                                         *)
(* A message is a record and its id its place in the order of messages,    *)
(* by time and then by id.  msgs is a function from the ids of the held    *)
(* messages.  An edit is known by its id, not by its text.                 *)
(***************************************************************************)
EXTENDS Naturals

CONSTANT MaxTime    \* the ids are 1..MaxTime

ASSUME MaxTimeAssumption == MaxTime \in Nat

Times == 1..MaxTime

ActionKinds == {"edit", "delete", "reaction", "remove", "editcategory"}
Kinds == {"text", "reply", "category"} \cup ActionKinds

(* The target of a reply is what it answers or the category it is put in,  *)
(* that of a category the one above it.  0 is none.                        *)
Message(kind, author, target, emoji) ==
    [kind |-> kind, author |-> author, target |-> target, emoji |-> emoji]

IsAction(m) == m.kind \in ActionKinds

Actions(msgs) == {t \in DOMAIN msgs : IsAction(msgs[t])}
Authored(msgs) == DOMAIN msgs \ Actions(msgs)
Categories(msgs) == {t \in DOMAIN msgs : msgs[t].kind = "category"}

(* MessageActionsState.                                                    *)
Nothing == [edited |-> {}, categories |-> {}, deleted |-> {}, reactions |-> {}]

---------------------------------------------------------------------------
(* The effect of the action a.                                             *)

ByAuthor(msgs, a) ==
    a.target \in Authored(msgs) /\ msgs[a.target].author = a.author

(* Deviation (NothingComesBack): an edit does not replace another.          *)
FirstOnly(edits, x, t) ==
    IF \E e \in edits : e[1] = x THEN edits ELSE edits \cup {<<x, t>>}

Replaced(edits, x, t) == {e \in edits : e[1] # x} \cup {<<x, t>>}
Dropped(edits, x) == {e \in edits : e[1] # x}

(* Deviation (ViewIsMeaning): what was deleted may be edited.               *)
EditAnything(v, msgs, t) ==
    LET a == msgs[t] IN
    IF a.target \notin Categories(msgs) /\ ByAuthor(msgs, a)
    THEN [v EXCEPT !.edited = Replaced(@, a.target, t)] ELSE v

Edit(v, msgs, t) ==
    LET a == msgs[t] IN
    IF a.target \notin Categories(msgs) \cup v.deleted /\ ByAuthor(msgs, a)
    THEN [v EXCEPT !.edited = Replaced(@, a.target, t)] ELSE v

Delete(v, msgs, a) ==
    IF ByAuthor(msgs, a)
    THEN [v EXCEPT !.deleted = @ \cup {a.target},
                   !.edited = Dropped(@, a.target),
                   !.categories = Dropped(@, a.target)]
    ELSE v

React(v, msgs, a) ==
    IF a.target \in Authored(msgs) \ v.deleted
    THEN [v EXCEPT !.reactions = @ \cup {<<a.target, a.emoji, a.author>>}] ELSE v

RemoveReaction(v, a) ==
    [v EXCEPT !.reactions = @ \ {<<a.target, a.emoji, a.author>>}]

EditCategory(v, msgs, t, privileged) ==
    LET a == msgs[t] IN
    IF /\ a.target \in Categories(msgs) \ v.deleted
       /\ a.author \in privileged \/ ByAuthor(msgs, a)
    THEN [v EXCEPT !.categories = Replaced(@, a.target, t)] ELSE v

(* The actions that are public or have been decrypted count, in order.      *)
Rebuilt(msgs, readable, privileged) ==
    LET after[t \in 0..MaxTime] ==
          IF t = 0 THEN Nothing
          ELSE IF t \notin Actions(msgs) \cap readable THEN after[t - 1]
          ELSE CASE msgs[t].kind = "edit"     -> Edit(after[t - 1], msgs, t)
                 [] msgs[t].kind = "delete"   -> Delete(after[t - 1], msgs, msgs[t])
                 [] msgs[t].kind = "reaction" -> React(after[t - 1], msgs, msgs[t])
                 [] msgs[t].kind = "remove"   -> RemoveReaction(after[t - 1], msgs[t])
                 [] OTHER -> EditCategory(after[t - 1], msgs, t, privileged)
    IN  after[MaxTime]

(* display_messages.                                                       *)
Displayed(msgs, v) == Authored(msgs) \ v.deleted

---------------------------------------------------------------------------
(* What the actions mean, without an order of evaluation: a message its    *)
(* author ever deleted is deleted, the last edit its author made stands,   *)
(* and so does a reaction that was not too late and has not been taken     *)
(* back.                                                                   *)

About(msgs, kind, x) == {t \in Actions(msgs) : msgs[t].kind = kind /\ msgs[t].target = x}

Last(x, edits) == {<<x, t>> : t \in {e \in edits : \A f \in edits : f <= e}}

Meaning(msgs, readable, privileged) ==
    LET By(kind, x, users) == {t \in About(msgs, kind, x) \cap readable : msgs[t].author \in users}
        Deletions(x) == By("delete", x, {msgs[x].author})
        Deleted == {x \in Authored(msgs) : Deletions(x) # {}}
        Stands(r) ==
            LET a == msgs[r] IN
            /\ \A d \in Deletions(a.target) : r < d
            /\ \A t \in By("remove", a.target, {a.author}) : msgs[t].emoji = a.emoji => t < r
    IN  [deleted |-> Deleted,
         edited |-> UNION {Last(x, By("edit", x, {msgs[x].author})) :
                            x \in Authored(msgs) \ (Deleted \cup Categories(msgs))},
         categories |-> UNION {Last(x, By("editcategory", x, privileged \cup {msgs[x].author})) :
                                x \in Categories(msgs) \ Deleted},
         reactions |-> {<<msgs[r].target, msgs[r].emoji, msgs[r].author>> :
                         r \in {t \in Actions(msgs) \cap readable :
                                 /\ msgs[t].kind = "reaction"
                                 /\ msgs[t].target \in Authored(msgs)
                                 /\ Stands(t)}}]
=============================================================================
