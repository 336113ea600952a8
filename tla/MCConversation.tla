--------------------------- MODULE MCConversation ---------------------------
(* Instances of Conversation: what is looked at together.                  *)
EXTENDS Conversation

Public(mine, others, n, looks, answers) ==
    [own |-> mine, theirs |-> others, times |-> n, switches |-> looks, permissions |-> answers,
     private |-> FALSE, secret |-> FALSE]

Private(mine, others, n, known) ==
    [Public(mine, others, n, 0, {"denied"}) EXCEPT !.private = TRUE, !.secret = known]

(* Edits and deletions of posts, and of categories; reactions of others     *)
(* and the user's own; pages; a private board with and without its secret;  *)
(* what asks for attention, with others posting and with the user.          *)
SomeWorkloads ==
    {Public({"edit", "delete"}, {"text", "edit", "delete"}, 3, 0, {"denied"}),
     Public({"editcategory", "delete"}, {"category", "editcategory", "delete"}, 3, 0, {"denied"}),
     Public({"reaction"}, {"text"}, 4, 0, {"denied"}),
     Public({"reaction"}, {"text", "delete", "reaction", "remove"}, 3, 0, {"denied"}),
     Public({"reply", "category"}, {"reply", "category"}, 3, 0, {"denied"}),
     Private({"text", "delete", "edit"}, {"text", "reaction"}, 3, TRUE),
     Private({"text", "category", "reaction"}, {"text", "reply"}, 2, FALSE),
     Public({}, {"text", "delete"}, 2, 3, {"granted"}),
     Public({"text"}, {"text"}, 2, 2, {"default"})}
=============================================================================
