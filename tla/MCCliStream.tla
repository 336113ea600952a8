----------------------------- MODULE MCCliStream -----------------------------
(* Instances of CliStream: the commands, their arguments and bounds.       *)
EXTENDS CliStream

Command(how, n, most, before, last, failures) ==
    [mode |-> how, initial |-> n, max |-> most, since |-> 0,
     old |-> before, times |-> last, faults |-> failures]

Since(c, from) == [c EXCEPT !.since = from]

(* Listings of all, of some and of the recent ones; polls late and with     *)
(* messages put before others; subscriptions with what was deleted before  *)
(* them, with failures and with a maximum.                                 *)
SomeCommands ==
    {Command("list", n, 0, {1, 2}, 4, 1) : n \in 0..2}
    \cup {Since(Command("list", 2, 0, {1, 3}, 4, 0), 2)}
    \cup {Command("poll", n, most, {2}, 4, 2) : n \in 0..1, most \in {0, 2}}
    \cup {Command("subscribe", n, most, {1}, 3, 2) : n \in 0..1, most \in {0, 1}}
    \cup {Command("subscribe", 0, most, {1, 3}, 4, 1) : most \in {0, 1}}
=============================================================================
