---------------------------- MODULE MCCliClient ----------------------------
(* Values for the constants of CliClient.                                  *)
EXTENDS CliClient, TLC

CONSTANTS o, i, u, fresh, joined, p1, p2

(* The user may be u, invited by i, whom the owner invited, on both boards. *)
MCInviter == (i :> o) @@ (u :> i)

MCInvited == (fresh :> {u}) @@ (joined :> {u})

MCConfiguration ==
    [configuration_version |-> 1, private |-> FALSE, max_user_bans |-> 1,
     max_admins |-> 1, max_message_size |-> 1, max_title_size |-> 1,
     max_nickname_size |-> 2]

Info(m) == [member_id |-> m, version |-> 0, nickname |-> 1]

(* A board on which i has written something, or nobody.                     *)
Quiet ==
    [configuration |-> MCConfiguration, admin |-> {}, bans |-> {}, members |-> {},
     member_info |-> {Info(o)},
     secrets |-> [current_version |-> 0, versions |-> {}, blobs |-> {}],
     recent_messages |-> {}, upgrade |-> None]

Lively ==
    [Quiet EXCEPT !.members = {i}, !.member_info = {Info(o), Info(i)},
                  !.recent_messages = {[id |-> 0, author |-> i, secret_version |-> None,
                                        size |-> 1, title |-> 0]}]

MCPublished == {Quiet, Lively}

MCSymmetry == Permutations({p1, p2})
=============================================================================
