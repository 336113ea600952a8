-------------------------- MODULE MCBoardReplicas --------------------------
(* Values for the constants of BoardReplicas.                              *)
EXTENDS BoardReplicas, TLC

CONSTANTS o, a, b, n1, n2

(* a was invited by the owner and b by a.                                  *)
Chain == (a :> o) @@ (b :> a)

(* a and b were invited by the owner.                                      *)
Flat == (a :> o) @@ (b :> o)

(* Only a was invited.                                                     *)
Single == a :> o

(* The owner and the members write through different replicas.             *)
ChainDevices == (o :> {n1}) @@ (a :> {n2}) @@ (b :> {n2})

FlatDevices == (o :> {n1}) @@ (a :> {n2}) @@ (b :> {n1})

SingleDevices == (o :> {n1}) @@ (a :> {n2})

Limits(version, bans, admins, size, title, nickname) ==
    [configuration_version |-> version, private |-> FALSE, max_user_bans |-> bans,
     max_admins |-> admins, max_message_size |-> size,
     max_title_size |-> title, max_nickname_size |-> nickname]

OneBan == Limits(1, 1, 1, 2, 2, 2)

Roomy == Limits(1, 3, 2, 2, 2, 2)
=============================================================================
