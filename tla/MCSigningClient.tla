--------------------------- MODULE MCSigningClient ---------------------------
(* The chat delegate for TLC: two web applications with two keys each, or   *)
(* the web client as it signs, with the keys of two invitations or of the   *)
(* owner.                                                                  *)
EXTENDS SigningClient, TLC

CONSTANTS owner, first, second, boardsData, settings, boardsText, settingsText

MCTextOf == boardsData :> boardsText @@ settings :> settingsText
MCSymmetry == Permutations(Values)

Use(before, new, n, most, lost) ==
    [by |-> "signing", stored |-> before, keys |-> new, migrations |-> n, messages |-> most,
     faults |-> lost]

SomeUses ==
    {[Use(None, {}, 0, 0, 0) EXCEPT !.by = "applications"],
     Use(owner, {first}, 2, 1, 1),
     Use(first, {second}, 2, 1, 1),
     Use(first, {second}, 3, 1, 0),
     Use(None, {first, second}, 2, 1, 0),
     Use(None, {first, second}, 1, 1, 2)}
=============================================================================
