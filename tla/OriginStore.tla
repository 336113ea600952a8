---------------------------- MODULE OriginStore ----------------------------
(***************************************************************************)
(* What the chat delegate promises the web applications of a node: a      *)
(* key-value store and a signer for each of them (an "origin"), as if no  *)
(* other existed.  A store or a delete that the host refused half way is  *)
(* answered with an error; until the key is stored or deleted again, a    *)
(* list may then hold it or not.                                          *)
(***************************************************************************)
EXTENDS FiniteSets

CONSTANTS Origins, Keys, Values, Boards, SigningKeys, None

VARIABLES
    stored,     \* stored[o][k]: the value origin o has under key k, or None
    unsettled,  \* unsettled[o]: keys a list may hold or not
    signing,    \* signing[o][b]: the signing key of origin o for board b
    answer      \* the answer to the last request

vars == <<stored, unsettled, signing, answer>>

Error == [kind |-> "Error"]

Init ==
    /\ stored = [o \in Origins |-> [k \in Keys |-> None]]
    /\ unsettled = [o \in Origins |-> {}]
    /\ signing = [o \in Origins |-> [b \in Boards |-> None]]
    /\ answer = Error

Store(o, k, v) ==
    /\ stored' = [stored EXCEPT ![o][k] = v]
    /\ unsettled' = [unsettled EXCEPT ![o] = @ \ {k}]
    /\ answer' = [kind |-> "Store", origin |-> o, key |-> k]
    /\ UNCHANGED signing

Delete(o, k) ==
    /\ stored' = [stored EXCEPT ![o][k] = None]
    /\ unsettled' = [unsettled EXCEPT ![o] = @ \ {k}]
    /\ answer' = [kind |-> "Delete", origin |-> o, key |-> k]
    /\ UNCHANGED signing

(* The value v, or None for a delete, was written and the rest was not. *)
Interrupted(o, k, v) ==
    /\ stored' = [stored EXCEPT ![o][k] = v]
    /\ \E U \in {unsettled[o] \cup {k}, unsettled[o] \ {k}} :
            unsettled' = [unsettled EXCEPT ![o] = U]
    /\ answer' = Error
    /\ UNCHANGED signing

Get(o, k) ==
    /\ answer' = [kind |-> "Get", origin |-> o, key |-> k, value |-> stored[o][k]]
    /\ UNCHANGED <<stored, unsettled, signing>>

Present(o) == {k \in Keys : stored[o][k] # None}

List(o) ==
    /\ \E L \in SUBSET Keys :
            /\ Present(o) \ unsettled[o] \subseteq L
            /\ L \subseteq Present(o) \cup unsettled[o]
            /\ answer' = [kind |-> "List", origin |-> o, keys |-> L]
    /\ UNCHANGED <<stored, unsettled, signing>>

StoreSigningKey(o, b, sk) ==
    /\ signing' = [signing EXCEPT ![o][b] = sk]
    /\ answer' = [kind |-> "StoreSigningKey", origin |-> o, board |-> b]
    /\ UNCHANGED <<stored, unsettled>>

GetPublicKey(o, b) ==
    /\ answer' = [kind |-> "PublicKey", origin |-> o, board |-> b, signer |-> signing[o][b]]
    /\ UNCHANGED <<stored, unsettled, signing>>

Sign(o, b) ==
    /\ answer' = [kind |-> "Sign", origin |-> o, board |-> b, signer |-> signing[o][b]]
    /\ UNCHANGED <<stored, unsettled, signing>>

Refuse ==
    /\ answer' = Error
    /\ UNCHANGED <<stored, unsettled, signing>>

Next ==
    \/ \E o \in Origins :
        \/ \E k \in Keys :
            \/ \E v \in Values : Store(o, k, v) \/ Interrupted(o, k, v)
            \/ Delete(o, k) \/ Interrupted(o, k, None)
            \/ Get(o, k)
        \/ List(o)
        \/ \E b \in Boards :
            \/ \E sk \in SigningKeys : StoreSigningKey(o, b, sk)
            \/ GetPublicKey(o, b)
            \/ Sign(o, b)
    \/ Refuse

Spec == Init /\ [][Next]_vars
=============================================================================
