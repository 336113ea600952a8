---------------------------- MODULE ChatDelegate ----------------------------
(***************************************************************************)
(* The chat delegate (freetalk-delegate/src).  It runs on the node of a   *)
(* user and keeps, for every web application (the attested origin of a    *)
(* request), values under keys, an index of those keys, and one signing   *)
(* key per board.  All of it lies in one flat store of named secrets that *)
(* the host provides; the names keep origins apart.                       *)
(*                                                                         *)
(* A request is processed in one call, so an action is a whole handler.   *)
(* The host may refuse a write; the delegate then returns an error and    *)
(* what it wrote before stays written.  A definition whose comment begins *)
(* with "Deviation" is no part of the model; it shows that the property   *)
(* it names would notice such a mistake.                                  *)
(***************************************************************************)
EXTENDS FiniteSets

CONSTANTS
    Origins,        \* contract instances whose web applications send requests
    Keys,           \* ChatDelegateKeys (arbitrary bytes)
    Texts,          \* what String::from_utf8_lossy makes of bytes
    TextOf,         \* TextOf[k]: the text of key k
    KeyIndexSuffix, \* KEY_INDEX_SUFFIX
    Values,
    Boards,         \* BoardKeys
    SigningKeys,
    SigningPrefix,  \* "signing_key"
    None            \* no secret under a name

ASSUME TextOfAssumption == TextOf \in [Keys -> Texts]
ASSUME SuffixAssumption == KeyIndexSuffix \in Texts
(* Base58 has no underscore. *)
ASSUME PrefixAssumption == SigningPrefix \notin Origins
(* KeyIndex, the struct, as it is stored. *)
KeyIndices == [keys : SUBSET Keys]
ASSUME NoneAssumption == None \notin Values \cup SigningKeys \cup KeyIndices
(* Every key has a text of its own, and none has that of the index: so it   *)
(* is for the one key the clients use, "boards_data".                        *)
ASSUME DistinctTexts ==
    /\ \A k, l \in Keys : TextOf[k] = TextOf[l] => k = l
    /\ \A k \in Keys : TextOf[k] # KeyIndexSuffix

VARIABLES
    secrets,    \* the host's store: secrets[name] is the bytes under a name
    answer      \* the response to the last request

vars == <<secrets, answer>>

(* create_origin_key, create_index_key, create_signing_key_secret_key. *)
OriginKey(o, k) == <<o, TextOf[k]>>
(* Deviation (TypeOK): the index has no suffix of its own. *)
IndexKeyOfSomeKey(o) == <<o, TextOf[CHOOSE k \in Keys : TRUE]>>
IndexKey(o) == <<o, KeyIndexSuffix>>
SigningKeyName(o, b) == <<SigningPrefix, o, b>>

Names == (Origins \X Texts) \cup ({SigningPrefix} \X Origins \X Boards)

Secrets == Values \cup SigningKeys \cup KeyIndices \cup {None}

Error == [kind |-> "Error"]

(* get_key_index: no index, or bytes that are not one, is the empty index. *)
IndexIn(store, o) ==
    IF store[IndexKey(o)] \in KeyIndices THEN store[IndexKey(o)].keys ELSE {}
KeyIndex(o) == IndexIn(secrets, o)

Init ==
    /\ secrets = [n \in Names |-> None]
    /\ answer = Error

---------------------------------------------------------------------------

(* handle_store_request.  The index is written only when it lacks the key. *)
StoreRequest(o, k, v) ==
    LET written == [secrets EXCEPT ![OriginKey(o, k)] = v]
        index == IndexIn(written, o)
    IN  /\ secrets' = IF k \in index THEN written
                      ELSE [written EXCEPT ![IndexKey(o)] = [keys |-> index \cup {k}]]
        /\ answer' = [kind |-> "Store", origin |-> o, key |-> k]

(* The host refuses to write the index after it wrote the value. *)
StoreRequestInterrupted(o, k, v) ==
    /\ k \notin KeyIndex(o)
    /\ secrets' = [secrets EXCEPT ![OriginKey(o, k)] = v]
    /\ answer' = Error

(* Deviation (KeepsPromise): the index keeps the key. *)
DeleteRequestKeepingIndex(o, k) ==
    /\ secrets' = [secrets EXCEPT ![OriginKey(o, k)] = None]
    /\ answer' = [kind |-> "Delete", origin |-> o, key |-> k]

(* handle_delete_request.  The index is written whether it changes or not. *)
DeleteRequest(o, k) ==
    LET written == [secrets EXCEPT ![OriginKey(o, k)] = None]
    IN  /\ secrets' = [written EXCEPT ![IndexKey(o)] = [keys |-> IndexIn(written, o) \ {k}]]
        /\ answer' = [kind |-> "Delete", origin |-> o, key |-> k]

DeleteRequestInterrupted(o, k) ==
    /\ secrets' = [secrets EXCEPT ![OriginKey(o, k)] = None]
    /\ answer' = Error

GetRequest(o, k) ==
    /\ answer' = [kind |-> "Get", origin |-> o, key |-> k, value |-> secrets[OriginKey(o, k)]]
    /\ UNCHANGED secrets

ListRequest(o) ==
    /\ answer' = [kind |-> "List", origin |-> o, keys |-> KeyIndex(o)]
    /\ UNCHANGED secrets

StoreSigningKey(o, b, sk) ==
    /\ secrets' = [secrets EXCEPT ![SigningKeyName(o, b)] = sk]
    /\ answer' = [kind |-> "StoreSigningKey", origin |-> o, board |-> b]

(* handle_get_public_key: a public key stands for its signing key. *)
GetPublicKey(o, b) ==
    /\ answer' = [kind |-> "PublicKey", origin |-> o, board |-> b,
                  signer |-> secrets[SigningKeyName(o, b)]]
    /\ UNCHANGED secrets

(* handle_sign_request, the same for all nine kinds of record. *)
Sign(o, b) ==
    /\ answer' = [kind |-> "Sign", origin |-> o, board |-> b,
                  signer |-> secrets[SigningKeyName(o, b)]]
    /\ UNCHANGED secrets

(* No origin, a message processed already or of another type, or the host  *)
(* refuses the first write of a handler.                                   *)
Refuse ==
    /\ answer' = Error
    /\ UNCHANGED secrets

Next ==
    \/ \E o \in Origins, k \in Keys, v \in Values :
            StoreRequest(o, k, v) \/ StoreRequestInterrupted(o, k, v)
    \/ \E o \in Origins, k \in Keys :
            DeleteRequest(o, k) \/ DeleteRequestInterrupted(o, k) \/ GetRequest(o, k)
    \/ \E o \in Origins : ListRequest(o)
    \/ \E o \in Origins, b \in Boards :
            \/ \E sk \in SigningKeys : StoreSigningKey(o, b, sk)
            \/ GetPublicKey(o, b)
            \/ Sign(o, b)
    \/ Refuse

Spec == Init /\ [][Next]_vars

---------------------------------------------------------------------------

(* Every name holds what its handlers write there. *)
TypeOK ==
    /\ secrets \in [Names -> Secrets]
    /\ \A o \in Origins : secrets[IndexKey(o)] \in KeyIndices \cup {None}
    /\ \A o \in Origins, k \in Keys : secrets[OriginKey(o, k)] \in Values \cup {None}
    /\ \A o \in Origins, b \in Boards :
            secrets[SigningKeyName(o, b)] \in SigningKeys \cup {None}

Promise == INSTANCE OriginStore WITH
    stored <- [o \in Origins |-> [k \in Keys |-> secrets[OriginKey(o, k)]]],
    unsettled <- [o \in Origins |->
        {k \in Keys : (k \in KeyIndex(o)) # (secrets[OriginKey(o, k)] # None)}],
    signing <- [o \in Origins |-> [b \in Boards |-> secrets[SigningKeyName(o, b)]]]

(* Each application sees a store of its own: what it stored last, listed     *)
(* unless the host interrupted a write of that key, and signatures by the    *)
(* key it stored last (freetalk-delegate/src/handlers.rs, utils.rs).         *)
KeepsPromise == Promise!Spec
=============================================================================
