--------------------------- MODULE SigningClient ---------------------------
(***************************************************************************)
(* How the web client has the records of one board signed (ui/src/         *)
(* signing.rs): by the chat delegate, which holds a signing key for the    *)
(* board, or with its own copy of the key when the delegate gives no       *)
(* answer.  The key of the board changes when the user accepts another     *)
(* invitation or imports an identity, and is then migrated to the          *)
(* delegate.  Composed with ChatDelegate, whose handlers answer.           *)
(*                                                                         *)
(* Requests and answers of a connection keep their order.  A request to    *)
(* sign is registered under an id of its own, the others of the board      *)
(* under its key: a second one takes the place of the first (send_         *)
(* delegate_request of app/chat_delegate.rs).                              *)
(***************************************************************************)
EXTENDS ChatDelegate, Naturals, Sequences

CONSTANTS
    Web, Board,     \* the web client's origin and the board
    OwnerKey,       \* the key of the board's owner
    Uses            \* bounds: who uses the delegate and how, see MCSigningClient

ASSUME WebAssumption == Web \in Origins /\ Board \in Boards
ASSUME OwnerAssumption == OwnerKey \in SigningKeys
ASSUME UsesAssumption ==
    \A u \in Uses : u.stored \in SigningKeys \cup {None} /\ u.keys \subseteq SigningKeys
(* An answer that is an error is no public key. *)
ASSUME ErrorAssumption == Error \notin SigningKeys

VARIABLES
    use,        \* the one in force: any requests of "applications", or this
                \* client's "signing", with what is stored, the keys to come and
                \* how many migrations, messages and faults there are
    requests, responses,
    registered, \* PENDING_REQUESTS: the migration that waits for an answer, or 0
    migrations, \* running migrate_signing_key calls, by id: the key, whether
                \* for an import, the step, and (history) whether alone and
                \* whether the identity has stayed what it was
    signings,   \* the authors of records whose signature is awaited, by id
    begun,      \* how many of each there have been
    identity,   \* self_sk of the board, None when it is not in BOARDS
    stored,     \* that of the boards in storage
    loading,    \* the stored boards have been asked for
    messages,   \* of the user's, on the board of the client
    trusted,    \* history: the key the last migration said the delegate holds
    healed      \* history: an import has been completed since

pending == <<registered, migrations, trusted>>
board == <<identity, stored, loading, messages, healed>>
client == <<use, requests, responses, pending, begun, signings, board>>
signingVars == <<vars, client>>

Keyed == {"PublicKey", "StoreSigningKey"}
Waiting == [check |-> "PublicKey", store |-> "StoreSigningKey", verify |-> "PublicKey"]

SigningInit ==
    /\ Init
    /\ use \in Uses
    /\ requests = <<>> /\ responses = <<>>
    /\ registered = [kind \in Keyed |-> 0]
    /\ migrations = <<>> /\ signings = <<>>
    /\ begun = [migrations |-> 0, messages |-> 0, faults |-> 0]
    /\ identity = None /\ stored = use.stored /\ loading = TRUE
    /\ messages = {} /\ trusted = None /\ healed = FALSE

Request(kind, id, key) == [kind |-> kind, for |-> id, key |-> key]
Without(f, id) == [i \in DOMAIN f \ {id} |-> f[i]]
Unsteady == [i \in DOMAIN migrations |-> [migrations[i] EXCEPT !.steady = FALSE]]
Fault == begun.faults < use.faults /\ begun' = [begun EXCEPT !.faults = @ + 1]
Valid(m) == m.signer = m.author

---------------------------------------------------------------------------
(* The delegate.                                                           *)

(* Its handlers take the requests in order.  A refusal is an error, and so  *)
(* is a signature without a key.                                           *)
Handle ==
    /\ use.by = "signing" /\ requests # <<>>
    /\ LET r == Head(requests) IN
        /\ \/ r.kind = "PublicKey" /\ GetPublicKey(Web, Board) /\ UNCHANGED begun
           \/ r.kind = "StoreSigningKey" /\ StoreSigningKey(Web, Board, r.key) /\ UNCHANGED begun
           \/ r.kind = "Sign" /\ Sign(Web, Board) /\ UNCHANGED begun
           \/ Fault /\ Refuse
        /\ responses' = Append(responses, [kind |-> r.kind, for |-> r.for, answer |-> answer'])
    /\ requests' = Tail(requests)
    /\ UNCHANGED <<use, pending, signings, board>>

(* Any application, this one with other requests included.  Bounds: one     *)
(* signing key, and one key of the others, are enough.                     *)
Applications ==
    /\ use.by = "applications" /\ Next
    /\ \A o \in Origins, b \in Boards : secrets'[SigningKeyName(o, b)] \in {None, OwnerKey}
    /\ \A o \in Origins \ {Web}, k \in Keys \ {CHOOSE l \in Keys : TRUE} :
            secrets'[OriginKey(o, k)] = None
    /\ UNCHANGED client

---------------------------------------------------------------------------
(* migrate_signing_key.                                                    *)

(* It asks for the public key of the delegate's key first.                  *)
Migrate(k, import) ==
    LET m == begun.migrations + 1
        alone == migrations = <<>> /\ \A i \in DOMAIN responses : responses[i].kind \notin Keyed
    IN
    /\ use.by = "signing" /\ m <= use.migrations
    /\ begun' = [begun EXCEPT !.migrations = m]
    /\ requests' = Append(requests, Request("PublicKey", m, k))
    /\ registered' = [registered EXCEPT !.PublicKey = m]
    /\ migrations' = [i \in DOMAIN migrations \cup {m} |->
                        IF i = m THEN [key |-> k, import |-> import, step |-> "check",
                                       alone |-> alone, steady |-> TRUE]
                        ELSE [migrations[i] EXCEPT !.alone = FALSE]]
    /\ trusted' = None /\ healed' = FALSE

(* Deviation (ImportHeals): the board of an import is left as it is.         *)
EndKeeping(m, successful) ==
    LET g == migrations[m] IN
    /\ migrations' = Without(migrations, m)
    /\ trusted' = IF successful /\ g.alone THEN g.key ELSE trusted
    /\ healed' = (healed \/ (successful /\ g.import /\ g.alone /\ g.steady))
    /\ UNCHANGED <<requests, messages>>

(* The board of an import is freed of what does not verify                  *)
(* (remove_unverifiable_messages).                                         *)
End(m, successful) ==
    LET g == migrations[m] IN
    /\ migrations' = Without(migrations, m)
    /\ trusted' = IF successful /\ g.alone THEN g.key ELSE trusted
    /\ IF successful /\ g.import
       THEN /\ messages' = {x \in messages : Valid(x)}
            /\ healed' = (g.alone /\ g.steady)
       ELSE UNCHANGED <<messages, healed>>
    /\ UNCHANGED requests

Ask(m, step, kind, others) ==
    /\ requests' = Append(requests, Request(kind, m, migrations[m].key))
    /\ registered' = [others EXCEPT ![kind] = m]
    /\ migrations' = [migrations EXCEPT ![m].step = step]
    /\ UNCHANGED <<trusted, messages, healed>>

(* Deviation (SignedByAuthor): any key the delegate has will do.            *)
ProceedWithAny(m, found, others) ==
    LET g == migrations[m] IN
    \/ g.step # "store" /\ found \in SigningKeys
       /\ registered' = others /\ End(m, TRUE)
    \/ g.step = "check" /\ found \notin SigningKeys
       /\ Ask(m, "store", "StoreSigningKey", others)
    \/ g.step = "store" /\ found = Error /\ registered' = others /\ End(m, FALSE)
    \/ g.step = "store" /\ found # Error /\ Ask(m, "verify", "PublicKey", others)
    \/ g.step = "verify" /\ found \notin SigningKeys /\ registered' = others /\ End(m, FALSE)

(* A key the delegate holds already is not stored again, one it lacks, one  *)
(* of another identity, or no answer leads to storing it; what it holds    *)
(* then decides.                                                           *)
Proceed(m, found, others) ==
    LET g == migrations[m] IN
    \/ g.step # "store" /\ found = g.key
       /\ registered' = others /\ End(m, TRUE)
    \/ g.step = "check" /\ found # g.key /\ Ask(m, "store", "StoreSigningKey", others)
    \/ g.step = "store" /\ found = Error /\ registered' = others /\ End(m, FALSE)
    \/ g.step = "store" /\ found # Error /\ Ask(m, "verify", "PublicKey", others)
    \/ g.step = "verify" /\ found # g.key /\ registered' = others /\ End(m, FALSE)

Found(reply) == IF reply.kind = "PublicKey" THEN reply.signer ELSE reply

(* The answer goes to whoever is registered, if anyone.                     *)
DeliverToMigration ==
    /\ responses # <<>> /\ Head(responses).kind \in Keyed
    /\ LET kind == Head(responses).kind
           m == registered[kind]
       IN  IF m = 0 THEN UNCHANGED <<requests, pending, messages, healed>>
           ELSE Proceed(m, Found(Head(responses).answer), [registered EXCEPT ![kind] = 0])
    /\ responses' = Tail(responses)
    /\ UNCHANGED <<vars, use, begun, signings, identity, stored, loading>>

(* The timeout, or the cancelled channel of one that lost its registration. *)
FailMigration(m) ==
    LET kind == Waiting[migrations[m].step] IN
    /\ IF registered[kind] = m
       THEN Fault /\ Proceed(m, Error, [registered EXCEPT ![kind] = 0])
       ELSE UNCHANGED begun /\ Proceed(m, Error, registered)
    /\ UNCHANGED <<vars, use, responses, signings, identity, stored, loading>>

---------------------------------------------------------------------------
(* sign_message_with_fallback, and the eight others like it.                *)

(* A record carries the identity of the time it is composed.                *)
Compose ==
    LET i == begun.messages + 1 IN
    /\ use.by = "signing" /\ identity # None /\ i <= use.messages
    /\ begun' = [begun EXCEPT !.messages = i]
    /\ requests' = Append(requests, Request("Sign", i, None))
    /\ signings' = [j \in DOMAIN signings \cup {i} |->
                      IF j = i THEN [author |-> identity, trusted |-> trusted] ELSE signings[j]]
    /\ UNCHANGED <<vars, use, responses, pending, board>>

(* Applied to the board without a look at the signature (apply_delta).      *)
Signed(i, signer) ==
    /\ signings' = Without(signings, i)
    /\ messages' = IF identity = None THEN messages
                   ELSE messages \cup {[author |-> signings[i].author, signer |-> signer,
                                        trusted |-> signings[i].trusted]}
    /\ UNCHANGED <<vars, use, requests, pending, identity, stored, loading, healed>>

DeliverSignature ==
    /\ responses # <<>> /\ Head(responses).kind = "Sign"
    /\ LET r == Head(responses) IN
        IF r.for \notin DOMAIN signings
        THEN UNCHANGED <<vars, use, requests, pending, signings, board>>
        ELSE Signed(r.for, IF r.answer = Error \/ r.answer.signer = None
                           THEN signings[r.for].author ELSE r.answer.signer)
    /\ responses' = Tail(responses)
    /\ UNCHANGED begun

(* The timeout.                                                            *)
SignLocally(i) == Fault /\ Signed(i, signings[i].author) /\ UNCHANGED responses

---------------------------------------------------------------------------
(* The identity of the user.                                               *)

(* The boards in storage come after each connection.  Their keys are        *)
(* migrated although a board that is there keeps its own (Boards::merge).   *)
Load ==
    /\ use.by = "signing" /\ loading /\ loading' = FALSE
    /\ IF stored = None
       THEN UNCHANGED <<requests, pending, begun, identity, healed>>
       ELSE /\ Migrate(stored, FALSE)
            /\ identity' = IF identity = None THEN stored ELSE identity
    /\ UNCHANGED <<vars, use, responses, signings, stored, messages>>

(* The owner stays the owner, but the key of the invitation is migrated.     *)
(* When the PUT that follows the answer fails, it is not.                   *)
AcceptInvitation(k) ==
    /\ use.by = "signing" /\ k # OwnerKey
    /\ identity' = IF identity = OwnerKey THEN identity ELSE k
    /\ \/ Migrate(k, FALSE)
       \/ Fault /\ healed' = FALSE /\ migrations' = Unsteady
          /\ UNCHANGED <<requests, registered, trusted>>
    /\ UNCHANGED <<vars, use, responses, signings, stored, loading, messages>>

(* Only of a board that is not there.                                       *)
ImportIdentity(k) ==
    /\ identity = None /\ Migrate(k, TRUE)
    /\ identity' = k /\ messages' = {}
    /\ UNCHANGED <<vars, use, responses, signings, stored, loading>>

(* The delegate keeps the key of a board that is left.                       *)
Leave ==
    /\ identity # None
    /\ identity' = None /\ messages' = {} /\ healed' = FALSE /\ migrations' = Unsteady
    /\ UNCHANGED <<vars, use, requests, responses, registered, trusted, begun, signings, stored,
                   loading>>

Save ==
    /\ use.by = "signing" /\ ~loading /\ stored # identity
    /\ stored' = identity
    /\ UNCHANGED <<vars, use, requests, responses, pending, begun, signings, identity, loading,
                   messages, healed>>

(* The answers are lost, and so is a request that is not taken any more;     *)
(* the next connection loads the boards again.                             *)
Disconnect ==
    /\ use.by = "signing" /\ ~loading /\ requests \o responses # <<>>
    /\ Fault
    /\ requests' = <<>> /\ responses' = <<>> /\ loading' = TRUE
    /\ UNCHANGED <<vars, use, pending, signings, identity, stored, messages, healed>>

User ==
    \/ Compose \/ Load \/ Leave \/ Save
    \/ \E k \in use.keys : AcceptInvitation(k) \/ ImportIdentity(k)

Client ==
    \/ DeliverToMigration \/ DeliverSignature
    \/ \E m \in DOMAIN migrations : FailMigration(m)
    \/ \E i \in DOMAIN signings : SignLocally(i)

(* Nobody else changes what the delegate holds for the board, so that it may *)
(* as well answer a request at once: what matters is when that arrives.     *)
SigningNext ==
    \/ Applications \/ Handle \/ Disconnect
    \/ requests = <<>> /\ (Client \/ User)

SigningSpec == SigningInit /\ [][SigningNext]_signingVars

---------------------------------------------------------------------------
(* Properties.                                                             *)

(* A record composed when the delegate was said to hold the key of its       *)
(* author, and no other migration had overlapped that one, is signed by     *)
(* its author, whatever fails, is late or is lost (migrate_signing_key:      *)
(* "so delegate signing produces valid signatures").                        *)
SignedByAuthor ==
    \A x \in messages : x.trusted = x.author => Valid(x)

(* When an import has been completed, and the identity stayed what it was,   *)
(* no message of the board was signed with another key than its author's,   *)
(* those under way at the time and those composed later included            *)
(* (remove_unverifiable_messages).                                         *)
ImportHeals == healed => \A x \in messages : Valid(x)
=============================================================================
