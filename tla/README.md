# FreeTalk in TLA+

FreeTalk is a group discussion program on Freenet. A board is a replicated state
(`common/`) kept by a contract that runs on every node that holds the board
(`freetalk-contract/`). Keys never leave a delegate that runs next to the user's node
(`freetalk-delegate/`). Users work through a web client (`ui/`) or a command line client
(`cli/`), each of which keeps copies of the boards it follows. This directory models the
parts of it that decide whether those copies stay valid, come to agree, and keep what
users wrote, and says what was checked and what was proved of them.

## The system and its parts

| part | state | operations | talks to | what is hard |
|---|---|---|---|---|
| board state (`common/src/board_state*`) | one `ChatBoardStateV1`: configuration, admins, bans, members, nicknames, secrets, messages, upgrade pointer | `verify`, `summarize`, `delta`, `apply_delta`, `merge`, `post_apply_cleanup` | called by everything below | nine fields updated one after the other and related to one another; limits; order, repetition and loss of updates |
| contract (`freetalk-contract/src/lib.rs`) | the state of one board on one node | `validate_state`, `update_state`, `summarize_state`, `get_state_delta` | the Freenet node | a refused update; several updates in one call |
| message actions (`message.rs`, `content.rs`) | edits, deletions, reactions, replies and category changes derived from the messages | `rebuild_actions_state*` | board state, the views | order of the fold, permissions, encrypted actions, caches |
| delegate (`freetalk-delegate/src`) | a key-value store per origin and an index of its keys; signing keys | store, get, delete, list, sign, get public key | the clients, over asynchronous messages with a context | index and values written in separate steps; origins kept apart |
| board data of the web client (`ui/src/board_data.rs`) | boards, own keys, stored invitations, cached secrets | create, join, rotate the secret, who may write | handlers, synchronizer | cached secrets and member data that grow stale |
| handlers of the web client (`ui/src/components/**`, `ui/src/util/messaging.rs`) | none of their own | compose, sign, apply: message, reply, edit, reaction, ban, admin, nickname, configuration, category | board data, delegate | state read before an `await` and used after it |
| synchronizer (`ui/src/components/app/freenet_api/*`) | connection status, `SyncInfo` per board (status, last synced state) | connect, reconnect, put, get, subscribe, update, apply notifications | node, board data | lost responses, timeouts, duplicated connects, baseline advanced before an answer |
| delegate client (`chat_delegate.rs`, `signing.rs`) | pending requests | load and save boards, migrate keys, sign with fallback | delegate | timeouts, answers out of order |
| command line client (`cli/src`) | `boards.json`: own keys, boards, stored invitations | create, invite, join, send, edit, ban, configure, migrate | node, storage | local copies that are never merged; rewriting the whole file |
| notifications, receive times, titles (`ui/src/components/app/*.rs`) | read mark, title, permission, receive times | mark, count, notify | board data, the browser | first load against later changes; tabs hidden and shown in between |
| views (`ui/src/components`) | form fields, the page | conversation, categories, posts, forms | everything | what they offer against what the fold accepts |

What makes each correct, in short. A board accepted by `update_state` must be accepted by
`validate_state`; two replicas must be able to merge, to the same result; nothing may go
back to an older version; who may write must be able to; a private board never holds
readable text; the derived message state must depend on the set of messages and not on how
they arrived; the delegate must not lose a key or show one origin another's; a record must
be signed with the key its author has; the synchronizer must send what was written and
notice what it missed; what others write must be shown once, be found, and not pass for
read.

The hazards we found in the code, each with its line, are the list `hazards` of
`PROJECT.json`.

## Modules

### The board and its replicas

- `InviteChain`: the graph of invitations and the walks over it as least fixed points:
  who is below a banned member (`Reached`), whose chain reaches the owner (`Rooted`), whom
  the cleanup must keep (`Required`).
- `InviteWalk`: the loops of `member.rs`, `ban.rs` and `board_state.rs` that do those walks,
  one iteration per step, over every graph. It shows that they end and that the fixed
  points of `InviteChain` may stand in their place.
- `BoardState`: one board as a record with the fields of `ChatBoardStateV1`, in sets
  instead of sorted vectors. `Verify*` are the `verify` functions, `Delta*` the `delta`
  functions; for every field `...Accepted` says when its `apply_delta` returns `Ok` and
  `...After` what the field becomes. `Applied` composes them in the order of the struct,
  `Cleanup` is `post_apply_cleanup`, `Apply` both, `Merge` is `merge`.
- `BoardReplicas`: replicas, users and the network. `board[n]` is the state of replica n,
  `inflight` the updates composed and not yet applied, `stored` the invitations clients
  keep to add their user again. An action per operation of the clients (`SendMessage`,
  `BanMember`, `AddAdmin`, `UpdateConfiguration`, `SetNickname`, `RotateSecret`,
  `PublishUpgrade`, `AcceptInvitation`) and per step of the network (`SendDelta`,
  `SendState`, `Deliver`, `DeliverCopy`, `Lose`, `Sync`). Composing and applying are
  separate actions wherever the code awaits a signature or sends the delta to a node, so
  everything read at composition may be stale when it is applied.
- `MCBoardReplicas`: invitation graphs, devices and limits for TLC.
- `BoardStateProofs`, `BoardReplicasProofs`: the lemmas on one update and the theorems, those
  of `InviteWalk` included.

Abstractions: signatures are valid (no model of forgery); lengths stand for texts; ids
stand for times and hashes, ordered as the code sorts; `StateVersionV1` never changes and
is left out; a delta refused by a replica leaves it as it was, as in `update_state`, which
throws its copy away. The crate that derives `apply_delta` for the whole struct is not in
the repository; its order of the fields is that of the struct, and in a client, where the
struct is updated in place, fields before a refused one may stay applied. That is listed
as a hazard and not modelled.

### The chat delegate

- `ChatDelegate`: the delegate as it is, one flat store of named secrets (`secrets`) and
  the last response (`answer`). An action per handler of `handlers.rs`; a handler whose
  second write the host refuses is the same handler `...Interrupted`. Keys are turned into
  names with `from_utf8_lossy`, which two keys may share and which may hit the name of the
  index: `DistinctTexts` assumes away both, as is the case for the one key the clients use.
- `OriginStore`: what the delegate promises: for every web application a store and a
  signer of its own. A key whose write was interrupted is `unsettled` and a list may show it
  or not.
TLC checks `ChatDelegate` within `SigningClient`, below; its theorems are in
`SigningClientProofs`.

The refinement maps a value of the promise to the secret under the origin's name for the
key, a signing key likewise, and `unsettled` to the keys where index and values disagree.

### Signing

- `SigningClient`: the delegate composed with the web client that has the records of one
  board signed. `requests` and `responses` are the connection; `registered` are the entries
  of `PENDING_REQUESTS` for the board's key, which a second request takes over;
  `migrations` are the running calls of `migrate_signing_key` (check, store, verify),
  `signings` the records whose signature is awaited, `identity` the key of the board in the
  client and `stored` that of the boards in storage. `Handle` is the delegate taking the
  next request, by the actions of `ChatDelegate`; `DeliverToMigration`, `FailMigration`,
  `DeliverSignature` and `SignLocally` are the continuations after each `await`; `Compose`,
  `Load`, `AcceptInvitation`, `ImportIdentity`, `Leave`, `Save` and `Disconnect` the rest.
  `Applications` is the delegate with any requests at all, for `KeepsPromise`.
- `MCSigningClient`: who uses the delegate and how, for TLC.
- `SigningClientProofs`: the theorems.

Abstractions: the nine `sign_*` functions differ in the record they sign and are one; the
delegate answers a request before the client goes on (nobody else changes what it holds for
the board, so only the arrival of the answer matters); the removal of unverifiable messages
after an import, deferred by `setTimeout(0)`, runs with the answer it follows; one board.
Histories: `trusted`, the key the delegate was last said to hold; `healed`, that an import
was completed undisturbed; `alone`, that no migration overlapped this one; `steady`, that the
board's key in the client was left alone meanwhile.

### Messages and the conversation

- `MessageActions`: `rebuild_actions_state*` as a recursive function over the ids
  (`Rebuilt`), and `Meaning`, which says without an order what the messages add up to.
- `Conversation`: one board in the web client, `MessageActions` with everything around it.
  `Post` is anybody's message reaching the contract; `Load`, `ReceiveDelta` and
  `ReceiveState` are the handlers that bring messages; a click of the user's
  (`ToggleReaction`, `Change` to edit or delete, `Send` to post) starts a task that is
  signed (`Sign`) and applied (`Apply`) later, with what it read at the start; `SwitchTab`,
  `SwitchFocus`, `SwitchBoard`, `ClickNotification` and `AnswerPrompt` are what the browser
  reports, `RunTitleUpdater` is the effect of `document_title.rs`. The pages (`TopLevel`,
  `InCategory`, `Answers`, `Found`) are those of `conversation.rs`, `category_view.rs` and
  `posts_view.rs`.
- `MCConversation`: which kinds of message meet which, for TLC.
- `ConversationProofs`: the theorems.

Abstractions: everyone is a member and messages keep the limits (`BoardReplicas` is about
both); an id is a message's place in the order of times, and the clocks of others may be
off; an edit is known by its id and not by its text; what a load defers runs with it; one
board, beside which the user may look elsewhere.

### Boards kept by the web client

- `BoardsStorage`: the delegate's two copies (`current`, and `legacy` for an older
  version of the delegate), a tab that opens, connects, loads, merges, saves and closes, and
  the one connection between them. `Connect` is `set_up_chat_delegate`, `Save` is
  `save_boards_to_delegate` up to its `await`, `Complete` and `Timeout` what ends that
  await, `Receive*` the branches of `handle_api_response`, `MergeBoards` the deferred
  `Boards::merge`. `pending` is the one entry of `PENDING_REQUESTS` that matters: get and
  store of the boards use the same key, and a second request takes the first one's place.
- `MCBoardsStorage`: symmetry and legacy values for TLC.
- `BoardsStorageProofs`: the theorems.

Abstractions: one tab at a time; of a board only the user's key is kept, on which the merge
depends (that the board's state may refuse the stored one is a free choice); a board that was
left is not joined again. Three history variables (`kept`, `left`, `blind`) state the
properties.

### A board and its contract

- `BoardSync`: the message loop of `FreenetSynchronizer` (`queue`), the closures handlers
  defer (`deferred`), timers, one board with its sync status and baseline, an invitation to
  it, the stored copy that is loaded, and a node that serves requests in order and sends
  notifications. A `Handle...` action per message, a `Run...` action per deferred closure,
  the user's actions, `Fire` and `Age` for time, `Serve`, `OthersChange` and `Break` for
  the node. `ProcessBoards` is `process_boards` whole: invitations, PUTs, updates.
- `BoardSyncProofs`: the theorems.

Abstractions: a state is the set of changes it holds, so a merge is a union (what merging
does is `BoardReplicas`); one board, since boards do not read one another's state; the
connection is in order while it lasts; when it breaks the node may have served any prefix
of the requests and all answers are gone; before the node serves the next request,
closures already deferred (`setTimeout(0)`) have run; timers of seconds fire only when
nothing shorter is under way, unless that counts as a trouble.

### The command line client

- `CliClient`: terminals that each run one command at a time, the file they share, a node
  with the boards, and requests that may outlive the command. `CreateBoard`,
  `AcceptInvitation`, `SendMessage`, `SendReply`, `SetNickname`, `RepublishBoard`,
  `UpdateConfig`, `BanMember` and `SendMessageWithKey` are the first step of a command, up
  to its first write or request. `Load`, `Truncate` and `Fill` are every write of
  `boards.json` (`load_boards`, then `fs::write`, which truncates the file before it writes
  it); `ComposeMessage` and `ComposeNickname` are `build_rejoin_delta` with what follows;
  `Deliver` is the node's `update_state` and its answer, `Lose` a lost connection, `Kill` an
  interrupt or a timeout. Boards are those of `BoardState`, so bans, limits and the cleanup
  that prunes silent members are all there.
- `MCCliClient`: one board the user creates and one she is invited to by a member.
- `CliClientProofs`: the theorems.

Abstractions: editing, deleting and reacting are messages like others, for they check
nothing about their target; a command that finds nothing to work on is left out; reading the
user's key and fetching the board are one step; a write of the text over another command's
text comes out whole or broken. The bundled contract does not change, so no contract keys
are corrected. `promised` is a history of what commands reported as stored, and `standing`
in a request says on what its message relies.

- `CliStream`: `message list` and `message stream`, by polling and by subscription, with one
  socket (`socket`) out of which `get_board` takes whatever comes first for its answer.
  `PollFirst`, `SubscribeFirst` and `List` are the first fetch, `Poll` and `Polled` a round of
  `stream_messages`, `Subscribe`, `ListenDelta`, `ListenState`, `ListenLate`, `Handle` and
  `Fetched` the loop of `subscribe_and_stream`, `Stop` its end. `seen` is `seen_messages`,
  `shown` what was written and how it came. `known`, a history, is what the first answer held.
- `MCCliStream`: commands with their arguments.
- `CliStreamProofs`: the theorems.

Abstractions: a public board on which the owner writes within its limits, so that it drops no
message (`MessagesV1::apply_delta` drops what is too long or not a member's, which is
`BoardReplicas`); texts and deletions only; the times between polls and the format of the
lines are left out.

### Deviations

A definition whose comment begins with "Deviation" is no part of a model. It is the
definition below it with a mistake the code could have had, kept to show that the property
named there notices it.

## Checks

Deadlock is not checked: in every run the system may really stop, since users may stop
writing, walks, tabs and commands end, and a client comes to rest.

### The board and its replicas

| run | what it shows |
|---|---|
| `BoardMembership` | a chain of two invitations, one ban kept, one admin, public or private: every replica stays valid (`BoardsVerify`), an accepted update leaves nothing for the next cleanup (`BoardsSettled`), nothing readable is held in a private board (`PrivateMessagesSealed`), with two updates under way at once; 225,106 states |
| `BoardAdmins` | two members side by side, either may become admin and ban the other: `MergesCommute`, `ReplicasMergeable`, `ParticipantsCanPost` |
| `BoardVersions` | configuration versions with a ban limit that changes, nicknames and an upgrade, old updates under way: `NothingRollsBack` (configuration, admins, secrets, nicknames), and with `Sync` fair `EventualAgreement`; 7,869 states |
| `InviteWalks` | every graph on four members, cycles included: `WalksAgree`, `WalksTerminate`; 329,185 states |

Two replicas and one or two invitees are enough for every relation `verify` states: a
chain of two invitations gives a banned inviter, an inviter kept only for the invitee and
an orphaned ban; two members invited side by side give admins who ban one another. Two
updates are under way at once in `BoardMembership`, so that each may be composed before
the other is applied and overtake it; in the other runs one is, and `Sync`, rotations,
nicknames and accepted invitations come in between (with two, `BoardAdmins` holds too: 549,662
states). `DeliverCopy` and `Lose` give repetition and loss.
`MaxConfigurationVersion`, `MaxInfoVersion`, `BanIds`, `MessageIds`, `Upgrades`,
`BanLimits` and `MaxInflight` bound what is written. Four members give walks every shape
the loops distinguish: a self-invitation, a cycle beside a chain, a chain into a cycle, an
inviter who is not held.

Fairness: `Sync(n, k)` is weakly fair, since a node that holds a contract compares summaries
with its neighbours again and again (`summarize_state`, `get_state_delta`); nothing else
is. For `InviteWalk` the loop goes on.

### The delegate and what is kept there

| run | what it shows |
|---|---|
| `DelegatePromise` | any requests of two applications, two keys, two values, one board, any write refused: the delegate implements `OriginStore` (`KeepsPromise`). Or a web client that signs: a record composed when the delegate was said to hold its author's key is signed by its author (`SignedByAuthor`), and a completed import leaves no message signed with another key (`ImportHeals`); 794,665 states |
| `StoredBoards` | two tabs one after the other, two boards under two keys, one lost connection, two saves: `SavedUnlessBlind`; 2.0 million states |
| `BoardsLoading` | one board, with and without an older delegate: `SavesReturn`, `LoadsEventually`; 188,678 states |

Two boards under two keys are what a merge that ends early needs (one clashes or is refused,
the other is not looked at); two saves are what it takes for one to stand in another's place.
`MaxTabs`, `MaxLosses` and `MaxSaves` are the bounds. In `DelegatePromise` a use names the
keys at hand (the owner's, and those of two invitations or exports), how many migrations
there are (two that overlap, and a third without faults), one message, which may be composed
at any point between them, and one fault or two: a refused write, a timeout or a lost
connection.
No fairness is assumed there. Elsewhere a tab that is open
reconnects (`schedule_reconnect` has no limit), its timers and tasks run, and the node
answers what it was sent on a connection that lasts. That an application saves or that the
user does anything is not assumed.

### A board and its contract

| run | what it shows |
|---|---|
| `BoardSync` | `ChangesNoticed`: a change of the user's is in the contract, on its way, sent over a connection that was gone, or not in the baseline and so sent by the next `process_boards`. `SeenWhenIdle`: at rest, a connected and subscribed client shows what the contract has. `ComesToRest`: it does come to rest, connected. 286,427 states |
| `InviteLoop` | violation, see below |

One change of the user's and one of somebody else's are enough: each is either in a state
or not, and the baseline can miss one, the other or both. Init leaves open whether the
board is stored and whether the contract exists. `MaxTroubles` = 1 is the one bound: a
trouble is a connection lost or refused, a timer that runs out with work under way, or a
return to the page. `ChangesNoticed` holds with two troubles also (6.2 million states);
`SeenWhenIdle` does not, see below. Fairness: the event loop runs what is due (`Handle`,
`RunDeferred`), time passes (`Fire`, `Age`), the node serves. The user, the others and the
troubles are not fair.

### The conversation

| run | what it shows |
|---|---|
| `Conversation` | `ViewIsMeaning`: what is shown is what the messages mean, in whatever order they came. `OneReactionEach`: a user's reaction replaces her earlier one, unless both were under way at once. `NothingComesBack`: what was deleted never shows again, and an edit gives way only to a later one. `MessagesFindable`: every message shown can be reached from the front page, if all it is put under or answers is shown. `NothingSlipsBy`: no message of another user that was on no visible page passes for read, is missing in the title of a hidden tab or goes without a notification. `ReadWhenWatched`: what the user looks at does not stay unread. 144,042 states |

Nine workloads, one per question: edits with deletions, categories, reactions of others and
of the user, pages, a private board with and without its secret, and two about attention.
Three messages (four for reactions, since replacing one takes two more) let an action come
before its target, between two others, or after; three switches are away, back and away
again. A message may come any number of times. Fairness: `RunTitleUpdater` is weakly fair, as
the runtime runs an effect that is due; nothing else is.

### The command line client

| run | what it shows |
|---|---|
| `CliCommands` | `CredentialsKept`: keys and authorizations that create and accept reported as stored stay in `boards.json`, unless one command writes what it loaded before another wrote. `MessageArrives`: a message the node took is on the board, unless it is too long, its author is banned, or the stored copy was wrong about the membership. `RepublishRestores`: republishing the copy brings every such message back. `ConfigurationsInOrder`: no configuration overwrites one it was not made from. 917,961 states |
| `CliStream` | `ShownOnce`: no message is written twice. `OldStaysOld`: what was on the board when a subscription began is never written as new. `NoPhantoms`: a message deleted when it was sent is not written, but by the paths listed below. `PollingShowsAll`: polling writes every message on the board. 126,053 states |

Two terminals are what overlapping writes, two messages at once and two configurations
need. Three commands (`MaxCommands`) reach accepting, then a nickname or a first message,
then a second message or a republication; `MaxOthers` = 1 lets somebody else write, ban or
configure at any point in between. One size of message and one of nickname are too long for
the board. No fairness: `CliCommands` is about safety.

For `CliStream` four messages (`MaxTime`) let one be deleted and others come before and after
those already written; two faults are a failed answer and a late one. Fairness: the node
answers (`AnswerGet`, `AnswerSubscribe`) and the client runs until it is stopped (`Client`);
that anybody posts, or stops the command, is not assumed.

### Where the code disagrees with what it says

| run | disagreement |
|---|---|
| `InviteLoop` | the entry of an accepted invitation is never removed, and the client PUTs, subscribes and GETs the board for ever |

Known disagreements and limits that no run is kept for. Each was seen in these models, some
with larger constants or a property of their own:

- Admins appointed on two replicas beyond `max_admins` make both refuse each other for good:
  `admin.rs:88` refuses, while `:118` speaks of trimming, which never happens.
- An invited user's message that is not the first one stored is sent without her membership,
  even if the first one never arrived: the contract drops it and the command reports it as
  sent (`cli/src/api.rs:859`; `:841` says "if the user has been pruned from the members
  list").
- A tab that saves before its stored boards were merged overwrites them
  (`chat_delegate.rs:244`; `board_synchronizer.rs:179` says "Persist to delegate so state
  survives refresh").
- A change made while the board is Subscribing is not sent when it is Subscribed, until
  something else calls `process_boards` (`sync_info.rs:249`; `board_synchronizer.rs:225`
  says "Send updates to the network for any board that has changed locally").
- The command line client: two commands at once may lose each other's entry of
  `boards.json` or break the text, and one killed while it writes leaves a file no command
  can read (`storage.rs:103`). Accepting another invitation to a board replaces the key
  stored for it, the owner's too (`storage.rs:126`). Accepting while the inviter is not on
  the board stores an empty chain, and then every message is refused (`api.rs:602`); killed
  between its two writes it leaves an entry without authorization, with which every message
  is dropped and reported as sent. A nickname is stored before anything checks it: one that
  is too long makes the contract refuse every republication, and one set before the first
  message is reported as updated and replaced by "Member" (`api.rs:1777`, `:900`). A message
  that is too long is dropped and reported as sent (`api.rs:1066`).
  `ensure_board_migrated` ("called automatically", `api.rs:660`) is never called, and could
  not find anything, since `load_boards` corrects the key first.
- A ban delta applied twice may differ from once: with two admins who ban one another the
  cleanup drops one ban, which is then no duplicate (`convergence_tests.rs:6` promises
  idempotency). Of two deltas that share a ban the second is refused whole, and at
  `max_user_bans` the order of two bans decides who is left (`convergence_tests.rs:5`
  promises commutativity).
- A nickname is signed with the version held plus one (`nickname_field.rs:79`), so two devices
  of one user, with an identity exported and imported, sign two with the same version. Every
  replica keeps the one that came first (`member_info.rs:128` takes newer versions only, and
  nothing decides between equal ones), summaries show no difference, and the replicas differ
  until the next nickname, though `convergence_tests.rs:3` asks for "the same result
  regardless of the order in which deltas are applied" and `:10` warns of such ties. One
  device is enough when the user's record was dropped, since whoever comes back counts on from
  the info that came along. Two devices of the owner sign two configurations of one version
  in the same way.
- An upgrade pointer is taken as it comes (`upgrade.rs:81`), though summaries compare versions
  (`upgrade.rs:57`), and the client signs every one with version 1
  (`board_synchronizer.rs:493`): of two, each replica keeps the one that came last. The model
  has one pointer, and `NothingRollsBack` leaves it out.
- Lowering `max_user_bans` leaves the bans in excess until a new one arrives, and `verify`
  refuses such a board.
- A ban by an admin is dropped when the admin is banned, and whom it removed in the same
  update is gone without being banned (`board_state.rs:129` cleans up after the members).
- An invitation accepted while the inviter is unknown or pruned stores an incomplete chain
  (`get_response.rs:245`), and the invitee's messages are refused.
- An invitee of a private board gets no blob of the secret and can never write
  (`board_data.rs:217`, `:364`).
- A board left while a load is under way is merged back (`board_data.rs:775`).
- The migration of an older delegate's boards is marked done before they are saved, when
  the current delegate is empty (`response_handler.rs:529`; `:506` says "Don't mark as
  done").
- Of two saves at once the second returns Ok by the answer to the first
  (`chat_delegate.rs:372`).
- A ConnectionLost of the previous connection, handled late, takes away the newer one's
  `WEB_API` (`freenet_synchronizer.rs:229`); the GET after a subscription is then dropped
  and not sent again. The sync status stays Subscribed when a connection is lost, although
  the new connection has no subscription. After a lost answer to a PUT the board stays
  Subscribing, with no timer that would look at it. An update handed to a dead socket
  advances the baseline and is not sent again (`board_synchronizer.rs:575`). A board in
  status Error is not retried.
- Messages: a private board shows no edit, deletion or reaction after a message of the user's
  own, until the next update from outside. Edits and deletions of other users' categories
  are offered to the owner and the admins (`category_view.rs:66`: "Can edit if user is
  author, owner, or admin"), but edits count only where a private board is rebuilt with
  their permissions, and deletions never. The new title an edit may carry is not used. A
  reply to a deleted message cannot be reached, though `content.rs:204` says that it
  remains meaningful. The form for edits compares the text with the limit and the board the
  encoded message, so that an edit may be dropped in silence. Two quick clicks leave two
  reactions of one user. After viewing a category that is then deleted, new posts go to the
  front page.
- Attention: while the tab is visible no message of another board is counted anywhere
  (`document_title.rs:157`, `:164` show the bare name), and `TOTAL_UNREAD_COUNT`
  (`document_title.rs:153`) is written and never read. When the message read last is gone, the title tells no unread ones
  (`document_title.rs:117`). The first full state notifies of all its messages, though
  `notifications.rs:79` says "don't notify for initial message load". Boards loaded again
  after a reconnect mark the current one as read although the page is hidden
  (`response_handler.rs:386`). A delta delivered again announces its messages again. The
  permission is asked for again as long as it is not answered, though
  `notifications.rs:148` says "Only prompts once per browser".
- Signing: after a migration has failed the client announces local signing
  (`signing.rs:241`), but `sign_*` still asks the delegate, which signs with the key it has.
  `key_migrated_to_delegate` is written and never read. Of two migrations that overlap the
  older key may be stored last, although the newer one reported success. What was signed
  with the wrong key is applied unchecked, and removed by an import only. When the owner
  accepts an invitation to the board she keeps her key, but the invitation's goes to the
  delegate; the same when a load is refused ("self_sk is different") and the stored key is
  migrated.
- Streaming: a notification that arrives while `get_board` waits is taken for its answer and
  lost, and the answer is dropped by the main loop. What is posted between the first fetch
  and the subscription is not written. A message taken out of `seen_messages` "so the
  message can be retried on the next delta" (`api.rs:2267`) is retried only if it is
  delivered again. Edits and reactions in deltas and polls are written as messages. Polling
  writes deleted messages, and with `--initial-messages` older ones as new; a notification
  with the whole state is not checked for deletions.
- `get_response.rs:424` says that ProcessBoards is not triggered, which `mark_needs_sync`
  on the next line does.

## Proofs

The theorems hold for every value of the constants that satisfies the named assumptions in
the modules. TLC evaluates those for the values of the runs, and checked every inductive
invariant as an invariant of a run before it was proved.

### The board and its replicas

For every number of replicas and users, every graph of invitations and every number of
updates under way, from the named assumptions on the constants (finitely many members, the
owner not one of them, `None` not a number):

- `TypeCorrect`: `Spec => []TypeOK`.
- `BoardsSound`: the inductive invariant `IInv`. `TypeOK` and even `Verify` are not
  inductive: a delta computed from one replica carries secrets that are in order only for
  the replica it was computed for, so the invariant says of every update under way that
  it is sound for the board it will be applied to (`UnderwaySound`), and that boards only
  move forward keeps that true (`SoundDeltaLater`). The chain part rests on three lemmas of
  `BoardStateProofs`: adding records with complete chains, removing a banned member with
  everybody below, and pruning all but some authors and their inviters each leave only
  complete chains.
- `NoRollback`: `Spec => NothingRollsBack`, from the same invariant: no older configuration,
  secret, nickname or set of admins.
- `BoardsStayValid`: `Spec => []BoardsVerify` when `BanLimits` holds nothing but the
  initial limit; `IInv` is strengthened by the limit (`LInv`). The assumption is necessary,
  as lowering the limit leaves too many bans.
- `MessagesStaySealed` and `BoardsStaySettled`: `Spec => []PrivateMessagesSealed` and
  `Spec => []BoardsSettled`, from `IInv` with `SInv`: every replica is `Tidy` and sealed, and
  every update under way is sealed for it. `Tidy` names what the cleanup and each field's
  `apply_delta` would still remove; a tidy board is unchanged by an update that says nothing
  (`TidySettled`), and every accepted update leaves a tidy one (`ApplyTidy`). The latter needs
  that the cleanup need not be repeated: whom it keeps for the remaining authors is whom it
  would keep again (`RequiredAgain`), and fewer members are below the banned when there are
  fewer members (`ReachedMonotonic`). A message is sealed with the version that is current
  after the update, which a private board has, and versions are never dropped.
- `WalksFindFixedPoints`: `InviteWalk`'s `Spec => []WalksAgree`, for any finite set of members
  and any graph of invitations, cycles included: the loops find what the models of the board
  take for granted. A walk down has found every member invited by one it already looked at
  (`Descending`), a walk up the inviter of everybody it noted but where it stands
  (`Climbing`, `Chaining`), and neither has found more than the fixed point. That a walk up
  ends in the owner only if its member hangs below her is shown by an arbitrary closed set
  (`Chaining`), since the fixed points are least closed sets. That every
  walk ends (`WalksTerminate`) is left to TLC.
- `PublicBoardsMerge`: `Spec => [](PublicWithinLimit => ReplicasMergeable)`, for boards that
  are public and whose admins, of any two replicas together, are no more than `max_admins`.
  `merge` checks everything again that some replica accepted long ago, against the present
  members, limits and admins, so two invariants say of every replica and every update under
  way that what it holds passes anywhere. `PInv`: the limits no command changes are the
  first ones, whoever banned is the owner, an admin of the same board or above the banned
  (`Justified`), nicknames and titles fit but for the owner's first nickname, which every
  replica has, and a public board has no secrets. `BansApart`: every ban was signed with an
  id of its own, so that `NewestBans` keeps no more than the limit (`NewestWithin`). That
  whoever is above the banned is a member of the merged board follows from complete chains
  (`AboveHeld`).
- `ReplicasMerge`: `Spec => []ReplicasMergeable`, on public boards with no more members than
  `max_admins`. `BoardAdmins` has such constants. Both hypotheses are needed: a private
  replica that rotated its secret refuses messages sealed with the one before, and admins
  appointed on two replicas may together be too many.
- `ProvidedCanPost`: `Spec => [](EveryoneProvided => ParticipantsCanPost)`. `Provided` is what
  a participant's client must have: outside of the members, a kept chain of invitations that
  leads to the owner with nobody banned in it (`InvitedStay`: then the update makes the author
  a member, whoever else is banned) and nicknames that fit; on a private board, membership and
  a secret everybody has. Nothing else about the board makes it refuse its own participant.
- `DirectInviteesCanPost`: `Spec => []ParticipantsCanPost`, on public boards whose members the
  owner invited herself, with nicknames that fit, as in `BoardAdmins`: then everybody is
  provided for, for the invitation kept is the whole chain (`OwnInvitations`).
- `UndisputedMergesCommute`: `Spec => [](Undisputed => MergesCommute)`, for public boards between
  any two of which nothing is in dispute (`InStep`): no two configurations and no two infos of
  a member with the same version, nor more bans on one than the configuration of the other
  permits. What a merge makes of two boards before the cleanup is written down without deltas
  (`MergedBoard`: the newer configuration, the union of what is a set, the newest bans, the
  newest infos); `merge` makes that (`MergedIs`, which needs `Tidy` boards, for a merge that
  brings nothing does not clean up), and it is the same either way (`MergedEither`). The
  proof showed what has to be excluded, and TLC what happens then: with the owner on two
  devices the second nickname violates `MergesCommute`.
- `SteadyBoardsCommute`: `Spec => []MergesCommute`, on public boards whose owner keeps the limit
  of bans and whose members keep one nickname, as in `BoardAdmins`: the same version
  then stands for the same configuration, since commands change nothing but the limit of bans
  (`board.rs:202` of the command line client; `PInv`, `LInv`), no replica has more bans than
  the limit (`LInv`), and the infos there are were signed (`InfosKnown`).

### The chat delegate and what is kept there

For any origins, keys, texts, values and boards, from the assumptions of `ChatDelegate`:

- `DelegateTypes`: `Spec => []TypeOK`: under every name lies what the handlers of that
  name write. It rests on `NamesApart`: no two of the three kinds of names, and no two
  origins' names, are the same.
- `DelegateKeepsPromise`: `Spec => KeepsPromise`. Every action of `ChatDelegate` maps to one
  of `OriginStore`: a store or delete to itself (`StoreMaps`, `DeleteMaps`), an interrupted
  one to `Interrupted` (`InterruptedMaps`), the reads to reads. The type invariant is
  needed, since an index that were not a set of keys would read as empty.

For any boards, user keys, tabs, saves and lost connections, when the two ways to have no
boards stored (`None`, `NotInstalled`) are told apart from boards (`AbsentAssumption`):

- `StorageTypes` and `BoardsStaySaved`: `BoardsStorage`'s `Spec => []TypeOK` and
  `Spec => []SavedUnlessBlind`. The property speaks of the delegate's copy only; what
  keeps it is what is under way (`Secured`). Until a tab has loaded it has sent no save, and
  every answer with the boards still holds all that is owed (`Loading`). After that its own
  boards hold all that is owed, and so does every save it sent, each of which holds what the
  one before it did (`Loaded`): saves may come late, one instead of another, or not at all.

### Signing

For any keys, uses, numbers of migrations, records and faults (`UsesAssumption`), and an
answer `Error` that is not another one (`ErrorAssumption`):

- `SigningTypes` and `SigningKeepsPromise`: the delegate keeps its type and implements
  `OriginStore` also when the signing client uses it: every step of the composition is one of
  `ChatDelegate` or leaves it alone.
- `AuthorsSign`: `SigningSpec => []SignedByAuthor`. `Trusting`: while the client takes the
  delegate to hold a key no migration is running, the delegate holds it and no request to
  store another is under way. `Covered` carries that from the time a record is composed to
  its request and its answer, which come in order. That a migration ends with the delegate
  holding its key is `Lone`: of one that nothing overlapped, an answer with its key is not
  followed by another key.
- `ImportsHeal`: `SigningSpec => []ImportHeals`. `Healing`: during an import the answer that
  confirms the key parts the signatures: those after it are right, and those before it are
  applied before the import removes what cannot be verified.

The proof of `ImportsHeal` corrected the property. With two faults, two accepted invitations
whose PUT fails change the board's identity and change it back while an import runs: that
the identity is the same at both ends does not show it, and a record composed in between
has another author. The history `steady` says that the identity was left alone, and `healed`
demands it. No run reached this, since each use had one fault; one with two was added.

### A board and its contract

For any changes and any number of troubles; `None` is not a set of changes
(`NoneAssumption`):

- `SyncTypes` and `ChangesStayNoticed`: `BoardSync`'s `Spec => []TypeOK` and
  `Spec => []ChangesNoticed`. The property is not inductive and does not depend on the board
  or its status. The invariant is that the baseline, if there is one, holds no own change
  but those the contract has, those in a request under way and those handed to a dead socket
  (`Basis`). `process_boards` sets the baseline to what it sends, or what is lost. A
  notification sets it to the state it carries, which was the contract's at some time: so
  `Heard` says of every note under way that the contract has, or exceeds, what it tells of
  (the contract only grows, also when the connection breaks after any prefix of the
  requests), and that a board is Subscribed only if its contract is there, without which
  an update would be sent and refused.

### The conversation

For any messages, in any number and order, and any workload (`WorkloadsAssumption`,
`UsersAssumption`, `MaxTimeAssumption`):

- `RebuiltIsMeaning`: the fold of `rebuild_actions_state` yields what the messages mean. The
  fold is a recursive function over the ids; the induction is over the set of numbers up to
  which fold and meaning agree (`EveryNumber`), from the fact that a set of numbers has a
  least one.
- `ConversationTypes`: `Spec => []TypeOK`, from the inductive invariant `Sound`: messages are
  about earlier ones, whatever their ids say (`Ranks`), the tasks under way hold messages
  nobody else has (`Apart`), and what the user wrote and applied she has.
- `ShownAsMeant`: `Spec => []ViewIsMeaning`. Every step that changes what the client holds or
  may read folds again, or leaves the meaning alone.
- `DeletedStaysDeleted`: `Spec => NothingComesBack`. With more messages there are more
  deletions, and the last edit gives way to later ones only (`LastGrows`).
- `NewsReachesUser`: `Spec => []NothingSlipsBy`, from `Attentive`: nothing is unseen while the
  user looks, what is unseen is above the read mark, and the title is what
  `update_document_title` makes of the marks and the visibility, unless its effect is due.
- `ReactionsReplaced`: `Spec => []OneReactionEach`. The property speaks of what the client
  shows; the invariant `OneKept` of the messages there are, and of those the task under way
  has yet to add (`SwapsAlone`): a task that is the only one about its message removes what
  was there when it started, and nothing was added since.
- `ShownIsFound`: `Spec => []MessagesFindable`. The pages are a recursive function too
  (`FoundFolds`); by the ranks, what a message is about is found one click earlier.

### The command line client

For any boards, invitations, terminals and numbers of commands, when `None` is told apart
from boards, deltas and requests (`AbsentAssumption`):

- `CliTypes`: `CliClient`'s `Spec => []TypeOK`. `Data` says what a process has in hand at
  each of its steps (`ProcessOK`): a key, a copy of the board, a delta or what it will write.
- `CredentialsStay`: `Spec => []CredentialsKept`. A promise is kept by the file and by every
  write in hand that no other write has overtaken (`Kept`): what such a write replaces the
  file by was loaded after the promise was made, or makes one. After a write none of the
  others in hand is fresh, so that it is enough to follow the one that writes. A file that
  cannot be read ends every command that would still load it.
- `ConfigurationsFollow`: `Spec => ConfigurationsInOrder`. No copy of a board, in the file, in
  a process or in a request, has a newer configuration than the contract, and no delta one
  that is newer by more than one version (`NotAhead`, `AtMostNext`). So a state put over a
  board leaves its configuration alone, and of two deltas made from the same one the second
  is refused. Before a board is at the node all its copies have the configuration it was
  created with. The lemmas on `Apply` and `Merge` are those of `BoardStateProofs`.
- `MessagesArrive` and `RepublishingRestores`: `Spec => []MessageArrives` and
  `Spec => RepublishRestores`, if every published board has bans from above only
  (`BansFromAbove`). The invariant is that every copy of a board, in the file, in a process or
  in a request, is `Orderly`: complete chains, authors that are members, bans from above. Who
  is removed by an update is then barred by it (`RemovedIsBarred`), although the cleanup
  drops bans whose banner is banned: the ban of the topmost stays, and everybody below is
  barred by that (`StillBarred`). The owner's bans and those of `riverctl` are from above;
  an admin of the web client may ban anybody. With one such ban TLC finds `MessageArrives`
  violated: an update that bans the admin removes somebody by the admin's ban and drops the
  ban, so that the author is gone and not barred.

For any commands, messages and faults (`CommandsAssumption`):

- `StreamTypes`: `CliStream`'s `Spec => []TypeOK`.
- `NothingShownTwice` and `OldNeverNew`: `Spec => []ShownOnce` and `Spec => []OldStaysOld`.
  What is written, and what the first answer of a subscription held, is in `seen_messages`
  (`Remembered`); the one message that is taken out again, after its fetch has failed, was
  neither written nor in the first answer. `Courses` says which requests and answers may be
  under way at each point of the program: `get_board` takes whatever comes first for its
  answer, so without it an early answer might be taken for the first.
- `NoPhantomsShown`: `Spec => []NoPhantoms`. A message written from a delta was not deleted
  when the delta was sent. Every fetch takes one answer for the oldest message of the delta
  that is left, and writes it unless that answer says it was deleted. The socket is in order
  and what the board has deleted only grows (`GoneGrows`), so whatever is taken for the answer
  after a delta says at least what was deleted when the delta was sent (`Trails`, `Ordered`),
  however late it is and whichever request it was meant for.

### What stays with TLC

- Liveness under fairness, which the prover cannot reason about: `EventualAgreement`,
  `WalksTerminate`, `SavesReturn`, `LoadsEventually`, `ComesToRest`, `ReadWhenWatched` and
  `PollingShowsAll`.
- What does not hold for all values of the constants, beyond the hypotheses above:
  `MergesCommute` (versions signed twice, limits lowered; private boards, where TLC found no
  counterexample, are left out of the theorem), `ReplicasMergeable` and `ParticipantsCanPost` (private boards,
  admins beyond `max_admins`, invitees whose inviter is gone or banned), and `SeenWhenIdle` with
  two troubles.

## What is not modelled

- Ciphers, encodings, the text forms of keys, invitations and identities: pure functions over
  bytes, of which the modules use what they promise. The export of an identity reads only.
- `ensure_board_migrated` of the command line client, `tab_detection.rs` and
  `conversation/message_actions.rs` of the web client: nothing calls them.
- The delays shown with messages, and lists of boards and members of the command line client.
- Forged signatures, several tabs at once, several boards in one model of the web client,
  the migration of a board to a new contract key, deltas partially applied in a client's
  memory, durations and back-off.
- Rendering and form fields: no state that outlives a form.

## Plan

Done: the board and its replicas; the delegate and signing through it; the boards kept
there; a board and its contract; messages and the conversation; the command line client,
streaming included; and the theorems above. What is left: the merges of
private boards, and the migration of boards to a new contract key.
