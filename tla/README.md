# Agentenzentrale in TLA+

A verification development of Agentenzentrale, the web program of this
repository that puts several opencode workers behind one login. The modules
model the program's control: which handler does what, in which critical
section, and what happens when handlers, tabs, workers and crashes interleave.
TLC checks them on small instances. TLAPS proves every safety property for
every value of the constants, and five of the six liveness properties from an
assumption on what is enabled that section 4 states.

## 1. Inventory

| Component | Code | State | Operations | What is hard |
|---|---|---|---|---|
| Login limiter | `src/auth/mod.rs` | a `Vec<Instant>` per address, in memory | `check`, `record_failure`, `record_success` | check and record are separate critical sections; pruning happens in `check` only; a restart forgets |
| Accounts, sessions, invites | `src/web/mod.rs`, `src/auth/mod.rs`, `src/db.rs` | tables `users`, `sessions`, `invite_tokens`; limiter | `/setup`, `/login`, `/logout`, `/invites`, `/invite/:token`, the extractors | each handler is several statements with no transaction around them; requests interleave, statements fail, the process restarts |
| Sending a message | `static/chat.js`, `templates/session.html`, `session_message`, `send_text_async` | editor, htmx's request and queue, handler, spawned task; the worker's session | type, submit, answer, abort by disconnect | two network hops, timeouts, an ignored status, a fire-and-forget fallback, answers that arrive after further typing |
| Live refresh | `static/chat.js`, `session_thread`, `worker_events` | displayed thread, its open tool blocks, debounce timer, status bar, SSE connection | event, refresh, poll, swap, toggle | answers overtaking each other, dropped connections, records kept over a swap, eventual consistency |
| Composer tools, context chip | `static/chat.js`, `worker_tools`, `session_status`, `list_models`, `default_model` | selectors, chip, polls under way | fill, select, post, poll | polls that overtake each other, a selector filled late or never, partial answers |
| Worker registry | `src/web/mod.rs`, `src/db.rs` | table `workers` | create, edit page, update, delete, test | stale rows across forms and awaits, updates racing with deletes |
| Data directory | `src/main.rs`, `src/crypto.rs`, `Db::open` | key file, database with WAL, certificate pair | start, migrate | a crash between two file operations |
| Thread rendering | `src/agent/render.rs`, `build_thread` | none | pure functions | – (text of one answer) |
| Encryption, tokens | `src/crypto.rs` | the key | `encrypt`, `decrypt`, `new_token`, `hash_secret` | – (cryptographic data) |
| Worker sessions | `worker_sessions`, `worker_new_session`, `src/agent/opencode.rs` | none of this program | list, create, get | the row copied before the calls |
| Configuration, router, TLS, templates | `src/config.rs`, `src/main.rs` | constants | – | – |

How they interact: browsers call the handlers; every handler that needs a user
goes through `CurrentUser` or `AdminUser`, which read `sessions` and `users`;
`login_submit` is the limiter's only caller; `Db` guards one SQLite connection
with a mutex that is taken for one statement at a time; the chat handlers read
a worker's row, build an `OpencodeBackend` from it and call the worker over
HTTP; the composer and the thread are htmx requests of two elements of one
page.

What makes each component correct:

- **Limiter**: the overshoot over the limit is bounded, a throttle ends.
- **Accounts**: the rows a handler relies on after its check remain; the checks
  that can become false under a handler are bounded in what they let through:
  setup's admins, an invite's accounts, a session's requests; invites come from
  admins, members from invites; a used invite gave an account; accounts do not
  change; somebody can always administer.
- **Sending**: a message is stored at most once per request, one that the
  composer was told is sent is lost only where the worker refused it or the
  spawned task ended before sending it, errors do not cost the user the text, no
  composer waits for ever.
- **Live refresh**: no event is forgotten between its arrival and the next
  listing; the thread goes back to an older listing only where two elements'
  answers overtake each other; it catches up with the worker once everything
  stays up; a tool block stays as the user left it; the activity bar does not
  stay for ever.
- **Composer tools**: the chip's number goes back only where polls overtake each
  other, an answer brings none, or a usage is gone that nothing in the window of
  50 messages makes up for, and settles; a message carries the model the
  user chose, never a preselection.
- **Registry**: handlers that look up and update in two statements still change
  the table as one with atomic operations would; a blank password field keeps
  the password stored now; a call uses one row's address and password, and the
  calls with a row that was replaced or deleted run out.
- **Data directory**: whatever crashes, every stored password can be decrypted
  with the key on disk, a server that is up has the whole schema and every
  committed item, certificate and key belong together, what one start has
  completed no later one changes, and a start fails for ever only on a torn
  file.

## 2. Modules

| Module | Models | Checked by | Proved in |
|---|---|---|---|
| `LoginLimiter` | the limiter and the protocol of its caller; the abstract specification of logins | `MCLoginLimiter` | `LoginLimiterProofs` |
| `Accounts` | setup, login, logout, extractors, invites, claims; instantiates `LoginLimiter` | `MCAccounts` | `AccountsProofs` |
| `Chat` | composer, `session_message`, `send_text_async`, the worker as their environment | `MCChat` | `ChatProofs` |
| `Registry` | the abstract specification of the workers table: atomic operations | through `Workers` | through `WorkersProofs` |
| `Workers` | create, edit, delete, the calls of a handler and its task with a copy of a row; implements `Registry` | `MCWorkers` | `WorkersProofs` |
| `Thread` | the chat page's refresh: EventSource, debounce, poll, swaps of two elements, tool blocks, activity bar | `MCThread` | `ThreadProofs` |
| `ChatTools` | the model selector, what is posted, the status polls and the context chip | `MCChatTools` | `ChatToolsProofs` |
| `DataDir` | start-up as file operations and statements, with crashes | `MCDataDir` | `DataDirProofs` |

Operators with a name ending in `_M` are deliberate mistakes; no action uses
them. Each stands before the definition it would replace, to show that some
property notices it.

### LoginLimiter

`attempts[ip]` is the `Vec<Instant>` of an address: a function from marks (the
identity of an entry) to ages. An age counts ticks and stops at `Window`, where
an entry has expired. `trying[c]` is the address a login passed `check` for
until it reports. `CheckPasses`/`CheckRefuses` are `check` with its two
verdicts, both prune (`Retain`); `RecordFailure` and `RecordSuccess` are the
two reports, `Abandon` a login whose user lookup fails (500, no report),
`Restart` the loss of the map.

### Accounts

Each statement of `Db` is one action, since `Db` takes its mutex per statement.
`req[r]` is the activation of a handler: its program counter and the locals
still in use.

| Handler | Actions |
|---|---|
| `setup_submit` | `SetupCount`, `SetupInsert` / `NameTaken` |
| `login_submit` | `LoginCheck` / `LoginThrottled`, `LoginLookup`, `LoginWrong` / `LoginRight`, `LoginSession` |
| `logout` | `Logout` (its failed statement is a stutter) |
| `CurrentUser`, `AdminUser` | `AuthSession`, `AuthUser` |
| `invites_create` | `AuthSession`, `AuthUser`, `CsrfRefused` / `Disconnect` / `InviteInsert`, `InviteList` |
| `invite_page` | `InvitePage` |
| `invite_claim` | `ClaimValid`, `ClaimInsert` / `NameTaken`, `ClaimConsume` |

`DbFails` is a statement that fails before any effect, `Restart` a crash,
`Expire` and `Tick` the clock. An early return that changes nothing (a form
that is incomplete, a missing cookie) is a stutter. `via` is a history
variable: the invite an account came from. So is `cut`: the accounts whose claim
ended, by a failure or a restart, before `consume_invite` ran. Tokens are values never returned
before; a hash is the identity of its token.

`Unreadable` is the set of invites that `invite_valid` fails on, since rusqlite
refuses to read a NULL column as a `String`. In the program as built these are
all pending invites, and claims cannot happen (see section 5). The run
`accounts` has one unreadable invite and one readable one, so that it also
examines the claim protocol the code contains, which the program would follow
once that read is right. The theorems hold for every such set.

### Chat

A tab has an editor, at most one composer request (`waiting`) and one submit
htmx 1.9.12 holds back (`queued`, its default queue strategy `last`; a later
submit replaces it and the form is read when it is sent, so one flag with an
identity is enough). `stage[p]` says where `session_message` is for post `p`,
or what it answered: `thread` (200), `banner` (200 with "Failed to send"),
`login` (the login page a 303 leads to, 200 again), `error` (4xx/5xx), `over`
(handler gone). `Settle` is `htmx:afterRequest` followed by the submit held
back, in that order, as htmx does it.

The worker is external: it stores a prompt (`PromptTaken`), lacks the endpoint
(`PromptMissing`, after which a spawned task sends the body to `/message`),
refuses with another status (`PromptRefused`, which `send_text_async` reports
as Ok) or gives no answer in time (`PromptFails`, having stored the message or
not). `HangUp` is a connection the browser loses while the handler may go on;
`Cancel` is the server noticing; `Crash` ends handlers and spawned tasks.

A message whose task has sent nothing is in `fallbacks`, one it has sent to
`/message` in `asked`, and one that was sent and whose answer nobody waits for in
`late`, from where the worker may still take it (`LateTaken`). What comes of the
task is dropped: its connection may fail (`FallbackFails`), its request be stored,
refused or left unanswered (`FallbackAnswers`). The histories `refused` and
`dropped` name the posts whose message is lost for certain, by a status of the
worker or because the task ended, with its connection or with the process, before
anything was sent. A request that is cut off may or may not have left
(`CutOff`). `Leave` is
the tab that goes elsewhere with a request under way, by a link, by reloading
or by following Abort's redirect (`session_abort` changes nothing here): the
text is given up, the handler goes on.

Left out of Chat: which model a post carries (module `ChatTools`), the thread's
own refresh (module `Thread`, where the composer's request is one of the two
that replace the thread), and attaching a file, which writes into the editor.

### Workers and Registry

`workers` is the table, `req[r]` a handler that holds something over a critical
section: the form of `worker_update` between `worker_by_id` and
`update_worker`, or the row that the calls to a worker are made with.

| Code | Actions |
|---|---|
| `workers_submit`, `create_worker` | `WorkersSubmit` |
| `worker_update`, `update_worker` | `WorkerUpdate`, then `Update` (`UpdateRow`, or `UpdateMisses` when the row is gone) or `UpdateFails` |
| `workers_delete`, `delete_worker` | `WorkersDelete` |

| `worker_by_id` and `backend_for` in `workers_test`, `session_*`, `worker_*` (listing, creating and opening sessions included) | `BackendFor` |
| their calls, one to three in a row | `CallBegins`, `CallEnds`, `HandlerEnds` |
| the task `send_text_async` spawns | `PromptMissing`, `TaskSends`, `TaskEnds` |

A row's name, kind, url and username are one value `meta`, as every statement
writes them together; the password is `secret`, encrypted and decrypted with
one key, so its identity is enough. `last` and `past` are history. Which handler
it is tells only how many calls it makes (`Plan`): the calls begin long after the
row was copied, and the task's with a clone of the same address and password. An
activation ends with its handler and its task. A form with
an empty name, url or password (the last one only when creating) is a stutter.

### Thread

A listing is represented by the number of messages in it; the model holds
enough of a page to say which listing is shown. `get` is the request of
`#thread` (`none`, `sent`, then its answer `listed`, `error` or `login`),
`held` htmx's one queued request, `post` the composer's request, whose answer
replaces the same element. `Listed` is taken when the handler asks the worker,
`GetArrives` and `PostArrives` are the swap, later and in any order. A request
remembers what was shown when it was issued (`base`, history).

A listing brings the last `Window` messages, each with one tool block; blocks of
`Named` messages have a callID and hence an id. `open` is what is open on the
page and `openTools` what chat.js has recorded. `Swap` is `htmx:beforeSwap`, the
swap itself if the status is below 400, and `htmx:afterSwap`; an error answer is
announced and not swapped, so its record stays, and a lost connection is not
announced, hence the choice.

| Code | Actions |
|---|---|
| `session_page`, `load` trigger, the script | `Load`, in `Init` and `Reload` |
| `worker_events`, `OpencodeBackend::events` | `Connect`, `ConnectRefused`, `Drop` |
| `scheduleRefresh`, its timeout | `EventArrives`, `Debounce` |
| `hx-trigger="every 5s"` | `Poll` |
| `session_thread` | `GetListed`, `GetFails`, `GetLogin`, `GetArrives` |
| `session_message` as seen by the thread | `Submit`, `PostListed`, `PostFails`, `PostLogin`, `PostArrives` |
| `setWorking`, its timeout | `SetWorking`, `BarTimeout` |
| the user at a `<details>` block | `Toggle` |

`env` is what handlers meet: the worker answers, it or the connection fails, or
the browser's session has ended. The `error` events of the relay start no
refresh and are left out. Timers carry no time: a debounce of 600 ms, a poll of
5 s and a bar of 2.5 s are timers that may run out at any moment.

### ChatTools

Of the session's messages the model keeps the usage of each that a status asks
for (`window`, the last `Window` of them; 50 in the code). A usage has one of the
two forms `message_usage` knows: the session's total so far, which grows from
message to message as the comment in `session_status` says (`TotalsGrow`), or the
sum of input and output of that one message, which does not. `Message` pushes the
oldest usage out of the window, `Count` fills one in or changes it during its turn.
`Reported` is the greatest one, what `session_status` answers. `forgotten` is
history: the greatest usage that is gone while nothing in the window makes up for
it. 0 tokens are not told apart from no tokens, as the chip shows nothing for
both. Every poll has a
slot of its own: it is issued (`PollStatus`), answered (`StatusListed`, or
`StatusFails`) and delivered (`StatusArrives`) independently of the others.

| Code | Actions |
|---|---|
| `fetch(data-tools)`, `worker_tools`, `list_models`, `default_model` | `ToolsArrive` (any part of it may have failed), `ToolsFail` |
| preselection, `applyModel` | `Preselect`, `ApplyModel` within it |
| `change` of the selector | `Pick` |
| `htmx:configRequest` | `Submit` |
| `pollStatus`, `session_status`, `message_usage`, `renderCtx` | `PollStatus`, `StatusListed`, `StatusFails`, `StatusArrives` |
| the timeouts of `OpencodeBackend::new` | `TimePasses`: every poll that was under way when it happened last has been delivered |

The agent selector follows the same rules without a context, so it would double
the model and say nothing more. The `busy` flag is read by nothing in the page.

### DataDir

`pc` is the next operation of `main`; each is one action, named after what it
does. A file is `Absent`, `Torn` (created or truncated by `std::fs::write` and
not yet written) or a number, the identity of the random value in it. A
database is the set of items committed to its main file (`db`, `oldDb`) and to
its log (`wal`, `oldWal`): the tables, kv's key, the `username` column, and a
row per worker, tagged with the key its password was encrypted with. `kvKey` is
the value that `migrate` has stored in kv as `encryption_key`; nothing reads it. SQLite
reads main file and log together (`Visible`) and moves pages at a `Checkpoint`.

`Init` is an empty directory, or any that the program may have left under its
old name: `.q-key` and `q.sqlite` with or without the column, with rows in the
main file or in the log, or everything still in the log. `Crash` ends the
process before any operation, which also stands for an operation whose error
`main` returns. `RenameWalFails` is the rename whose result the code drops.
`separated` records that a crash or such an error has come between the two
renames. `set_permissions` after the key is written is left out: no property
depends on it, and a crash before it is one after `WriteKey`.

## 3. Runs

| Run | Question | Instance | Properties |
|---|---|---|---|
| `limiter` | is the overshoot bounded, and does a throttle lift? | 2 logins, 2 addresses, 3 marks, limit 2, window 2 | `TypeOK`, `AttemptsBounded`, `ThrottleLifts` |
| `accounts` | do accounts, sessions and invites survive concurrency, failure and restart? | 2 requests, 2 names, 2 tokens, 2 invites (one unreadable), 1 address, limit 1 | `TypeOK`, `AdminsBounded`, `ClaimsBounded`, `SomeAdmin`, `CheckedRowsRemain`, `MembersWereInvited`, `UsedInvitesGaveAccounts`, `ClaimsClose`, `SessionsClose`, `LimiterProtocol` |
| `chat` | sending with unreliable worker, connection and server | 2 tabs, 2 posts, 1 text | `TypeOK`, `StoredOnce`, `SilentLossesNamed`, `ErrorKeepsText`, `Answered` |
| `workers` | do look-ups and updates in two statements behave as an atomic table, and what do calls use whose row has changed? | 2 workers, 2 requests, 2 descriptions, 2 passwords | `TypeOK`, `PasswordIsLastGiven`, `CallsUseOneRow`, `StaleCallsRunOut`, `ImplementsRegistry` |
| `thread` | is an event lost, does the thread go back, do blocks stay as they are, does it catch up? | 2 messages, window 1, 1 block with an id | `TypeOK`, `EventNotLost`, `BackOnlyByOvertaking`, `OnlyUserToggles`, `CatchesUp`, `BarSettles` |
| `chat_tools` | is the chip right in the end, and whose choice is the posted model? | 2 polls, 2 models (one with a context), window 2, 0 or 1 tokens | `TypeOK`, `ChipBackOnly`, `ChipSettles`, `PostedIsPicked` |
| `datadir` | what does the next start find after crashes? | 3 crashes, 2 workers | `TypeOK`, `SecretsReadable`, `SchemaComplete`, `CommittedVisible`, `PairMatches`, `FirstRunOnly`, `StartsUnlessTorn` |
| `accounts_setup` | is there one account from setup? (no) | 2 requests | `OneAccountFromSetup` |
| `accounts_invite_link` | does a pending invite open? (no) | 2 requests | `PendingInviteOpens` |
| `chat_failed_send` | does a failed send keep the text? (no) | 1 tab, 2 posts | `FailedSendKeepsText` |
| `chat_type_ahead` | is a submit during a request handled? (no) | 1 tab, 2 posts | `QueuedSubmitIsSent` |
| `datadir_kv_key` | does kv's key encrypt the passwords? (no) | 3 crashes, 2 workers | `KvKeyEncrypts` |

Why the bounds are enough: `AttemptsBounded` itself says that a `Vec` holds at
most `MaxAttempts - 1 + |Client|` entries, so three marks cover two logins at
limit 2. Two requests let two setups pass the count, and a claim run into
another one of the same or of a different invite, into setup for the same name,
or into the end of its session; two tokens let an admin and a member be signed in
together. Two posts and two tabs give a submit held back, a retry after an error, and an
answer to the other tab. Windows longer than two ticks only repeat the middle
age. Two requests on two workers let an update meet a delete, another update of
the same or of the other worker, and a handler with up to three calls and a task.
One text is enough where a property asks whether an editor was emptied. With two messages three listings
exist, so an answer can be older than what is shown and newer than what was
shown when it was asked for; one of the two blocks has an id and one has none, and
the window of one cuts the older block off, which an overtaken answer brings back.
Two polls are the least that overtake each other; in a window of two a total can
follow a sum or stand before one, and with 0 or 1 tokens a greater number is
forgotten when its message leaves. Three crashes allow
one in a start that repairs what another one left and one after it; two workers
put one row into the old main file and one into its log. The proofs remove these
bounds, for safety and for most of the liveness.

Deadlock is checked in every run: the clock, expiry or the user can always
step.

Symmetry is used in `accounts` and `workers`, which check no liveness; requests,
names, tokens, workers, descriptions and passwords are compared with nothing but each
other.

**Fairness.** `LoginLimiter!FairSpec` assumes `WF(Tick)`: time passes. Nothing
is assumed of clients. `Chat!FairSpec` assumes weak fairness of the server's
own steps before the worker is called and after it was
(`Redirect \/ Refuse \/ Admit`, `Apologise`), which tokio runs; of the two
timeouts, since `OpencodeBackend::new` sets 300 s on every call (`PromptFails`,
`ListFails`); and of the browser's callbacks (`Receive`, `Reset`). The worker's
answers carry no fairness: it may be silent for ever. `HangUp`, `Cancel`,
`Crash` and the users carry none either. `Thread!FairSpec` assumes that the
browser runs its timers (`BarTimeout`, `Debounce`, `Poll`) and delivers what
has arrived (`EventArrives`, `GetArrives`, `PostArrives`), and that requests
are answered somehow, by the client's 300 s at the latest; connecting, events,
messages and users carry none. `CatchesUp` has its condition in the formula:
worker, connection and session stay up from some moment on.
`ChatTools!FairSpec` assumes that the interval runs, that what has arrived is
delivered, and that a poll is answered or fails, by the client's timeouts at the
latest; `ChipSettles` has its condition in the formula as well. `TimePasses` is
not fair in the run: TLC finds `ChipSettles` for two polls without it. `DataDir!FairSpec`
assumes that a process that runs makes its next step and that one that has
ended is started again, by whoever runs it (`StartStep`); crashes are bounded.

## 4. Proofs

`LoginLimiterProofs`: `TypeCorrect`, then `BoundHolds`. `AttemptsBounded` is
inductive with `TypeOK` because it counts the logins in flight together with
the entries: a check that passes adds a login where there were fewer than
`MaxAttempts` entries, a failure turns a login into an entry. The finite-set
facts are `FS_*` of the library.

`AccountsProofs`: the inductive invariant is `IInv == TypeOK /\
CheckedRowsRemain`. Type correctness alone is not inductive: `AuthSession` takes
the owner of a session, `InviteInsert` the user of an activation, and their
types say nothing about rows. That a row is still there in a later
critical section rests on what handlers never undo: accounts are only added,
`is_admin`, `created_by` and `used_at` are never cleared (`Accumulates`), and a
token is never issued to a second account.
`Vouched` adds what the history of invites needs: admins exist, creators are
admins, used invites have accounts. `AdminsInv` counts activations on their
way into setup with the admins; with it `AdminsBoundedHolds` is an argument on
cardinalities like the limiter's. `ClaimsBoundedHolds` is the same for each
invite: while it is unused, every account it has given (other than those cut off)
has its request at `claim_consume` (`ConsumerStays`), so accounts and claims
together are no more than requests (`RequestsBound`); once it is used, no claim
starts (`JoinedMoves`). `ClaimsClose` and `SessionsClose` are action properties, from `Writers` and `Arrivals`: which
action can bring a request into a given stage. `LimiterProtocolHolds` is the
refinement: under the mapping `Trying`, every step of `Accounts` is a step of
`LoginLimiter` or a stutter. `LimiterBoundHolds` takes the limiter's bound over:
`LoginLimiterProofs` is instantiated under the same mapping (`SameLimiter` says
that the two instances are one), and its lemma `BoundNext` does for the steps of
`Accounts` what it does for the limiter's own.

What is proved about `Accounts` and not run: `AccountsFinalHolds` (no step changes
an existing account), `InvitesFromAdminsHolds`, on which
`MembersWereInvitedHolds` rests, `InviteesAreMembersHolds`, and three theorems that
say how far the first two findings of section 5 reach. `OneAtATime`: with one
request at a time setup makes one account, so the second admin is the work of
two handlers that overlap and of nothing else. `UnreadableHolds`: whatever
invites `invite_valid` fails on, none of them is ever claimed. `NobodyJoins`: if
these are all invites, as they are in the program as it is built, every account
is an admin that setup made, and no invite is ever used.

`ChatProofs`: `StoredOnce` needs `Untouched` (until a post is prompted the
worker knows nothing of it, and a message that is stored has no fallback under
way) and `Held` (a post htmx holds back is held by one tab, so no post is sent
twice). `SilentLossesNamedHolds` follows each post from its prompt to the page:
every way out of the prompt that ends in a page of status 200 leaves a stored
copy, a task, a request on its way, or a refusal; and of these places a post is in
one at most, so what was refused or dropped is nowhere else.
`ErrorKeepsTextHolds` needs only types.
`AnsweredHolds` follows a post from stage to stage (`StageMoves`: none is entered
twice) to the answer that settles its tab; `Posted` adds that a tab waits only for
a post that was sent, so settling it never makes it wait for the same one again.

`WorkersProofs`: `IInv` is `TypeOK`, `PasswordIsLastGiven`, `CallsUseOneRow` and
`StoredIsPast` (the row in the table is one of its history), which the second
and third need. `StoreKeeps` and `ContinueKeeps` say what storing a row and
changing an activation keep, so an action's proof says only what it stores.
`ImplementsRegistryHolds` maps `WorkersSubmit` to `Add`, an `Update` that finds
its row to `Change`, `WorkersDelete` to `Remove` and every other step to a
stutter; it needs `IInv` for the types of what an activation holds.
`StaleCallsRunOutHolds` shows for each step what it owes to a row that is not the
current one: `BackendFor` copies the current one, and every other step of a handler
or of its task keeps or uses up what there was, the prompt's fallback counted from
the start.

`ThreadProofs`: `EventNotLost` is inductive with the types. For
`BackOnlyByOvertaking` a listed answer must be no older than what was shown
when it was asked for: `Later(request)` says `base <= listing`, which holds
because the log only grows. A swap that goes back then cannot have its base on
the screen. `OnlyUserTogglesHolds` needs of the old record only that `Swap` never
reads it: what is open after a swap was open before it and has an id.
`BarSettlesHolds` needs `BarTimed`, that a bar on the screen has a timer.
`CatchesUpHolds` first waits for the answers that are `Old` to be delivered: while
everything is up no new ones come (`FreshGets`, `FreshPosts`). Then nothing takes a
thread back that has caught up (`StaysCaughtUp`), and one round of the poll
(`Round`) is enough.

`ChatToolsProofs`: `ChipBackOnly` rests on `Growing`: the window has a usage at least
as great as the chip shows and as any poll under way has found, or such a usage is
forgotten (`Known`). No message and no count takes that back (`NothingLost`): a usage
that is gone is forgotten, or a total in the window grew from it (`MissKnown`).
`PostedIsPicked` rests on `Chosen`, that a changed selector shows the user's last
choice and is never filled again. `ChipSettlesHolds` is about any number of polls. When
time passes after the session has come to rest, the polls that are not marked are
idle, so what is issued from then on finds the session's usage (`Settling`); when it
passes again the marked ones have been answered, and every answer is fresh
(`AnswersGetFresh`). Then one more poll is enough (`PollShows`). That time passes
again and again is the theorem's hypothesis `TimeGoesOn`. From the fairness of each
poll and strong fairness of `TimePasses` it would need an induction over the polls.

`DataDirProofs` has four invariants over `TypeInv` (the key and the pair in
memory are those of the files, at every stage). `SecretInv`: every row on disk
carries the key on disk; a new key is made only where no key exists, and then
no rows exist. `LogInv`: which of the two names exists at which stage, and that
the old log is empty once the renames are over and nothing was separated.
`SchemaInv`: what each stage of the migration has reached. `PairInv`: the TLS
key is only written after the certificate of its own generation.
`FirstRunOnlyHolds` is an action property from `TypeInv` (the key), `PairInv`
(the certificate) and `LogInv` (a database with a schema has its new name).
`StartsUnlessTornHolds` leads the start through its stages: `Way` is where a step
that is no crash and finds no torn file may go, `StartProgress` what a step of the
start brings about, table by table in the migration. `TornStays` is the other
case: a file that was left torn is torn for ever.

**Liveness.** The prover knows nothing of `ENABLED`, and weak fairness is about
it. Each module with such a theorem therefore states in `FairStepsReady` where
the fair steps can be taken: wherever their guards hold. The theorems have the
form `FairSpec /\ []FairStepsReady => Property`, and nothing else about
`ENABLED` is assumed; what each step does, which steps could undo it, and how the
steps lead to the goal is proved. `FairStepsReady` is true in every reachable
state: every step it names writes a new value wherever its guard holds, and as an
`INVARIANT` under the cfgs `MCThread`, `MCChat`, `MCChatTools` and `MCDataDir`,
which do not list it, TLC finds it to hold. When TLC checks the same liveness
properties it computes `ENABLED` itself. Three theorems have one more hypothesis,
whose own proof would be an induction: that from some moment on the worker
adds no message (`CatchesUpHolds`, for `MaxLog`), that crashes end
(`StartsUnlessTornHolds`, for `MaxCrashes`), and that the polls under way at any
time are all answered later (`ChipSettlesHolds`, for a number of polls that is not
bounded: a poll is issued every 1.8 s and may take up to two calls of 300 s).

The assumptions are those of the modules: finite sets of requests and clients,
positive limit and window, `None`, `NoIp` and `Empty` outside the sets they
are no members of.

Only model-checked: `ThrottleLifts`, which needs an induction over the window, and
the `ENABLED` facts of `FairStepsReady`.

## 5. Findings

- **Two admins from setup** (`accounts_setup`): `setup_submit` counts and
  inserts in two critical sections.
- **Pending invites do not open** (`accounts_invite_link`): `invite_valid`
  reads the NULL `used_at` as a `String`, an error that becomes a 500. No
  invite can be claimed.
- **A failed send clears the text** (`chat_failed_send`): the error page has
  status 200, so the composer takes it for success. `chat.js:51` promises the
  opposite. The same happens when the session has ended (the login page is a
  200 as well) and when the worker refuses the prompt.
- **Typing ahead is lost** (`chat_type_ahead`): Enter submits while a request
  is in flight although the button is disabled; the answer to that request
  clears the editor and the held-back submit is empty.
- **kv's key encrypts nothing** (`datadir_kv_key`): `db.rs:74-76` calls the
  `encryption_key` that `migrate` generates the key for worker passwords, separate
  from the key file. The handlers encrypt and decrypt with the key file's, and
  nothing reads kv's. So a copy of the key file is what a backup needs, and there is
  nothing to rotate in kv. That comment and the header of `crypto.rs` also still call
  the key file `.q-key`.

Seen while modelling, without a run of their own:

- The dashboard's Delete button does not delete: its form (`index.html:31`) has no
  `_csrf` field, which `CsrfForm` requires, so the request is refused before
  `workers_delete` runs. It needs no model to see: it is so in every state.
- A message is lost after a page of success, and the editor with it, when the
  worker refuses the prompt, or when the spawned fallback cannot connect or dies
  with the process (`refused` and `dropped` of `Chat`); `chat.js:51` promises the
  text is kept. `SilentLossesNamed` says that there is no other way.
- Handlers go on calling a worker that was deleted or given another address, with
  the row they copied (`StaleCallsRunOut` bounds that).
- Without `tokens.total` the chip shows the greatest message of the last 50, no
  total, and goes down when that message leaves the window (`ChipBackOnly`).


- An `EventSource` closes for good when a reconnect is answered by a 500 or by
  the login page, where `chat.js:319` expects it to come back. `CatchesUp`
  holds regardless, by the poll.
- A claim ignores what `consume_invite` says, so two claims of one invite would
  each create an account once `invite_valid` is mended; `ClaimsBounded` says how
  many.
- A crash or an error between the renames of `q.sqlite` and of its log loses
  the log's transactions to every later start; `CommittedVisible` excepts
  exactly that (`separated`).
- A key file that was created and not written ends every later start
  (`StartsUnlessTorn` excepts it). No password was encrypted with it, so
  removing the file is safe (`SecretsReadable`), but only a person can do it.
- A deleted worker's update answers with success (`UpdateMisses`).

## 6. Plan

1. A composition of `Chat` and `Thread`: one page with both elements, so that
   the composer's answer and the editor are related to what the thread shows.
2. `Db` under several processes on one directory (`busy_timeout`), if a property
   is found that the code promises.
3. Proofs: the composition of item 1, and `StartsUnlessTorn` and `CatchesUp` from
   the bounds `MaxCrashes` and `MaxLog` themselves, should the prover learn
   induction over data.

## 7. Not modelled

Cryptography (`crypto.rs`: tokens are fresh values), the text that
`agent/render.rs` makes of a message (markdown, highlighting and sanitising are
library calls; truncation, descriptions and diffs are functions of one part of a
message without state), what the session lists show (single reads; the calls
themselves are `BackendFor` of `Workers`), scrolling, copy buttons and file
drops of the page, configuration, TLS and routing (constants and wiring),
templates' layout.

Hazards without a property are listed with their reason: a listing that fails
after the invite was created, or after a message was sent, leaves nothing the
code promises anything about; the same holds of a logout whose statement fails;
and whether the status bar's observer triggers itself is decided by the
browser's DOM.
