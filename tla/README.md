# A TLA+ model of the Nexus backend

Nexus is the backend of a chat application: a NestJS server over Supabase
(Postgres), Redis, Socket.IO and LiveKit. Several instances of the server run
side by side; what must be atomic is a stored procedure in Postgres or a Lua
script in Redis, and everything else is a sequence of awaited requests that may
interleave with anything. The models here are about those interleavings.

Paths are relative to the repository; `migrations/` is
`src/supabase/migrations/`, `modules/` is `src/src/modules/`.

## Inventory

| Component | State | Operations | Interacts with | Hard behaviours | What makes it correct |
|---|---|---|---|---|---|
| Direct calls, database (`migrations/20260825160000`, `20260826160000`, `20260828000000`) | `direct_calls`, `direct_call_active_users`, `direct_call_room_cleanup_outbox` | start, answer, decline, cancel, end, mark connected, expire, block | blocks, friendships, DM conversations (cascade) | two-step procedures under advisory locks, rows read without locks, rollbacks, cascade deletes | the busy table agrees with the calls; nobody in two calls; no active call across a block; a status never comes back; every finished call has a cleanup job |
| Advisory locks (same migrations) | lock table, transactions | lock lesser, lock greater, commit | six procedures | lock order, hashed keys | a pair is locked as one; deadlocks only by colliding keys, and found; no starvation |
| Room cleanup worker and tokens (`modules/direct-calls/direct-call-cleanup.worker.ts`, `direct-call-token.service.ts`) | outbox rows, batches in memory, tokens, LiveKit rooms | poll, delete room, record, back off; get token | the calls, LiveKit | several instances, no claim on a job, lost replies, crashes, stale status | jobs are settled; a completed job's room was deleted; a finished call admits nobody new |
| Call service, expiry worker, events (`modules/direct-calls/*.service.ts`, `*.worker.ts`) | none of its own | one handler per procedure, then profiles, then two socket events | the procedures, the chat gateway | events out of order or lost | a client that keeps the highest version ends with the final state |
| Friends and blocks (`modules/friends`) | `friendships`, `user_blocks` | request, accept, decline, remove, block, unblock | calls, DMs | several requests without a transaction | request life cycle; blocked means no call |
| Conversations (`modules/conversations`) | `conversations`, `conversation_participants` | open DM, accept or decline a message request | friends, calls, messages | writes after the procedure | one DM per pair, consistent request state |
| Presence (`modules/realtime/redis-state.service.ts`, `presence.service.ts`) | Redis hashes of sockets, deadlines, statuses, heartbeats; in-memory fallback | connect, activity, disconnect, manual status, logout, three sweepers | gateway, profiles | several instances, crashes, timers, grace period | a user without sockets goes offline in the end; one with sockets is not announced offline |
| Chat gateway (`modules/realtime/chat.gateway.ts`) | rooms, typing, voice states | join, leave, type, voice, moderation | presence, permissions | disconnect of one of several sockets, sweepers on every instance, Redis lost | voice states go with their user; typing ends |
| Messages (`modules/messages`, `migrations/20260825210000`, `20260827130000`, `20260822160000`) | messages, attachments, reactions, pins, hidden messages, read states | create, forward, edit, recall, hide, pin, react, mark read, page, search | storage, gateway, channels | idempotency keys, compensation, paging while others write, monotonic cursors | one announcement per nonce in a conversation; rows have their files; a recall is final; a scroll misses nothing; cursors only move forward |
| Servers, channels, roles, permissions (`modules/servers`, `src/src/shared/permissions.ts`, `migrations/20260824100000`, `20260824140000`) | servers, members, channels, roles, overwrites, layout, system channel | create, rename and delete channels and roles, assign roles, save the layout, choose the system channel, leave, delete | messages, gateway | two implementations of one algorithm; check and write apart; the lock of a server | the implementations agree; a text channel remains; positions differ; members change channels; system messages go to text channels |
| Invitations, links, bans (`server-invites.service.ts`, `migrations/20260824000000`, `20260829000000`) | `server_invitations`, `invites`, `server_bans`, `server_members` | invite, accept, decline, revoke, create and revoke links, join by link, leave, kick, ban | members, gateway | check and write in different requests | an invitation admits once; link uses are counted; members are told |
| Storage cleanup (`src/src/infra/storage`) | `storage_cleanup_outbox` | claim with a lease, delete, record with fencing | messages, channels | leases that expire under a slow worker | an attempt is counted once, a settled job stays settled |
| Two-factor backup codes (`modules/auth/two-factor.service.ts`) | `mfa_backup_codes` | generate, verify | Supabase Auth | read then write | a code is used once |
| Auth, profiles, Giphy, Stipop, voice tokens, controllers, DTOs, bootstrap | single rows or none | requests passed on | third parties | none of their own | - |

`PROJECT.json` has the same list with the status of each, and under `hazards`
the places where these behaviours bite.

## Modules

| Module | What it is |
|---|---|
| `DirectCalls` | the tables and stored procedures of one-to-one calls, blocks, friendships and DMs as far as calls depend on them |
| `CallCleanup` | the cleanup jobs, the worker of every instance, join tokens and LiveKit rooms |
| `AdvisoryLocks` | how six procedures lock two users |
| `PairLocks` | what that promises: one atomic lock on a pair of users |
| `Presence` | one user's sockets, deadlines and status in Redis, and the instances that share them |
| `LocalPresence` | the same user in the maps and timers of one instance, without Redis |
| `Messages` | writing: send, forward, edit, recall, with the files, and the storage cleanup worker |
| `History` | reading: pages, search, pins, links, hidden messages, read cursors, reactions |
| `ServerMembers` | invitations, links, joins, leaves, kicks, bans, and the member events |
| `Permissions` | the permission algorithm, in its two forms |
| `ServerChannels` | channels, roles, layout, system channel and its messages, membership as far as they depend on it |
| `VoiceStates` | who is in which voice channel, in Redis |
| `Typing` | who is typing, in Redis and in memory, with the sweepers |
| `MC...` | instances for TLC: symmetry, state constraints, functions that a cfg cannot write |
| `..._proofs` | theorems, checked by TLAPS; `CallMechanisms_proofs` is about `CallCleanup` and `AdvisoryLocks`, `Realtime_proofs` about `VoiceStates`, `LocalPresence` and `Typing` |

How they fit: `AdvisoryLocks` is shown to implement `PairLocks`, and so is
`DirectCalls`, whose procedures ask the operator `Locked`; `Messages` relies
on the same locks when it lets one procedure at a time write to a conversation.
`CallCleanup` takes up the outbox rows where `DirectCalls` leaves them: its
`Finish` is any of the ways to finish a call there (the `outbox` counter), its
`Drop` the cascade. `ServerChannels` EXTENDS `Permissions` and asks it on every
check. `History` has the writers of `Messages` as three small actions (`Draw`,
`Commit`, `Undo`) plus `Recall`; `ServerMembers` and `ServerChannels` share the
table of members, each with the steps of the other that touch it.

### DirectCalls

`calls[c]` is the row of a call: status, both ends, the answering session,
whether `connected_at` is set, whether `expires_at` has passed, the version.
Timestamps, mode, end reason and the room name (a function of the id) are left
out. A row that does not exist yet is "unused", one that was deleted is "gone".
`claims` is `direct_call_active_users`, `outbox` counts the cleanup rows.

A procedure that opens with `select ... for update` on one call is one action
(`Answer`, `AnswerAgain`, `AnswerExpired`, `Decline`, `Cancel`, `End`,
`MarkConnected`), and so is the single statement of `expire_ringing_direct_calls`
(`ExpireRinging`, over any set of due calls: `limit` and `skip locked` choose).
`start_direct_call` and `block_user` read rows they do not lock, so each is two
actions with anything in between that the advisory locks do not exclude:
`StartCheck`/`StartInsert` (or `StartAbort`) and `BlockRead`/`BlockCommit` (or
`BlockAbort`). `block_user` updates what its cursor found by id alone;
`BlockCommit` therefore rewrites calls that ended meanwhile. `removeFriend` is
two requests, `RemoveFriend` and `DeleteDm`, of which the second may fail
unnoticed (`DeleteDmFails`). `DropDm` is the cascade conversation - calls -
claims, also behind `DeclineRequest`.

`joined` and `toldExpired` record replies: sessions told to join the media, and
calls whose callee was told they had expired.

### CallCleanup

`jobs` are rows of the outbox; `batch` and `doing` are what a worker holds in
memory: the rows as it read them, and the one it is awaiting. `Poll` is the
select, `DeleteRoom`/`DeleteFails` the call of LiveKit with its outcome as the
worker sees it (the reply of a deletion may be lost), `Record` the update by id,
with the attempt count taken from the row as it was read. `RecordLost` is an
update that fails: its error is not looked at. `Crash` empties a worker's
memory. `Ask` and `Issue` are the two halves of `getToken`, before and after
the profile is awaited. `Join`, `Leave` and the room itself are LiveKit's and
are modelled from how the code uses them. `swept` and `old` are history
variables for the properties.

Not in the model: a server without LiveKit credentials, which completes jobs
without deleting anything but then issues no tokens either; an error text of
LiveKit that contains "404" by chance, which the worker takes for a missing
room; a job that stays due for ever because ten older ones fill every batch
(the back-off rules this out as long as jobs are settled, which is shown). A
party asks for a new token only when its last one has expired, which loses
nothing: a second token admits the same party.

### AdvisoryLocks

A transaction takes the lock of the lesser uuid, then of the greater, and lets
go of both when it ends. Users are numbers, in the order of their uuids;
`Hash` is any function to keys. A lock already held by the transaction is
granted again, as Postgres does, which matters when both users share a key. Keys
are 32 bits of a hash, so nothing is assumed of `Hash`: with colliding keys two
transactions can wait for each other although each takes its locks in the order of the
uuids. `BreakCircle` is Postgres's deadlock detector, which fails one of them.

### Presence

The distributed mode: Redis is the state, each server instance is a process with
timers. No script touches the keys of two users, so one user is modelled.
`sockets` is the hash `presence:sockets` with its fields instance:socket;
`fresh` are the fields of `presence:activity` younger than fifteen minutes;
`indexed` says which instances' user lists name the user; `known` is his
membership of `presence:active_users`; `offlineDue` and `idleDue` are his two
deadlines, the first in ticks from now, the second as "later" or "now" because
fifteen minutes have no fixed relation to anything else here; `status` and
`manual` are his hash. `registered` and `ttl` are the list of instances and the
time their heartbeat keys have left. An instance has a `life`, a cache of the
manual status, and the position of its sweep; `conn` is what each socket's
handler is doing.

A Lua script is one action: `Register`, `Disconnect`, `Activity`, `SetManual`,
`LogOut`, `GoIdle`, `GoOffline`, and the script inside `SweepDead`. What the code
awaits in sequence is several: `Open` and `Register` (the profile is read in
between; a socket closed meanwhile, `DisconnectEarly`, is registered all the
same and becomes a "ghost"), `ListOffline` and `GoOffline` (or `SkipOffline`,
when another instance holds the user's lock), the sweep `SweepStart`, per
instance `SweepPass` or `SweepDead` and `SweepUnlist`, then `SweepOrphans`,
`SweepZadd`, `SweepZrem`; the shutdown `ShutDown`, `ShutForget`, `ShutDeadline`,
`ShutEnd`. The counting of sockets after their deletion is in the same step as
the deletion. The sweep may fail: its script for the user, which the code catches to
go on with the index and the list (`SweepDeadFails`), or another command, which ends it
(`SweepFails`). `missed` and `dropped` are history: instances whose script failed, and
whether a shutdown took the user out of `active_users` although he was connected again.
`Crash` leaves everything in Redis as it is. A process that
restarts gets a new instance id, so no instance comes back.

Taken for granted: timers fire within their tick of five seconds (an instance
that stalls for longer than its heartbeat lasts is declared dead by the others
and never re-enters `presence:instances`); a shutdown takes less than a tick and
is not killed half-way; the deployment keeps one instance up (`Spare`); Redis
does not lose data, and its commands fail only in the sweep of dead instances; the
profile can be read. `setManualPresence` and
`handleExplicitLogout` are public but only tests call them at this commit; they
are modelled as any instance calling them at any time.

### LocalPresence

`userSockets` and `socketUser` are the maps, `grace` and `idle` say whether the
user has a timer in `disconnectTimers` and `idleTimers`. Node runs a handler up
to its next await: `UserConnect` either registers at once (`Arrive`), when a manual
status is cached, or awaits the profile and registers in `Load`. A socket closed
in between (`DisconnectEarly`) is registered all the same. `GraceEnds` and
`IdleEnds` are the timers, `Cleanup` is the shutdown. `announced` is the status that
peers were told last; the await of the peer list before each broadcast is not a
step, so `announced` is what was decided, in the order it was decided.

### Messages

`msgs` is the table in the order of ids, `rows` the attachment rows, `bucket` the
files, `outbox` the cleanup jobs by path. A request goes through the steps of its
handler (`Request.pc`): `Post` - `LookUp` by nonce - `Upload` per file -
`FindNonce`, the stored procedure up to its insert (its re-check of the nonce,
its refusal, or the row) - `Insert` or, in a channel, losing the unique index to
another one (`InsertLoses`) - `Cleanup` of its files if it stored no rows - `Tell`. A
forward copies files (`Copy`); an edit goes through `InsertRows`, `Update`,
`Unrow`; a recall is one transaction (`Recall`) or, when the procedure is missing,
check and writes apart (`RecallUnaided`, `RecallFallback`). Faults are an upload
that fails (the others of its batch may still arrive: `late`), a commit whose
reply is lost, a write or a cleanup that fails, a crash of the instance. `UnrowFails` is
the delete of an edit's rows whose error is not read. `lost` are the files that a handler
removed although it left their rows in the table, by a reply it did not get or an error
it did not read. `Claim`,
`Remove`, `Record` and `LeaseEnds` are the storage cleanup worker, whose update is
fenced by `locked_by` (`Mine`). `fresh` is the edit window. `Fits` is the
procedure's limit on the attachments of a message: an upload keeps it, a forward copies
what the message has, which racing edits may have made too many. `MaxPaths` bounds
those, since a request names its files by number.

### History

A reply takes several queries without a transaction; each is a step. `OpenScroll`
is a client that begins to read a scope; `GetPage` (the stored procedure) or
`GetRows` and `FilterHidden` (the fallback) fetch one more row than the page, then
attachments and reactions of the rows are read (`AssembleRows`) and the client
goes on from `Answer`. A row draws its id in `Draw` and is seen from `Commit` on:
in a conversation under the pair's locks, in a channel in any order.
`MarkChannelAsRead`, `UpdateCursor`, `InsertCursor` and `RetryCursor` are the four
requests that move a channel cursor; `MarkAsRead` is the single statement for
conversations. A reaction is looked up (`React`), written (`WriteRow`) and told
(`TellChange`) in turn. The write may answer with an error, made or not (`WriteUnseen`),
and any handler may go no further (`Stop`: a query failed or the instance is gone);
`untold` counts the changes of reactions whose event was lost in these ways.

### ServerMembers

Stored procedures are one action each (`AcceptInvitation`, `JoinByCode`,
`LeaveServer`); around them handlers read a row in one step (`Decline`, `Revoke`,
`Join`, `Kick`) and write it by id in another. A kick goes `Kick`, `LeaveServer`,
`Announce`; a ban writes its row in between, where a failure is not noticed.
The lookups before an acceptance and a join may fail without being noticed
(`AcceptBlind`, `JoinUnchecked`): the procedure is called all the same.
`through`, `removed`, `told`, `blind` and `cut` are history: what each request has done
and said, and which of them accept without having found the invitation.

### Permissions and ServerChannels

A bit field is the set of its bits. `ChannelPermissions` is the service's way to
apply overwrites (the default role, then the assigned roles together, then the
member), `StoredPermissions` that of the SQL procedures.

The procedures on channels hold one advisory lock per server from their check to
their commit, but each of their statements sees what is committed by then, so
they are two or three steps under `lock`: `Authorise`, then `InsertChannel`,
`RenameChannel`, or `CountText` and `EraseChannel`. `Leave` and `DeleteServer` wait
for the lock; `Join` does not. Role, layout and settings handlers check in one
step and write by key in another; the foreign keys are in the write (`Keyed`,
`WriteSystem`). System messages go through `HandleServerMember`, `VerifySystem`,
`FirstText` and `PostSystem`, with an await between any two. Ids are not reused: a
deleted channel stays "deleted".

### VoiceStates

`hash` and `index` are the two Redis keys, written together in a MULTI by
`SetState` and `RemoveState`. `ReadStates` is the read that precedes a mute or
deafen by a moderator. When a socket closes, its handler lists the user's servers
(`CleanList`), removes the states one by one (`CleanServer`) and deletes the list
(`CleanIndex`), also if the user has other sockets. `overtaken` and `cut` record
the users for whom this is known to go wrong: a state was stored across a removal,
or a removal failed.

### Typing

`scores` is the sorted set of a target with each score reduced to "ahead" or
"past"; the scripts drop what is past. `SweepStart` reads the list of targets on
an instance, `SweepTarget` handles one under a lock that nobody gives back and
that runs out (`LockEnds`). `local`, `timer` and `recent` are the maps of an
instance. Each call looks anew whether Redis is there, so the two ways mix:
`TimerFires` of a timer that was set in memory may run against Redis.

## Runs

Bounds are in the .cfg files, constraints in the MC modules. Deadlock is checked
in the runs of `DirectCalls`, `AdvisoryLocks` and `Presence`; elsewhere requests
are handled once each and the system may come to rest.

| Run | Bounds | Shows |
|---|---|---|
| `calls_pair` | 2 users, 1 call, 2 sessions | cleanup rows; one media session; no status comes back; versions count updates; no call rings for ever |
| `calls_three` | 3 users, 2 calls, 1 session; constraint `Contention` | claims match active calls; nobody in two calls; no active call across a block |
| `cleanup` | 1 call, 2 parties, 1 job, 2 workers, 3 attempts, 2 faults | a job fails with its last attempt; a completed job's room was deleted; nobody new re-enters; every job is settled |
| `locks` | 4 users on two keys that collide crosswise, 3 transactions | the locks implement `PairLocks`; only colliding keys let transactions wait in a circle, as they do here; waiters get in or fail |
| `presence` | 2 instances, 2 sockets each, all periods one tick, one manual status; constraint `TwoTabs` | a connected user is not taken offline; the manual status wins; a user who left is not lost; the sockets of a crashed instance are found, also after a sweep that failed |
| `local_presence` | 3 sockets, three outcomes of the profile, three choices | a departure is announced or has its timer; a user who is online by himself has an idle timer |
| `messages` | 1 user, a conversation and a channel, 1 nonce, 3 requests, 2 workers, 1 file (`MaxFiles` and `MaxPaths`), 2 attempts, 2 messages, 2 faults; constraint `Contention` | rows have their files, but for what a handler took away without knowing of the row; a post in a conversation is announced once; a recall is final; attempts are not forgotten |
| `history` | 1 user, a conversation and a channel, 2 requests, pages of 1, 3 messages, 1 lost announcement of a sign (`MaxUntold`); constraint `Focus` | a scroll misses nothing; what was recalled is not shown; the cursor is the newest mark; reactions are told as stored, but for what a failure kept from being told |
| `server_members` | 3 users, 2 invitations, 1 link of at most 1 use or none, 5 requests; constraint `Contention` | uses are admissions; an invitation admits once; the members are told, unless the handler is cut short or did not find its invitation |
| `server_channels` | 2 users, 3 channels, 1 role that is denied one channel, 3 requests, 1 saved layout | a text channel remains; positions differ; members make the changes; system messages stay in text channels |
| `voice_states` | a user with 2 sockets, a moderator with 1, 2 servers, 3 requests, 1 fault; constraint `Contention` | states are indexed; who has gone is in no channel |
| `typing` | 2 users, 1 target, 2 instances, 3 starts, 1 fault | typists are in a swept target; every indication ends |

Why the bounds are enough to be interesting: two sessions let a retry race the
winner, and calls do not see each other except through the claims; three users
and two calls let one user be wanted by two calls, and one call end and another
start between the two halves of a block or a start; two workers and three
attempts let a slow worker write back a count that is two behind, and two faults
combine with each of these. In `locks`, transactions on the pairs 1, 2 and 2, 4 wait in
a circle of two (`Crossed` puts 1 and 4 on one key, 2 and 3 on the other), the third can
wait behind it, and one on the pair 1, 4 meets its own lock.
In `presence`, one of the two instances may start late, crash or shut down while
the other sweeps, and with equal periods every order of heartbeat, sweep and
deadline occurs; `TwoTabs` allows two connections on any instances, one of them
unsettled, and a chosen status only where no socket was registered too late, no script
of a sweep has failed and no shutdown has dropped the user (the theorems have all of
these together). That a shutdown drops a user whose sockets a sweep had failed to remove
(`missed` and `dropped` together) takes three instances, since one is always up: only
the theorem covers it. `Contention` of `calls_three` keeps that instance to the properties
about contention: friends and conversations stay, one block at a time.

In `messages`, three requests are a post, its replay and an edit, recall or
forward of the result; two run at a time, fewer once a worker has taken up a job
or something has failed, and a second worker takes over the lease of the first. The
second fault is for an edit whose update fails and then the delete of its rows; after
it, only states in which rows were left without files are followed up, until the cleanup
worker takes up a job. The edit window closes only where nothing has failed.
One user is enough since all rules are about one author's nonces and edits, and
moderators only add a second way to recall. A forward of a message to which two edits
added too many files takes four requests; it is for the proofs, which hold for any
number. In `history`, pages of one message
make three messages three pages; `Focus` leaves the cursors, which no other
operation reads, to move alone, and lets reactions, pins and files be read with one
message (with two if nobody scrolls); once an announcement is lost, only reactions to
one message go on. In `server_members`, five requests suffice for
invite, accept, a racing decline or second accept, leave and re-join, two at a
time, and four are enough once somebody is banned, the server is deleted or the lookup of
an invitation fails, which happens once and where there is no link, since it does not
touch links. In `server_channels`, three requests can delete two text channels while a
third creates one. In `voice_states` the user's second socket stays while the
first is cleaned up, and the index has two servers to lose. In `local_presence`
two tabs race a third.

Fairness. Calls: the clock advances, and the expiry worker's five-second timer
keeps firing so that a call that stays due is taken in by some batch; nothing is
assumed of the two users. Cleanup: as long as a job is due some instance's
ten-second timer takes it into a batch, a worker goes on with what it has in
hand (LiveKit answers or times out, possibly with an error every time), updates
are written except for boundedly many faults, back-offs end. Locks: transactions
that are in finish (weak fairness), a lock that becomes free again and again
is granted in turn (strong fairness), which is Postgres's wait queue, and a circle of
waiters is broken (weak fairness), which is its deadlock detector. Typing:
scores and locks with a time to live run out, timers fire, the one-second sweep of
every running instance goes on with its targets, Redis comes back; nothing is
assumed of users, and an instance that crashes sweeps no more.

### Where the code departs from its comments, or surprises

No run is spent on these; the models allow every one of them unless noted, and the
properties above are worded so that they say what does hold.

Calls
- An answer after the deadline marks the call missed and raises "the call has
  ended"; the exception undoes the update and the call keeps ringing until the
  worker comes (`AnswerExpired`).
- A block rewrites the outcome of a call that ended while it ran, with a second
  cleanup job (`BlockCommit`).
- Unfriending, or declining a message request, during a call deletes the call
  without cleaning up its room (`DropDm`).
- Two workers handle one room at once; a test says `SKIP LOCKED` prevents it, the
  worker does not use it (`Poll`).
- A token is issued for a call that ended while the profile was awaited (`Issue`).
- The uuid order of the locks is there "against deadlock" (`chống deadlock`,
  `migrations/20260826160000_user_blocks_table_and_rpcs.sql:808`); the order is that of the
  users and not that of their 32-bit keys, so with colliding keys it does not exclude one. The
  run `locks` has such keys and its transactions do deadlock; `CirclesCollide` is what
  the order achieves.
- `cancelCall` is described as for a ringing call (`direct-calls.service.ts:273`)
  and cancels an accepted one as well; `blockUser` is said to delete the
  friendship (`friends.service.ts:368`) and keeps it
  (`migrations/20260828000000_block_preserve_friendship.sql:64`).

Presence
- The sweep for orphans (`redis-state.service.ts:709`) sets the offline deadline of
  every user without sockets anew, every 10 s, to 15 s ahead: he stays online for
  ever. `GoesOffline` of `Presence` says otherwise and is violated under `FairSpec`
  with `Grace = 3, SweepEvery = 2, Ttl = 3`, the periods in ticks of five seconds.
- When the clean-up script fails for a user, its error is caught and the dead instance's
  index and list entry are deleted all the same (`redis-state.service.ts:648-654`). His
  sockets are then found by the sweep for orphans, which looks at `active_users` only;
  a user who reconnects while a shutdown is between deleting his sockets and taking him
  out of `active_users` (`:1275`) is connected and not in it (`dropped`) until a
  socket of his connects, and neither sweep would find what is left of him.
- In memory, `inMemoryStatus` is not reset when a user goes offline or logs out, so
  `getPeersSnapshot` (`presence.service.ts:533`) goes on saying online; and a
  profile that arrives late overwrites a manual status chosen meanwhile.
- `servers.service.ts:127` counts online members with the in-memory status, which
  is offline for everybody when Redis is used (not modelled).

Messages
- A replay of a channel message announces MESSAGE_CREATED again, and
  `forwardMessage` ignores `isDuplicate`; the files of a replay stay behind.
- A nonce is looked up with a comparison with null for the other kind of scope, so
  a message of a conversation can be answered as the duplicate of one in a channel
  (`migrations/20260826160000_user_blocks_table_and_rpcs.sql:403`).
- When the reply of the committing call is lost, the files of the committed message
  are removed; and an edit whose update fails deletes its rows without reading the error
  and then removes the files (`messages.service.ts:2271-2279`). Both leave rows of a live
  message without files (`lost` in `FilesOfRows`).
- Concurrent edits can exceed five attachments, since each counts the rows before it
  adds its own (`messages.service.ts:2188`); such a message can no longer be forwarded
  (`Fits`). The recall without the procedure
  leaves attachment rows; MESSAGE_UPDATED may follow MESSAGE_DELETED.
- The fallback of a page filters hidden messages after the limit
  (`messages.service.ts:552`), so a page may come out short or end the scroll (`exact` in
  `ScrollIsComplete`).
- An error of the write of a reaction counts as nothing done
  (`messages.service.ts:2946-2970`, `:3074-3097`): a change that was made but whose answer
  was lost is never announced, not on a retry either, which finds nothing to change;
  and so is one whose handler stops before the event (`untold` in `ToldAsStored`). When the
  query for the summary fails, the event has an empty one (the summary is not modelled).
- A mark as read whose reply is lost is stored and not answered (not modelled: it can
  only put a cursor ahead of the marks that were answered).
- A summary of reactions is read after the write and may be older than the next
  event's.

Servers
- A ban is looked up before the membership is inserted, and written after the
  member was removed: a banned user can be a member (`Join`, `WriteBan`).
- The error of the lookup before an acceptance is not read
  (`server-invites.service.ts:279`): the procedure admits the user, success is answered,
  and without the row (`:308`) neither the members nor the inviter are told (`blind` in
  `MembersAreTold`). In the same way a join whose lookups fail skips the check of bans
  (`:668-684`, `JoinUnchecked`).
- Two kicks of one member both announce that he left, and member-joined may be sent
  after member-left.
- The revision of a layout is read and then written plus one
  (`servers.service.ts:582`): two saves can have the same one.
- The check that an administrator's role keeps its bit is separate from the write.
- `server-roles.service.ts:423` and `:462` pass user and server to
  `emitCapabilitiesUpdated` in the other order than `chat.gateway.ts:1414` takes them
  (not modelled); sockets of a kicked member are not taken out of the rooms.

Voice and typing
- A state stored across a removal is in no index and stays (`overtaken`), and so
  does one whose removal failed or whose instance stopped (`cut`).
- The throttle of typing indications is not cleared on stop when Redis is used; what
  is in memory when Redis comes back stays there until its timer fires, which then
  runs against Redis.

## Theorems

All for any values of the constants, from the named assumptions only
(`NullsAreNotValues`, `CleanupAssumption`, `LockAssumption`, `PresenceAssumption`,
`LocalAssumption`, `PermissionsAssumption`, `ChannelsAssumption`,
`MembersAssumption`, `VoiceAssumption`, `TypingAssumption`, `MessagesAssumption`,
`HistoryAssumption`).

`DirectCalls_proofs`
- `TypeCorrect`: the type invariant.
- `ClaimsConsistent`: `ClaimsMatchActiveCalls` is inductive given the types. The
  lemma `StepKinds` sorts the steps by what they do to the two tables (leave
  them, close a set of calls, start one, answer one), so that each invariant is
  proved for four kinds of step rather than for twenty actions.
- `NobodyTwiceBusy` follows from it: a user has one claim.
- `BlockEndsCalls`: `NoActiveCallBetweenBlocked` alone is not inductive, since
  it says nothing of transactions in flight. `BlockInv` adds that no user is in
  two locking transactions (`LocksExclude`), that a start past its checks has no
  block on its pair (`StartsUnblocked`), and that the cursor of a block in
  flight has every active call of its pair (`BlockSeesActiveCalls`). The last
  holds because a call can only become active through `StartInsert`, which the
  locks keep out.
- `CleanupPromised`: finished calls have a cleanup row.
- `OneSessionJoins`: `OneMediaSession`, from `JoinedIsAnswered`: only the session
  in the row was told to join, and nobody while the call rings.
- `NeverActiveAgain` (`ActiveOnlyOnce`) and `VersionsTellApart`
  (`VersionCountsUpdates`), two action properties: `RowSteps` says what a step
  may do to a row (keep what clients see, update it and count the update, insert
  it, delete it with its conversation), and both follow from it.
- `CallsUnderPairLocks`, a refinement: with `inside` mapped to the two users of a
  start or a block in flight, every step is an `Enter`, a `Leave` or a stutter of
  `PairLocks`. The model tests `Locked` where the code takes two locks in a row;
  this theorem and `LocksImplementPairLocks` meet in the same abstraction, which is
  why the test may stand for the two locks. No run checks it: its parameter `Txns` is
  the set of all possible transactions, which TLC would have to enumerate per step.

`CallMechanisms_proofs`
- About `CallCleanup`: `TypeCorrect`; `GivenUpWhenExhausted`, `CompletionIsEarned` from
  `JobInv`, which adds that what a worker has read had attempts left and that a
  deletion it believes in happened; `NobodyNewReenters` from `OldCoversAll`: tokens,
  requests past their check and parties in the room all date from before the
  deletion, since a job exists only for a call that is over.
- About `AdvisoryLocks`: `LocksTyped`; `LocksImplementPairLocks`, the refinement: a
  transaction is inside from its second lock to its commit, and `OwnersHold` (the lock
  table agrees with the progress of the transactions) excludes a second one;
  `CirclesNeedCollisions` (`CirclesCollide`), for any hash: the one in the way of a waiting
  transaction holds a lock under the key of another user, which is a collision, or
  of the very user that is asked for, and then it waits for a greater one itself; there
  is a greatest uuid, so a circle has a collision in it.

`Presence_proofs`
- `TypeCorrect`; `NotOfflineWhileConnected` and `ManualStatusIsShown`, inductive
  together with the types, since most steps only take sockets away and leave the
  status alone (`QuietSteps`); `LeftUsersAreKnown` (`NobodyForgotten`), which
  counts a shutdown between its two commands as knowing the user.
- `CrashedSocketsStayFindable`, from `Found`: a working instance has a heartbeat
  and is listed, no sweep looks at one that has not started, every socket of an
  instance that has not shut down is indexed unless the script for it failed, and whoever
  a sweep is about to unlist is down, or crashed and without sockets or with a script
  that failed. The last part is what makes the order of the sweep right: the sockets go
  before the index. For what a failed script leaves, `ActiveIsKnown`: whoever has sockets
  is in `active_users`, unless a shutdown dropped him.

`ServerChannels_proofs`
- `TextChannelStays`, `SystemStaysWithText` and `MembersChange` (the action property
  `ChangedByMembers`), from one invariant `Core`: whoever is inside a transaction
  holds the lock and was let in as a member who still is one (`Holders`); a channel
  that passed the count is not the only one with text (`Spared`); a channel chosen
  for system messages has text or is gone (`Named`), because types do not change and
  ids do not come back.
- `PositionsDiffer` (`PositionsDistinct`): at any time the positions are below some
  number, so there is a greatest one (`Greatest`, from the well-ordering of the
  naturals, since the number of channels is any), and the next is above it.
- `TypeCorrect`: `Core` has the types of what it needs; the rest follow, the positions
  from the same bound.
- About `Permissions`: `SameAnswer`, the service and the procedures agree on every
  channel. The procedures count every assigned role among the overwrites, the service
  leaves the default role out; the default role is never assigned, and without that
  premise they would differ. `AdministratorMayAll`, `MemberDenied`, `MemberAllowed`: the overwrite of
  the member has the last word, except over an administrator. `RolesOnlyAdd`: another
  role takes nothing away where it is denied nothing, which is not obvious, since
  allowances and denials of different roles meet in one step.

`ServerMembers_proofs`
- `UsesAreAdmissions` (`LinkCountsAdmissions`), `AdmittedOnce`
  (`InvitationAdmitsOnce`) and `MembersHear` (`MembersAreTold`), from one invariant
  `Inv`. Its parts: what a request is about at each step (`About`), that the
  invitation a handler is about to overwrite is there (`Standing`), what a request
  has done and told by each step (`Story`), and that an invitation that has admitted
  someone is never pending again (`Settled`). A request that has not found its invitation
  is only ever at its procedure or over, which is part of `Story`. `Settled` holds because
  every late write sets a final status, and no id is used twice.
- `TypeCorrect`: the count of a link stays within its type because each request uses a
  link at most once.

`Messages_proofs`
- `TypeCorrect` is inductive with four facts (`Core`): a request stores files under
  paths of its own and is about a message of the table (`Formed`), which is what keeps a
  forward or an edit from naming a row that is not there; a message has finitely many
  rows, so that the count that the procedure makes is a number (`FilesFinite`); an open
  job has attempts left, and a worker that still holds the lease knows how many were
  made (`Counted`); a recalled message has no text (`Emptied`). The last two are also
  what `AttemptsCount` (`AttemptsNeverForgotten`) and `RecalledStayEmpty`
  (`RecallIsFinal`), two action properties, need.
- `NoSecondAnnouncement` (`AnnouncedOnce`), from `Quieted`: what has been announced and
  what is still about to be is at most one per message of a conversation. It holds
  because a nonce that is stored is found before the insert and in the conversation under
  the same locks as the insert, so that only the post that made the message is not quiet.
- `RowsHaveFiles` (`FilesOfRows`) says nothing of files in transit and is not inductive.
  `Kept` adds that a path is in one row at most and has no job while the row is there
  (`Rowed`), that what a request has stored is in the bucket until its rows are in the
  table (`Stores`), and that what it is about to remove is in no row, except where its
  commit was not seen or its rows could not be deleted (`Removes`). `Changed` says what a step may do to rows, jobs,
  files and requests; `KeptStep` needs only that, and every action is shown to be such a
  step.

`History_proofs`
- `TypeCorrect`, from `Core`: a request that is under way has a user and, where it is
  about a message, one of the table; one that reads for a scroll is what that scroll is
  waiting for. Rows are never lost and committed ones stay (`Grown`).
- `ScrollsAreComplete` (`ScrollIsComplete`), from `Followed`: every message that a scroll
  owes its client is older than its cursor (`Owed`), and while a page is awaited it is
  among the page's rows or older than all of them, and then the query has found more
  rows than the page takes (`Awaited`). The lemma `PageOrOlder` is the step in which the
  extra row decides `hasMore`; `NextCursor` that the cursor, the oldest row of the
  page, divides the rest from it. Both need that a finite set of ids has a least one
  (`Oldest`), from the well-ordering of the naturals.
- `RecalledStaysHidden` (`RecalledIsNotShown`), from `Withheld`: what was recalled before
  a request began is not among the rows whose files and reactions it has still to load.
- `CursorsAreNewest` (`CursorIsNewestMark`), inductive given the types: every one of the
  four writes takes the greater of two cursors.
- `ToldIsStored` (`ToldAsStored`), from `Counted`: for each message and user what was told,
  plus what was lost (`untold`), the additions and less the removals still to be told, is
  what the table has. The
  requests that have still to tell are counted, so the proof is one of cardinalities.

`Realtime_proofs`
- About `VoiceStates`: `TypeCorrect`, together with the fact that what a handler is about
  to store is a state (`RequestsTyped`); `StatesFoundAgain` (`StatesAreIndexed`), which
  needs that a removal under way has every state of its user before it
  (`RemovalsSeeAll`); `GoneUsersHaveLeft` (`GoneFromVoice`), from `Ends`: whoever has a
  state is there or has a removal that has yet to come by it, and whoever is about to
  get one is there or has a removal that has not ended (`StoresEnd`, the part that a
  mute which read the state long ago depends on).
- About `LocalPresence`: `LocalTypesKept`; `DeparturesAreWatched` and
  `OnlineUsersAreWatched`. The properties are inductive with two more facts: the two maps
  have the same sockets (`MapsAgree`), without which activity of a forgotten socket
  would announce a user who has left, and a fixed manual status is not shown as "online"
  (`FixedIsKept`).
- About `Typing`: `TypistsAreSwept` (`TypistsAreListed`), inductive given the types. Every
  script adds a target with its score or unlists it for want of scores in the same step,
  and a step outside Redis touches neither (`TargetListed`, `StoppedListed`).

Every invariant that a run checks is the subject of a theorem here, and so is every action
property and the refinement of the run `locks`.

Model-checked only: liveness (`RingingIsResolved`, `JobsSettle`, `WaitersGetIn`,
`TypingEnds`, under the fairness above), which is out of the prover's reach, as are
recursive operators and induction over data (none of the models needs either).
`GoesOffline` of `Presence` is checked by no run; see above.

## Not modelled

- The events of direct calls after the commit, their order and their loss: a handler
  awaits profiles in between. What a client can rely on is the version
  (`VersionCountsUpdates`).
- Friend requests, message requests and groups: single stored procedures or single
  rows; what calls depend on is in `DirectCalls`.
- The change between the two modes of presence, broadcasts to peers and their order,
  `last_seen`.
- Socket rooms and the listeners that pass events on: a room is a set that Socket.IO
  keeps; the events are modelled where they are decided.
- Forum threads, the unread fan-out to other members and the assembly of DTOs in
  messages; creation of a server, its previews and icon.
- Two-factor backup codes (two pairs of single-row requests, whose race is listed as
  a hazard), authentication and profiles (Supabase Auth), Giphy, Stipop and voice
  tokens (stateless calls of third parties), controllers, DTO validation, bootstrap.
