# TLA+ models of the MangosFour world server

`src/` is the MangosFour world server (mangosd): a C++ server for one realm of
an online game, with a network front end, a world thread that ticks, a pool of
map workers and a set of MySQL databases. This directory holds TLA+ models of
the parts of it where threads, sessions and the database meet, the TLC
configurations that check them on small instances, and TLAPS proofs for
instances of any size. `PROJECT.json` says which definition models which lines.

    tlc -workers 2 -config MCLoginQueue.cfg MCLoginQueue.tla    # one run
    tlapm LoginQueueProofs.tla                                  # one proof module

## 1. Inventory

Paths are below `src/src/`.

### Threads

| thread | code | touches |
|---|---|---|
| world thread | `mangosd/WorldThread.cpp`, `World::Update` | sessions, maps between ticks, callbacks of queries, everything not in a map |
| map workers | `game/Maps/MapUpdater.cpp` | one map at a time during a tick: its objects, packets that may be handled in a map |
| network workers | `shared/net/reactor/ReactorServer.cpp` | sockets; decode frames, authenticate, append packets to session queues, write send queues |
| delay threads | `shared/Database/SqlDelayThread.cpp`, one per database | the asynchronous connection of that database |
| services | `mangosd/*Service.cpp` | console, remote access, freeze detection, database keepalive |

### Components

| component | state | operations | hard because | what makes it correct | module |
|---|---|---|---|---|---|
| Map update pool | `m_queue`, `m_pending`, `m_stop`, the workers; `i_maps` | `activate`, `schedule_update`, `wait`, `deactivate`, `workerLoop`; `MapManager::Update`, `UnloadAll` | condition variables notified outside the lock, spurious wakeups, maps created and deleted between ticks, shutdown | no map is touched by a worker outside a tick; each loaded map once per tick; no lost wakeup | MapUpdater, MapTick |
| Session table and login queue | `m_sessions`, `m_sessionAddQueue`, `m_QueuedSessions`, `m_playerLimit`, flags of each session | `AddSession`, `AddSession_`, `RemoveSession`, `RemoveQueuedSession`, `UpdateSessions`, `KickAll`, `SetPlayerLimit` | three ways to delete a session the queue points to; counts taken before and used after a removal; reconnects | pointers live, flags and told positions agree with the queue, order kept, slots used | LoginQueue |
| Character login and logout | login queries in flight, `m_playerLoading`, `_player`, players in the world | `HandlePlayerLoginOpcode`, its callback, `LogoutPlayer` | the callback comes ticks later and looks its session up by account | a session plays its own character, a begun login ends | CharacterLogin |
| Outbound path | cipher position, `SendQueue`, `SendChannel`, the reactor connection | `SendPacket`, `Close`, the worker's event loop | producers race the worker; short writes; a close asked for at any moment | bytes in order and complete, drained before an ordered close, every close happens | Outbound |
| Handshake and session lifecycle | `m_connState`, crypt, `m_closed`, `m_session`, the gateway's registry, the session object | `onConnect`, `onData`, `onClose`, `Attach`, `Deliver`, `OnPing`, `Detach`; world side: pop, refuse, replace, kick, reap | both sides may end it; each step of `Attach` may fail; two owners of one pointer | nothing half authenticated is published, everything is reclaimed | SessionLifecycle |
| Asynchronous database access | transaction of each thread, delay queue, connection with its mutex, result queue | `BeginTransaction`, `Execute`, `DirectExecute`, `CommitTransaction`, `CommitTransactionDirect`, `RollbackTransaction`, `AsyncQuery`, the delay thread, `ProcessResultQueue`, `HaltDelayThread` | one connection shared by threads; statements, commits and reconnects fail; shutdown with work queued | operations whole and in order, none mixed, none left behind | AsyncDatabase, AsyncStore |
| Opcode dispatch and filters | `_recvQueue`, the two packet filters | `QueuePacket`, `WorldSession::Update` from map and world | packets of one client taken by two threads | order of what depends on order | planned |
| Mail and cash on delivery | mails, items and money of characters in memory and in the tables; queued saves | `HandleSendMail`, `HandleMailMarkAsRead`, `HandleMailDelete`, `HandleMailReturnToSender`, `HandleMailTakeItem`, `HandleMailTakeMoney`, `ReturnOrDeleteOldMails`, `SaveToDB` | memory and database change separately; direct commits overtake queued saves, or fail without telling | money and items neither lost nor doubled | Mail |
| Trade | two `TradeData` | set item, set gold, unaccept, cancel | `CMSG_ACCEPT_TRADE` is not registered (`Opcodes.cpp` 514-544), so no trade completes | nothing moves | no |
| Groups and loot rolls | `m_memberSlots`, `m_invitees`, leader and rolls of each `Group`; `m_group`, `m_groupInvite` of each `Player`; the items of a corpse | `Invite`, `AddMember`, `RemoveMember`, `Disband`, `UninviteFromGroup`, `_LoadGroup`; `StartLootRoll`, `CountRollVote`, `CountTheRoll`, `EndRoll` | raw pointers both ways between groups and players; members the lookup does not find; votes, leavers and the timer end one roll | both records agree, every group is led by a member, an item is given once | Group, GroupLoot |
| Dungeon finder | role checks, queue, proposals, kick votes | join, leave, answer, timeout, `CreateDungeonGroup` | answers after somebody declined or left; groups made while their players invite and are invited | a player is in one state only | Group, for `CreateDungeonGroup` |
| Battleground queue | queued groups, invitations, invited counts | add, remove, invite, reminder, expiry | no opcode that joins a queue is registered, so a client does not reach it | counts match invitations | no |
| Guilds and guild bank, calendar, petitions | lists, ranks, bank tabs | handlers of the world thread | bank: item moves in two containers | rights, withdrawal limits | later |
| Auctions | auctions, bids | bid, buyout, expiry | outcomes leave as mails | one winner, deposits returned | later |
| Instance persistence | saves, binds of players and groups | bind, unbind, reset, expiry | shared save objects freed by last bind | no dangling bind | later |
| Maps, grids, visibility | grids, objects, visible sets | `Map::Update` | size, geometry | - | no |
| Spells, auras, combat | - | - | formulas over content | - | no |
| Creatures, AI, movement | - | - | content and geometry | - | no |
| Quests, achievements, items, pets | - | - | bookkeeping over content | - | no |
| Chat, channels, social | - | - | sequential | - | no |
| Warden | - | - | cryptography, client memory | - | no |
| Outdoor PvP, scripts | - | - | content; submodules empty here | - | no |
| Commands, console, remote access, SOAP | command queue | text commands to the world thread | - | - | no |
| Start-up and shutdown | services | `Master::Run` | order of joins | - | only as the pool and the database see it |
| Other network backends | completions | io_uring, IOCP, kqueue | other completion model | same contract as Outbound | no |
| Cryptography, codecs, stores, configuration, tools | - | - | data | - | no |

### Interactions

* A network worker authenticates a client (SessionLifecycle), allocates a
  `WorldSession` and pushes it on `m_sessionAddQueue`. The world thread pops it
  (LoginQueue), lets it in, queues it or refuses it.
* The session asks the database for a character (CharacterLogin over
  AsyncDatabase's queries) and enters the world in the callback.
* The world thread and map workers send packets; a network worker writes them
  (Outbound). A `Close` from the world ends in `onClose` on the worker, which
  tells the gateway (SessionLifecycle), and the world reaps the session on its
  next tick.
* A tick schedules all maps on the pool, waits, then touches maps alone
  (MapUpdater). Map workers stage transactions while the world thread waits
  (AsyncDatabase).
* The mail handlers commit directly, on the world thread, what `SaveToDB` otherwise
  queues for the delay thread (Mail over the promises of AsyncStore).
* A login or a map change takes a player out of `ObjectMgr::GetPlayer`'s sight
  while groups still name it; a group that changes carries its rolls along
  (GroupLoot over Group).

## 2. The modules

Each module lists its variables beside the members they stand for, and has one
action per operation; steps of one thread that another thread can come between
are separate actions, and code under one lock is one action.

**MapTick, MapUpdater.** `MapTick` is the contract of one tick: the set of
loaded maps changes only between ticks, and a tick ends when each map loaded at
its start has been updated. `MapUpdater` has the world thread (`mpc`) and the
workers (`wpc`) as programs: the lock, the two condition variables with spurious
wakeups, `schedule_update` and `wait` per map and tick, the serial path when the
pool is off, map creation and unloading after the barrier, and `deactivate`.
`ImplementsTick` maps it to `MapTick`: a map is owed its update while it is
yet to be scheduled, queued, or being updated.

**LoginQueue.** The session table with the world thread's steps in any order,
which includes the order `World::Update` takes them in, and the network threads
adding sessions and closing links at any time. A `WorldSession` object that was
deleted may be allocated again, so a stale pointer would be seen as one.
`told` is what the client was last told, `0` for "proceed". Queue operations are
operators over sequences (`RemoveQueuedSession`, `WithoutAt`, `QueuePos`).

**CharacterLogin** EXTENDS LoginQueue: its steps are steps of the session table,
conjoined with what the login and logout code does to players. It adds the
queries in flight, answered in order, `_player` of each session and how many
objects of a character are in the world.

**Outbound.** One connection. A packet is named by the position of its header in
the keystream and stands for all its bytes; the socket takes `SocketRoom`
packets before it would block. The worker's loop is followed step by step:
waiting, reading events (with senders on the network thread itself, inside
`onData`), draining the request queue, swapping the double buffer, sending,
arming write interest, closing after drain.

**SessionLifecycle.** The connections of the gateway, each with its transport,
its handshake, the gateway's handle, and its session object seen from both
threads. What the world does with the session is reduced to taking, refusing,
replacing, kicking and reaping it; LoginQueue says when it does which.

**AsyncStore, AsyncDatabase.** `AsyncStore` is what callers rely on: a line of
operations that take effect one by one and whole or not at all, queries
that read when their turn comes, and direct operations that take effect while
their caller waits. `AsyncDatabase` has the per-thread staged transaction, the
start-up mode without a delay thread, the lock of the connection, statements and
commits that fail, among them a `COMMIT` that fails after it took effect, the delay
thread's loop with its pass over the queue, and `HaltDelayThread` with the flush
in the destructor. From the database server it assumes what the code relies on,
and no more: `START TRANSACTION` commits what is open and opens a transaction, a
statement takes effect at `COMMIT` or, outside a transaction, by itself, and a
lost connection loses the open transaction (the client library, told to
reconnect by `DatabaseMysql.cpp`, refuses to do so within a transaction), so nothing stays open after a failed `COMMIT`. `ImplementsStore` is the refinement.

**Mail.** The gold and the items of characters in three places: the memory of the
world (`mem`), the tables (`db`) and the saves queued in between (`queue`). A
handler of `MailHandler.cpp` is one action with each outcome of its direct commit:
done, rolled back, or applied although the call failed; after a failure the client is kicked,
and the logout and its save belong to the action. A login reads the tables and is
handled later. `Expire` queues the statements of an expired mail one by one,
outside a transaction, as `ReturnOrDeleteOldMails` does, and `Crash` may fall between any two.
A vendor's goods (`BuyFromVendor`, `SellToVendor`) change balance and inventory in memory
only, each unit worth one gold; `unsaved` is what the next save brings to the tables.
`tainted` is a history of the hazards the books are known not to survive, each found as a
counterexample first: a direct commit that overtakes a queued save of the same
character (`overtaken`; in a sale `overtakenSale`, finding 4), a commit of money that
fails without telling (`unsure`), an expiry while its receiver logs in (`stale`), a balance
committed without the goods a vendor was paid for (`split`), a balance adopted after a failed
sale that a queued save is about to change (`adopted`) and a crash
inside an expiry (`torn`). Each property names the hazards it excepts and holds through the others.

**Group, GroupLoot.** `Group` records every membership and every invitation twice, as
the code does: in the group and in the player. `where` says whether `GetPlayer` finds a player
(a map change and a login take it away), and `loaded` is the row of `group_member` that a
login has read. Groups of the dungeon finder are made by
`FormDungeonGroup` and `JoinDungeonGroup`, the two halves of `CreateDungeonGroup`. Two histories
name the players the code loses sight of: `adrift`, removed while `GetPlayer` did not find them, and
`uprooted`, taken into a finder group out of an invitation. `GroupLoot` EXTENDS
Group with corpses and rolls; a step that changes groups is a step of Group conjoined with what it
does to their rolls (`RollsFollow`). The totals of a roll are bytes and are counted as
such. `stuck` names the sources whose roll ended without lifting the block from the item.

How they compose: CharacterLogin contains LoginQueue and is checked to implement
its specification (`ImplementsLoginQueue`), so what is proved of LoginQueue holds
with logins in progress. SessionLifecycle's fairness of `OnClose` for a closed
connection is what Outbound checks as `CloseHappens`. The in-order answers of
CharacterLogin are what `AsyncStore` promises of queries, and the queue of Mail is its line.
GroupLoot contains Group, whose theorems hold with rolls under way.

**Faulty variants.** Some definitions come in two forms, the code's and, before
it under a heading that says so, one that a plausible bug would make of it. The
faulty forms are used by no specification. Putting one in place of its correct
twin makes a named property fail (the table `mutants` in `PROJECT.json`), which
shows that the property depends on that line of the code.

## 3. What the runs check

| run | instance | what it shows |
|---|---|---|
| `map_updater` | 3 maps, 2 workers, or none | `PendingExact`: `m_pending` is the number of updates queued or held. `Barrier`: outside the parallel part of a tick no worker has or can get a map. `UpdatedOnce`: no map twice in a tick. `TickEnds`, `ShutdownEnds`: no wakeup is lost. `ImplementsTick` |
| `login_queue` | 3 players, 1 staff, 4 session objects, limit 1 then any of -1, 0, 1, 2 | `NoDanglingSession`, `FlagMatchesQueue`, `PositionsTold`: no deletion leaves a pointer, a flag or a told position behind. `SlotsFollowLimit`: only a change of the limit leaves a slot idle or too many in. `QueueIsFifo`: nobody enters past a waiting client |
| `character_login` | 2 accounts, 3 characters, 2 session objects, 2 queries in flight | `PlayerInWorld`: what a session plays is its own and in the world. `LoginEnds`: no session is left loading. `DeadSessionsGo`: a session whose link is down is deleted, wherever it stood. `ImplementsLoginQueue`, with its fairness. `CharTypeOK` |
| `character_login_twice` | the same with 3 session objects | finding 1 |
| `outbound` | 2 senders, 3 packets, room for 2 | `StreamIntact`: the bytes sent, in flight and pending are those queued, in order. `DrainedBeforeClose`, `QueuedIsSent`, `CloseHappens` |
| `outbound_cipher` | 2 packets, room for 1 | finding 2 |
| `session_lifecycle` | 2 connections | `PublishedIsAuthed`, `RejectedInTheClear`, `OpenSessionIsReachable`, `ClosedIsReclaimed` |
| `session_lifecycle_target` | 1 connection | finding 3 |
| `async_database` | world thread with 2 statements, a map worker with 1, 2 places in the queue | `WorkIsOwners`: no transaction holds another's statement. `QueriesSeeWrites`: a login reads what the logout before it saved. `NothingLeftBehind`, `EverythingSettles`, `ImplementsStore` |
| `mail` | 2 characters, 1 item, 1 gold, price 1, 2 mails, 2 places in the queue | `GoldConserved`, `ItemsInOnePlace`, `ItemsReachable`: through failed and unsure commits, kicks, logins and crashes no gold is made or lost, no item doubled, and every attached item is found, purchases from vendors in between. `MemoryIsStored`: what a player sees is what is stored once the queue is through. `ItemsStay`: an item leaves the tables only with a mail that expired. `MailTypeOK` |
| `mail_overtaken` | the same | finding 4 |
| `group_loot` | 4 players, 2 groups, 2 corpses, groups of at most 3 | `InvitesAgree`, `MembershipAgrees`: both records of an invitation and of a membership agree. `GroupsStand`: every group is led by a member and neither too small nor too large. `RollHoldsItem`: an item waiting for a roll is given once and has a roll the timer finds. `RollCountsItsVoters`: the totals are the votes of those still in it |

### Bounds

* Three maps and two workers: one map more than workers, so that a worker takes
  a second map, and two workers that race for the queue and for the last decrement.
* Four session objects for four accounts: a reconnect needs a second object for
  one account, a queue of two needs three, and an object is reused
  after its deletion. Accounts and objects are interchangeable, hence the symmetry;
  liveness runs have none.
* `Limit` is what the server starts with, `NewLimit` what `.server plimit` sets:
  no limit, below, equal and above, and a negative value.
* Two queries in flight (`MaxPending`): one of a dropped session, one of its successor.
* Three packets and a socket for two (`MaxPackets`, `SocketRoom`): a short write
  with a packet in flight and another appended behind it.
* Two characters, one item, one gold and two mails: a sale, its payment, a return or an expiry,
  and a save of either side queued in between. `MaxMail` and `MaxQueue` bound the
  model; vendors sell while a mail is left to send. The run (`Explored`) stops where the items
  are no longer safe, and where the balance is void and no mail is left: what the
  properties except from there on is not followed further.
* Four players for groups of at most three: a full group and one who is turned away, or
  two pairs. `PointersAreSound` stops behaviours where a player has slots in two
  groups or a freed `Player` is still pointed to; `FewAtOnce` lets one player at a time be away
  or an exception, opens corpses while somebody is offline and in no group, the first
  one, when somebody is adrift, only without invitations and finder groups, and the second one only within one
  settled group: enough for a leaver, a voter and a winner who cannot be found, and for the
  timer of one corpse ending the roll of another. All of this run's properties are proved
  without these bounds, for any players, groups, corpses and sizes.
* `Open` asks that a byte can count the members in reach: the counters of a roll are
  `uint8`, and no group has more than 40 members.
* Two statements and one (`MaxStmt`), two places (`MaxQueue`): a transaction of two
  statements that fails in its middle, beside another thread's, with an operation
  queued behind. `MaxQueue` and `MaxPending` bound only the models: the code's queues
  are unbounded.

`CHECK_DEADLOCK FALSE` stands where a finished behaviour is normal: all
connections are gone, all packets and statements of the bound are issued, the
database is halted (Outbound, SessionLifecycle, AsyncDatabase). In the other
runs deadlock is checked. It means most in MapUpdater, where a state without
a step would be a lost wakeup.

### Fairness

* MapUpdater: weak fairness of the world thread and of each worker: the operating
  system schedules runnable threads. Spurious wakeups and the decision to
  shut down are never owed.
* LoginQueue (`FairSpec`): each `UpdateSessions` empties the add queue and looks at
  every session. CharacterLogin: the same two, the database thread works and every
  tick handles results. Nothing makes a client log in, out, or drop.
* Mail and Group have no fairness: nothing in them is owed. (Expiry and timers come by
  the clock, saves by the delay thread, which AsyncDatabase covers.)
* Outbound: a call that was begun completes; the worker loops when the poller has
  something to report. `PeerReads` is fair: a client that stays connected reads.
  That is an assumption about the client and no fact about the code: with a peer that
  stops reading, `closeAfterDrain` waits for ever (see the hazards).
* SessionLifecycle: the worker finishes what it began, and comes to the end of what it
  received (strong fairness of `NeedMore`, since reading more frames is optional);
  a closed connection is torn down (Outbound); the world ticks.
* AsyncDatabase: the delay thread is scheduled; the lock's holder gets on; the
  delay thread and the world thread are not kept from the lock for ever (strong
  fairness, the lock comes and goes); results are handled every tick.

### Findings

1. `character_login_twice`: the login callback looks its session up by account id,
   and `HandlePlayerLogin` does not ask whether that session already plays. After a
   reconnect two characters of one account can be in the world, which
   `WorldSession.cpp` rules out in a comment.
2. `outbound_cipher`: the header is encrypted under `m_cryptSendLock` and the packet is
   queued after the lock is released, so two threads can queue in the order
   opposite to the keystream's, which is what the lock's comment is there to prevent.
3. `session_lifecycle_target`: the world deletes a session and leaves it in
   `WorldGateway::m_sessions` until the connection closes, so the network worker can
   look up a deleted session, which the header's comment rules out.
4. `mail_overtaken`: `HandleMailTakeItem` commits a sale directly while an earlier
   `SaveToDB` of the buyer waits for the delay thread, which then writes the
   balance from before the sale. The comment above the sale says that gold, item and payment
   move together or not at all.

The properties that hold are checked in specifications with those behaviours in
them: `PlayerInWorld` allows two characters of one account, `StreamIntact` speaks
of the order of queueing and not of encryption, `PublishedIsAuthed` and
`ClosedIsReclaimed` do not use the registry's pointers, and `GoldConserved` says which of the
hazards it survives.

Modelling the groups showed places where the code does not do what its comments say, or
what a reader would expect. No run refutes them; the properties except them by name:

* A member who is removed while `GetPlayer` does not find it (kicked while it changes
  maps or while its login queries are pending, or leaving a finder group from inside the
  dungeon, which teleports it first) keeps `m_group` (`adrift`). `PlayerGroup.cpp` and
  `LFGMgrProposal.cpp` take the two records to agree. When it leaves once more,
  `RemoveMember` counts the slots before it looks for the leaver's and can disband the
  pair that is left.
* `_addMember` of a finder group clears the player's invitation but erases it only from its own
  `m_invitees`: the other group keeps the raw pointer (`uprooted`), against the comment in
  `GroupMemberState.cpp`. An inviter so taken away can end with slots in two groups.
* `Disband` drops the rolls, and a winner who is not found is given nothing: in both cases
  the item stays blocked until the corpse decays (`stuck`).
* `EndRoll` ends every roll of the group, not only those of the corpse whose timer ran
  down; and a leaver never completes a roll, which then waits for its timer.
* `UninviteFromGroup` disbands a finder group of one when its invitation is declined,
  although `RemoveMember` says that such a group lives on.
* `IsFull` takes the size of a raid for finder groups.

## 4. What is proved

TLAPS checks these for every value of the constants, under the named assumptions
of the modules: finite `Account`, `Worker`, `Player` and `Char`, null values outside the sets they are
null for (`NoOpAssumption` says so of the operation at hand in AsyncDatabase), sizes
that make sense. Each proof has the same shape: an invariant `IInv`, stronger than what is
wanted, `Init => IInv`, `IInv /\ [Next]_vars => IInv'` with one step per action, and
`IInv => ` each property.

* `MapUpdaterProofs`: `TypeCorrect`, `PendingIsExact`, `BarrierHolds`,
  `NoDeletedMapHolds`, `UpdatedOnceHolds`, `PoolImplementsTick`. `PendingExact` and the types
  are inductive but do not give the barrier; that needs `Quiet` (outside the tick the counter
  is zero, which `wait` tests), `StopLate` and `PoolRuns` (the serial and the parallel
  path exclude each other, and the pool refuses work only at the end) and `TodoLoaded`. The
  last two theorems rest on `OwedOnce`: an update of the tick is owed by one place only, the
  list still to be scheduled, the queue, or one worker. With it every step of the pool is
  a step of `MapTick` or leaves it alone.
* `LoginQueueProofs`: `TypeCorrect`, `NoDanglingSessionHolds`,
  `FlagMatchesQueueHolds`, `PositionsToldHolds`, `QueueIsFifoHolds`, `SlotsFollowLimitHolds`. A session is filed under its own account (`Filed`), sessions in the
  add queue are in no other structure and only once there (`AddQueueApart`), the queue holds
  entered sessions, each once (`QueueEntered`), and only entered sessions are flagged
  (`FlagEntered`): without these the deletion of one session could leave a
  pointer to it elsewhere. `TypeCorrect` includes that `GetActiveSessionCount`, an unsigned
  subtraction, does not wrap: the queue's sessions are as many distinct members of the table.
  The other three are about what is left of the queue: a list without repetitions loses some
  members and grows at its end. `Told` is
  `PositionsTold` said of the list itself, who stands at which position; it is inductive, since a
  removal tells those behind it their new positions and whoever is admitted leaves at the front. `QueueIsFifo` needs no invariant beyond
  that list (`InOrder`). `SlotsFollowLimit` is arithmetic on two counts the code keeps no
  relation between, the players in the table and the queue: `Roomy` says that together they
  are at most the table, with room for one more where somebody present does neither.
* `CharacterLoginProofs`: `CharTypeCorrect`, `PlayerInWorldHolds`, `LoginsRefineTable`. Every
  step of a login is a step of LoginQueue or changes none of its variables, so the table's
  invariant carries over as it stands; what is added says what a session plays (`Playing`).
* `OutboundProofs`: `StreamIntactHolds`, `DrainedBeforeCloseHolds`. Appending and swapping
  keep the concatenation of the buffers; a connection is gone only after its teardown
  (`GoneIsClosed`), and what was owed when the close was asked for had been queued (`OwedWasPosted`).
* `SessionLifecycleProofs`: `TypeCorrect`, `PublishedIsAuthedHolds`,
  `RejectedInTheClearHolds`, `OpenSessionIsReachableHolds`, and the action property
  `OneSessionPerConnectionHolds`, which no run checks. The strengthening says of each connection what its
  state is before authentication (`Fresh`), inside `Attach` (`Attaching`) and after (`Serving`).
* `AsyncDatabaseProofs`: `WorkIsOwnersHolds`, `NothingLeftBehindHolds`,
  `DatabaseImplementsStore`, `QueriesSeeWritesHolds`. Whoever holds the lock has an operation at hand
  (`HolderAtWork`); the open transaction has done the part of it that the holder has
  executed (`WorkIsDone`); nobody calls after the stop (`StopsInOrder`). So each step of
  the connection either goes on with a transaction of which nothing shows, or settles one
  operation as a whole, which is a step of AsyncStore. `QueriesSeeWrites` needs a second
  invariant (`SeenInv`): a statement is held by the thread that issued it until it is handed
  over, once (`HeldByIssuer`, `LineIsOld`); what a query was queued behind is ahead of it in the
  line (`BehindIsAhead`) and nowhere any more when it is answered (`AnsweredIsSettled`), so it
  cannot take effect afterwards.
* `GroupProofs`: `PartyTypesCorrect`, `InvitationsAgreeAlways`, `MembershipsAgreeAlways`,
  `GroupsStandAlways`; over GroupLoot `LootKeepsParties`, `RollHoldsItemAlways`,
  `RollCountsItsVotersAlways`. `RemoveMember` may be called for several members of several
  groups in one handler, so its effect is proved once, for any function of leavers (`out`), and every
  action is an instance of it. The invariant adds to the properties that an invitation and
  a pointer name a group that is in use, for every player, the exceptions included.
  Each action of GroupLoot is a step of Group or leaves it alone, so these hold of
  looting as they stand (`LootKeepsParties`). The invariant of looting, `LootInv`, says of each corpse
  by itself (`SourceInv`) how item, roll and timer fit together. It needs a
  case the properties do not mention, the roll that is kept but not announced because one
  player or nobody is in reach (`Alone`: no vote counts there), which a leaver or
  the timer may still end; and that a roll's group is in use although the roll of a stuck
  item was dropped with its group.
* `MailProofs`: `MailTypes`, `ItemsInOnePlaceHolds`, `ItemsReachableHolds`, `ItemsStayHolds`, and `MailInvariant`
  on which they rest; `GoldConservedHolds` and the invariant `MailBooks` under it; `MemoryIsStoredHolds` and
  its invariant `MailKnown`; for any number of characters, items, mails and queued operations. "In
  one place" is about the tables only and far from inductive: memory writes to
  the tables later, so does a login's answer through memory, and a queued save writes what memory held. So
  the invariant (`OneClaim`) takes all four as claims on an item and says that no two
  claims differ in the mail (or inventory) or in its owner; an item in a bag and in a queued save of the
  same character is one claim made twice. `Letters`: a letter in memory has its row and at least the
  items attached to it, so what is taken from it is not attached elsewhere. `Expiries`: a mail
  whose expiry is queued is in nobody's mailbox, and whoever logs in reads it after the
  expiry; its statements stand in the queue side by side and name exactly the items attached to it.
  `Addressed` is `ItemsReachable` with the state between the two statements of an expiry put
  into words. `IInv` gives all this as long as `ItemsSafe`, that is until a hazard is met that items
  do not survive, and types, owners and ids always. The handlers are proved
  once, for a handler that changes the tables as one letter given away and one letter
  sent would (`Handled`), and every handler is an instance, in each outcome of its commit.

  That no gold is made or lost is not inductive either: a save that waits in the queue writes a
  balance and the rows of changed mails, and what it writes over may have changed. `Books` says why it has
  not, until a hazard is met. A character's balance takes a `Course` from the tables
  through its queued saves to memory: each save moves it by just the goods it carries
  and not beyond what the character has in all, so that `Restocked` never cuts at zero, and the last leads
  to what memory holds but for purchases not saved yet (`Balances`). A login's answer is what is
  stored, with no save of the character behind it (`Answers`). Letters in memory and the rows in queued
  saves have the money and price of the stored mail, no queued save of a mail stands
  behind its return to the sender (`Prices`, `Rewriting`). Then the sum stays what it
  was (`Sum`). `HandlerBooks` does this once for all handlers, which differ in the worth they give
  one mail and in what they take from a purse. The sums of the model are folds over functions and sets,
  about which the library has no theorem that could be used: `SumChange` and `MailSum` are
  proved by a least counterexample (`WFMin` on numbers, then on the size of a set). The gold needs
  `Char` finite; a realm has finitely many characters.

  `MemoryIsStored` speaks of the tables after all queued operations, a fold over the queue (`Folded`).
  Money and goods then follow from `Balances`, as the course of a balance ends where the fold does
  (`FoldedMoney`, `FoldedGoods`), letters from `Prices` and `OneClaim`. Inventories need one more
  invariant (`Known`): of whoever is in the world or has an answer to a login waiting, what the tables
  hold and what any queued save of the same character will insert is in memory. A handler that takes
  an item out of memory would break it if a save that carries the item were still queued; that is the
  hazard "overtaken", which the property leaves out, and `SendMailKnown` is where it matters.

Only model-checked: liveness (`TickEnds`, `ShutdownEnds`, `DeadSessionsGo`, `LoginEnds`,
`QueuedIsSent`, `CloseHappens`, `ClosedIsReclaimed`, `EverythingSettles`) and with it the
fairness part of `ImplementsLoginQueue`, which is out of the prover's reach, as are ENABLED and
induction over data by the library's theorems. Every safety invariant and action property of the
passing runs is proved. No module here declares a RECURSIVE operator.

## 5. What is not modelled

The table in section 1 says for each part why. Inside the modelled parts: packet
contents, the authentication proof, account bans and permissions (success or
failure by choice); timers that only delay (the logout countdown, the idle
timeout, which is a closed link here); the other network backends; the synchronous
database connections, prepared statements and escaping, the pool of connections for
queries; what player saving writes besides gold, inventory and mails.

Mail: items that a vendor sold and that are mailed later, what vendors take besides gold, postage, the limit of mails, stacks, delivery delays, the letter that can be copied into
an item, and mails of auctions, creatures and staff. Groups: raids and assistants, battleground groups,
vote kicks, ready checks, the order of the slots beyond who leads next, master loot and the
round robin; a client that answers a roll more than once (the game's asks
once per roll); and `JoinDungeonGroup` for a player who is adrift from that same
group, where the code leaves the group first and may delete it before it adds to it.

A login query whose packet is too short leaves `m_playerLoading` set after an
exception; the model has no malformed packets, and the hazard is listed as uncovered.

## 6. Plan

Done: MapUpdater, LoginQueue, CharacterLogin, Outbound, SessionLifecycle, AsyncDatabase, Mail,
Group and GroupLoot, in that order, each with its runs, and the proofs of section 4. Trade and
the battleground queue were dropped from the plan when their opcodes turned out not to be registered.

Next modules, by what they risk:

1. **PacketFilters**: the receive queue, the map's filter and the world's, one session
   that changes maps. Property: packets of one class are handled in order, none twice, none by
   two threads at once.
2. **The finder's proposals**: queue, proposal, answers, timeout, and logout of one of the
   proposed, up to the groups that Group makes of them.
3. **Auctions** or the **guild bank** over Mail: bids and deposits that leave as mails; two
   containers that change in one transaction.

Next theorems:

1. SessionLifecycle and CharacterLogin: action properties (what no step does to another
   connection, or to a character of another session) beside the invariants.
2. Whatever the modules above bring.
