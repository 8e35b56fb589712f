--------------------------------- MODULE Mail ---------------------------------
(***************************************************************************)
(* Gold and items of characters between three places: the memory of the    *)
(* world, the character database, and the saves that are queued for it     *)
(* (AsyncStore's line). The handlers of WorldHandlers/MailHandler.cpp      *)
(* commit directly while the world thread waits; Player::SaveToDB is       *)
(* queued and writes what memory held when it was queued.                  *)
(*                                                                         *)
(* A handler is one action with every outcome of its commit: done, rolled  *)
(* back, or applied although the call reports a failure. After a failure   *)
(* the client is kicked, and WorldSession::Update logs the player out      *)
(* before it handles another packet, so that is part of the action.        *)
(*                                                                         *)
(* Goods stand for what a vendor sells for gold and takes back for the     *)
(* same: balance and inventory change in memory only, until a save writes  *)
(* both. Left out: postage, the limit of mails, stacks, delivery delays,   *)
(* mailed goods, and the letter that can be copied into an item.           *)
(***************************************************************************)
EXTENDS Integers, Sequences, FiniteSets, FiniteSetsExt, SequencesExt

CONSTANTS
  Char,     \* characters
  Item,     \* items, each one of a kind
  Gold,     \* money in the world at the start
  Price,    \* what a seller may ask on delivery
  MaxMail,  \* bound: mails sent in a behaviour
  MaxQueue  \* bound: operations waiting for the database

ASSUME MailAssumption ==
  /\ IsFiniteSet(Char)
  /\ Gold \in Nat
  /\ Price \in Nat \ {0}
  /\ MaxMail \in Nat
  /\ MaxQueue \in Nat

VARIABLES
  db,      \* tables characters, character_inventory, mail and mail_items
  queue,   \* operations of the delay thread, in order
  online,  \* characters in the world
  mem,     \* the Player objects: money, goods, items, mailbox, what is not saved
  loading, \* answers to login queries, not yet handled
  nextId,  \* ObjectMgr::GenerateMailID
  burnt,   \* history: money in mails that were deleted when they expired
  tainted  \* history: hazards met so far, see the properties

mailVars == <<db, queue, online, mem, loading, nextId, burnt, tainted>>

Kind == {"normal", "returned", "payment"} \* MAIL_CHECK_MASK_RETURNED, _COD_PAYMENT
Amount == 0 .. Gold
Id == 1 .. MaxMail

\* A row of mail; in memory (class Mail) with its items.
MailRow == [id : Id, from : Char, to : Char, money : Nat, cod : {0, Price},
            kind : Kind, read : BOOLEAN]
Letter(m, items) ==
  [id |-> m.id, from |-> m.from, to |-> m.to, money |-> m.money, cod |-> m.cod,
   kind |-> m.kind, read |-> m.read, items |-> items]
RowOf(m) ==
  [id |-> m.id, from |-> m.from, to |-> m.to, money |-> m.money, cod |-> m.cod,
   kind |-> m.kind, read |-> m.read]

\* "unsaved" counts the goods bought (or, negative, sold) since the last save.
Offline == [money |-> 0, goods |-> 0, unsaved |-> 0, bag |-> {}, fresh |-> {},
            box |-> {}, changed |-> {}]

-------------------------------------------------------------------------------
(* The database.                                                            *)

Attached(d, id) == {a \in d.att : a.mail = id}

\* What LoginQueryHolder reads and Player::LoadFromDB makes of it. A direct commit
\* between its queries can only bring items whose mail was not read yet, which
\* _LoadMailedItems passes over, so the queries are one step.
LoadFromDB(d, c) ==
  [money |-> d.money[c],
   goods |-> d.goods[c],
   unsaved |-> 0,
   bag |-> {i \in Item : <<c, i>> \in d.bag},
   fresh |-> {},
   box |-> {Letter(m, {a.item : a \in {x \in Attached(d, m.id) : x.to = c}}) :
              m \in {x \in d.mail : x.to = c}},
   changed |-> {}]

\* A faulty variant of Rewritten, a bug this code could have; no run takes it.
\* The price is not among the columns a save rewrites.
RewrittenKeepsPrice(m, u) == [m EXCEPT !.money = u.money, !.kind = u.kind, !.read = u.read]

\* UPDATE mail SET money, cod, checked WHERE id, for the changed mails of a save.
Rewritten(m, u) ==
  [m EXCEPT !.money = u.money, !.cod = u.cod, !.kind = u.kind, !.read = u.read]

UpdateMails(rows, updates) ==
  {IF \E u \in updates : u.id = m.id
   THEN Rewritten(m, CHOOSE u \in updates : u.id = m.id) ELSE m : m \in rows}

\* Bought goods are inserted, sold ones deleted if their rows are there already.
Restocked(stored, change) == IF stored + change < 0 THEN 0 ELSE stored + change

\* One operation of the queue takes effect.
Apply(d, op) ==
  CASE op.op = "save" ->
         [d EXCEPT !.money[op.who] = op.money,
                   !.goods[op.who] = Restocked(@, op.goods),
                   !.bag = @ \cup {<<op.who, i>> : i \in op.insert},
                   !.mail = UpdateMails(@, op.mails)]
    [] op.op = "turn" -> \* an expired mail goes back to its sender
         [d EXCEPT !.mail = {IF m.id = op.id
                             THEN [m EXCEPT !.from = m.to, !.to = m.from, !.cod = 0,
                                            !.kind = "returned", !.read = FALSE]
                             ELSE m : m \in @}]
    [] op.op = "readdress" -> \* and its items after it
         [d EXCEPT !.att = {IF a.item \in op.items THEN [a EXCEPT !.to = op.to] ELSE a :
                              a \in @}]
    [] op.op = "dropItems" -> \* the instance of the item goes, so no join finds the rest
         [d EXCEPT !.att = {a \in @ : a.item \notin op.items},
                   !.bag = {r \in @ : r[2] \notin op.items}]
    [] op.op = "dropMail" -> [d EXCEPT !.mail = {m \in @ : m.id # op.id}]
    [] OTHER -> d

-------------------------------------------------------------------------------
(* Saves.                                                                   *)

\* Player::SaveToDB: the balance of this moment, the items that are new, the
\* mails that changed (_SaveInventory, _SaveMail).
ChangedRows(p) == {RowOf(m) : m \in {x \in p.box : x.id \in p.changed}}

SaveOf(c, p) ==
  [op |-> "save", who |-> c, money |-> p.money, goods |-> p.unsaved, insert |-> p.fresh,
   mails |-> ChangedRows(p)]

Saved(p) == [p EXCEPT !.fresh = {}, !.changed = {}, !.unsaved = 0]

Room(n) == Len(queue) + n <= MaxQueue
SaveQueued(c) == \E k \in DOMAIN queue : queue[k].op = "save" /\ queue[k].who = c

\* A direct commit takes effect before a save of older values.
Overtaking(c, token) == IF SaveQueued(c) THEN {token} ELSE {}

\* The balance is written without the goods it was spent on or earned with.
Splitting(c) == IF mem[c].unsaved # 0 THEN {"split"} ELSE {}

\* The autosave of Player::Update, and every other caller of SaveToDB.
Autosave(c) ==
  /\ c \in online
  /\ Room(1)
  /\ queue' = Append(queue, SaveOf(c, mem[c]))
  /\ mem' = [mem EXCEPT ![c] = Saved(@)]
  /\ UNCHANGED <<db, online, loading, nextId, burnt, tainted>>

\* WorldSession::LogoutPlayer, with memory p.
LogoutWith(c, p) ==
  /\ Room(1)
  /\ queue' = Append(queue, SaveOf(c, p))
  /\ mem' = [mem EXCEPT ![c] = Offline]
  /\ online' = online \ {c}

Logout(c) ==
  /\ c \in online
  /\ LogoutWith(c, mem[c])
  /\ UNCHANGED <<db, loading, nextId, burnt, tainted>>

\* SaveToDB refuses after SuppressCharacterSave.
LogoutUnsaved(c) ==
  /\ mem' = [mem EXCEPT ![c] = Offline]
  /\ online' = online \ {c}
  /\ UNCHANGED queue

Loading(c) ==
  \/ loading[c] # <<>>
  \/ \E k \in DOMAIN queue : queue[k].op = "load" /\ queue[k].who = c

\* HandlePlayerLoginOpcode: the queries wait their turn behind earlier saves.
Login(c) ==
  /\ c \notin online
  /\ ~Loading(c)
  /\ Room(1)
  /\ queue' = Append(queue, [op |-> "load", who |-> c])
  /\ UNCHANGED <<db, online, mem, loading, nextId, burnt, tainted>>

\* The callback: Player::LoadFromDB.
EnterWorld(c) ==
  /\ loading[c] # <<>>
  /\ mem' = [mem EXCEPT ![c] = loading[c][1]]
  /\ online' = online \cup {c}
  /\ loading' = [loading EXCEPT ![c] = <<>>]
  /\ UNCHANGED <<db, queue, nextId, burnt, tainted>>

\* What mail id holds: GenerateMailID gives no id twice.
MoneyIn(d, id) ==
  IF \E m \in d.mail : m.id = id THEN (CHOOSE m \in d.mail : m.id = id).money ELSE 0

\* The delay thread. A transaction that fails is rolled back and given up.
Execute ==
  /\ queue # <<>>
  /\ queue' = Tail(queue)
  /\ LET op == Head(queue) IN
     /\ \/ db' = Apply(db, op) /\ UNCHANGED tainted
        \/ /\ op.op = "save" /\ db' = db
           /\ tainted' = tainted \cup (IF op.goods # 0 THEN {"split"} ELSE {})
     /\ loading' = IF op.op = "load"
                   THEN [loading EXCEPT ![op.who] = <<LoadFromDB(db, op.who)>>]
                   ELSE loading
     /\ burnt' = IF op.op = "dropMail" THEN burnt + MoneyIn(db, op.id) ELSE burnt
  /\ UNCHANGED <<online, mem, nextId>>

\* The server dies: memory and queue are gone. An expired mail that was on its
\* way back keeps its items under the old name ("torn").
Crash ==
  /\ online' = {}
  /\ mem' = [c \in Char |-> Offline]
  /\ loading' = [c \in Char |-> <<>>]
  /\ queue' = <<>>
  /\ tainted' = tainted \cup
       (IF queue # <<>> /\ Head(queue).op = "readdress" THEN {"torn"} ELSE {})
  /\ UNCHANGED <<db, nextId, burnt>>

\* StoreNewItem (loot, vendors, quests): an item that is only in memory. Its name
\* must be out of use.
Holds(p, i) == i \in p.bag \/ \E m \in p.box : i \in m.items

Nowhere(i) ==
  /\ \A r \in db.bag : r[2] # i
  /\ \A a \in db.att : a.item # i
  /\ \A c \in Char : ~Holds(mem[c], i) /\ (loading[c] # <<>> => ~Holds(loading[c][1], i))
  /\ \A k \in DOMAIN queue :
       /\ queue[k].op = "save" => i \notin queue[k].insert
       /\ queue[k].op = "dropItems" => i \notin queue[k].items

Obtain(c, i) ==
  /\ c \in online
  /\ Nowhere(i)
  /\ mem' = [mem EXCEPT ![c].bag = @ \cup {i}, ![c].fresh = @ \cup {i}]
  /\ UNCHANGED <<db, queue, online, loading, nextId, burnt, tainted>>

\* BuyItemFromVendorSlot (n = 1) and HandleSellItemOpcode (n = -1): memory only. After
\* the last mail of the bound there are no more.
Exchange(c, n) ==
  /\ c \in online
  /\ mem[c].money >= n /\ mem[c].goods >= -n
  /\ nextId <= MaxMail
  /\ mem' = [mem EXCEPT ![c].money = @ - n, ![c].goods = @ + n, ![c].unsaved = @ + n]
  /\ UNCHANGED <<db, queue, online, loading, nextId, burnt, tainted>>

BuyFromVendor(c) == Exchange(c, 1)
SellToVendor(c) == Exchange(c, -1)

-------------------------------------------------------------------------------
(* The handlers. CommitTransactionDirect is done, rolled back, or unsure:   *)
(* applied although it returns false. Where a statement cannot be staged    *)
(* and nothing was changed, the handler only answers; that is a stutter.    *)

\* Faulty variants of the definitions that follow, each a bug this code could
\* have; no run of this specification takes them.

\* mail_items.receiver is the sender.
StagedForSender(d, m, items) ==
  [d EXCEPT !.mail = @ \cup {m},
            !.att = @ \cup {[mail |-> m.id, item |-> i, to |-> m.from] : i \in items}]

\* The letter is put in the sender's mailbox.
DeliveredToSender(players, m, items) ==
  IF m.from \in online
  THEN [players EXCEPT ![m.from].box = @ \cup {Letter(m, items)}]
  ELSE players

\* The item is moved to the inventory as if it had its row there already.
TakenAsUnchanged(p, m, i) ==
  [p EXCEPT !.bag = @ \cup {i},
            !.box = (@ \ {m}) \cup {[m EXCEPT !.cod = 0, !.items = @ \ {i}]},
            !.changed = @ \cup {m.id}]

\* removedItems is not written: the row of mail_items stays.
TakenItemStaysAttached(c, p, m, i) ==
  [db EXCEPT !.money[c] = p.money - m.cod,
             !.goods[c] = Restocked(@, p.unsaved),
             !.bag = @ \cup {<<c, j>> : j \in p.fresh},
             !.mail = UpdateMails(@, ChangedRows(p))]

\* The balance before the sale is kept when the outcome is not known.
AdoptingNothing(p, money) == Saved(p)

-------------------------------------------------------------------------------
\* The transaction that leads to d takes effect.
Commits(c, d, token) == db' = d /\ tainted' = tainted \cup Overtaking(c, token)

RolledBack == db' = db /\ UNCHANGED tainted

\* The same, with the marks of what was not saved cleared already.
GivenUp(c) == db' = db /\ tainted' = tainted \cup Splitting(c)

\* MailDraft::StageMailToDB, and CompleteMailDelivery once it is durable.
Staged(d, m, items) ==
  [d EXCEPT !.mail = @ \cup {m},
            !.att = @ \cup {[mail |-> m.id, item |-> i, to |-> m.to] : i \in items}]

Delivered(players, m, items) ==
  IF m.to \in online
  THEN [players EXCEPT ![m.to].box = @ \cup {Letter(m, items)}]
  ELSE players

\* The items whose instance Item::SaveToDB or an earlier save wrote; one whose
\* save was given up has none, and nothing can be joined with it.
Existing(c, items) ==
  {i \in items :
     \/ i \in mem[c].fresh
     \/ \E r \in db.bag : r[2] = i
     \/ \E a \in db.att : a.item = i
     \/ \E k \in DOMAIN queue : queue[k].op = "save" /\ i \in queue[k].insert}

SendMail(c, r, gold, cod, items) ==
  /\ c \in online
  /\ r # c
  /\ ~(gold > 0 /\ cod > 0)
  /\ cod > 0 => items # {}
  /\ items \subseteq mem[c].bag
  /\ gold <= mem[c].money
  /\ nextId <= MaxMail
  /\ nextId' = nextId + 1
  /\ LET m == [id |-> nextId, from |-> c, to |-> r, money |-> gold, cod |-> cod,
               kind |-> "normal", read |-> FALSE]
         d == Staged([db EXCEPT !.money[c] = mem[c].money - gold,
                                !.bag = @ \ {<<c, i>> : i \in items}],
                     m, Existing(c, items))
         kept == [mem[c] EXCEPT !.fresh = @ \ items] \* Item::SaveToDB: unchanged now
     IN \/ /\ db' = d
           /\ tainted' = tainted \cup Overtaking(c, "overtaken") \cup Splitting(c)
           /\ mem' = Delivered([mem EXCEPT ![c].money = @ - gold,
                                           ![c].bag = @ \ items,
                                           ![c].fresh = @ \ items], m, items)
           /\ UNCHANGED <<queue, online>>
        \/ RolledBack /\ LogoutWith(c, kept)
        \/ /\ db' = d
           /\ tainted' = tainted \cup Overtaking(c, "overtaken") \cup Splitting(c)
                                 \cup (IF gold > 0 THEN {"unsure"} ELSE {})
           /\ LogoutWith(c, kept)
  /\ UNCHANGED <<loading, burnt>>

MarkAsRead(c, m) ==
  /\ c \in online
  /\ m \in mem[c].box
  /\ ~m.read
  /\ mem' = [mem EXCEPT ![c].box = (@ \ {m}) \cup {[m EXCEPT !.read = TRUE]},
                        ![c].changed = @ \cup {m.id}]
  /\ UNCHANGED <<db, queue, online, loading, nextId, burnt, tainted>>

WithoutMail(d, c, m) ==
  [d EXCEPT !.mail = {x \in @ : ~(x.id = m.id /\ x.to = c)},
            !.att = {a \in @ : ~(a.mail = m.id /\ a.to = c)}]

\* MAIL_STATE_DELETED: no handler but MarkAsRead accepts the letter from here on,
\* and it is empty.
Discarded(players, c, m) ==
  [players EXCEPT ![c].box = @ \ {m}, ![c].changed = @ \ {m.id}]

MailDelete(c, m) ==
  /\ c \in online
  /\ m \in mem[c].box
  /\ m.cod = 0 /\ m.money = 0 /\ m.items = {}
  /\ \/ /\ Commits(c, WithoutMail(db, c, m), "overtaken")
        /\ mem' = Discarded(mem, c, m)
        /\ UNCHANGED <<queue, online>>
     \/ RolledBack /\ LogoutWith(c, mem[c])
     \/ Commits(c, WithoutMail(db, c, m), "overtaken") /\ LogoutWith(c, mem[c])
  /\ UNCHANGED <<loading, nextId, burnt>>

ReturnToSender(c, m) ==
  /\ c \in online
  /\ m \in mem[c].box
  /\ m.kind # "returned" /\ m.from # c
  /\ nextId <= MaxMail
  /\ nextId' = nextId + 1
  /\ LET back == [id |-> nextId, from |-> c, to |-> m.from, money |-> m.money, cod |-> 0,
                  kind |-> "returned", read |-> FALSE]
         d == Staged(WithoutMail(db, c, m), back, Existing(c, m.items))
     IN \/ /\ Commits(c, d, "overtaken")
           /\ mem' = Delivered(Discarded(mem, c, m), back, m.items)
           /\ UNCHANGED <<queue, online>>
        \/ RolledBack /\ LogoutWith(c, mem[c])
        \/ Commits(c, d, "overtaken") /\ LogoutWith(c, mem[c])
  /\ UNCHANGED <<loading, burnt>>

\* HandleMailTakeItem saves the whole inventory, every changed mail and the
\* balance before the debit, which a later statement supersedes.
TakenInto(p, m, i) ==
  [p EXCEPT !.bag = @ \cup {i}, !.fresh = @ \cup {i},
            !.box = (@ \ {m}) \cup {[m EXCEPT !.cod = 0, !.items = @ \ {i}]},
            !.changed = @ \cup {m.id}]

WithTakenItem(c, p, m, i) ==
  [db EXCEPT !.money[c] = p.money - m.cod,
             !.goods[c] = Restocked(@, p.unsaved),
             !.bag = @ \cup {<<c, j>> : j \in p.fresh},
             !.mail = UpdateMails(@, ChangedRows(p)),
             !.att = {a \in @ : a.item # i}]

TakeItem(c, m, i) ==
  /\ c \in online
  /\ m \in mem[c].box
  /\ i \in m.items
  /\ m.cod = 0
  /\ LET p == TakenInto(mem[c], m, i)
         d == WithTakenItem(c, p, m, i)
     IN \/ /\ Commits(c, d, "overtaken")
           /\ mem' = [mem EXCEPT ![c] = Saved(p)]
           /\ UNCHANGED <<queue, online>>
        \/ GivenUp(c) /\ LogoutWith(c, Saved(p))
        \/ Commits(c, d, "overtaken") /\ LogoutWith(c, Saved(p))
  /\ UNCHANGED <<loading, nextId, burnt>>

\* Cash on delivery: the debit and the seller's payment join the transaction.
\* After a failed commit the balance that is durable is read and adopted, and
\* where that fails too the character is not saved.
Payment(c, m) ==
  [id |-> nextId, from |-> c, to |-> m.from, money |-> m.cod, cod |-> 0,
   kind |-> "payment", read |-> FALSE]

Adopting(p, money) == Saved([p EXCEPT !.money = money])

\* A queued save is about to change the balance that is read.
AdoptingEarly(c) ==
  IF FoldLeft(Apply, db, queue).money[c] # db.money[c] THEN {"adopted"} ELSE {}

BuyItem(c, m, i) ==
  /\ c \in online
  /\ m \in mem[c].box
  /\ i \in m.items
  /\ m.cod > 0 /\ m.cod <= mem[c].money
  /\ nextId <= MaxMail
  /\ nextId' = nextId + 1
  /\ LET p == TakenInto(mem[c], m, i)
         d == Staged(WithTakenItem(c, p, m, i), Payment(c, m), {})
     IN \/ /\ Commits(c, d, "overtakenSale")
           /\ mem' = Delivered([mem EXCEPT ![c] = Adopting(p, p.money - m.cod)],
                               Payment(c, m), {})
           /\ UNCHANGED <<queue, online>>
        \/ GivenUp(c) /\ LogoutWith(c, Saved(p)) \* the debit could not be staged
        \/ /\ \/ db' = db /\ tainted' = tainted \cup AdoptingEarly(c)
              \/ Commits(c, d, "overtakenSale")
           /\ LogoutWith(c, Adopting(p, db'.money[c])) \/ LogoutUnsaved(c)
  /\ UNCHANGED <<loading, burnt>>

TakeMoney(c, m) ==
  /\ c \in online
  /\ m \in mem[c].box
  /\ m.money > 0
  /\ LET d == [db EXCEPT !.money[c] = mem[c].money + m.money,
                         !.mail = {IF x.id = m.id /\ x.to = c
                                   THEN [x EXCEPT !.money = 0] ELSE x : x \in @}]
     IN \/ /\ db' = d
           /\ tainted' = tainted \cup Overtaking(c, "overtaken") \cup Splitting(c)
           /\ mem' = [mem EXCEPT ![c].money = @ + m.money,
                                 ![c].box = (@ \ {m}) \cup {[m EXCEPT !.money = 0]},
                                 ![c].changed = @ \cup {m.id}]
           /\ UNCHANGED <<queue, online>>
        \/ RolledBack /\ LogoutWith(c, mem[c])
        \/ /\ db' = d
           /\ tainted' = tainted \cup Overtaking(c, "overtaken") \cup Splitting(c)
                                 \cup {"unsure"}
           /\ LogoutWith(c, mem[c])
  /\ UNCHANGED <<loading, nextId, burnt>>

\* ObjectMgr::ReturnOrDeleteOldMails on one expired mail: statements of their
\* own, queued for the delay thread, after queries that do not wait for it.
\* GetPlayer does not know a receiver whose login is under way ("stale").
ExpiryOf(m, items) ==
  CASE items = {} -> <<[op |-> "dropMail", id |-> m.id]>>
    [] items # {} /\ m.kind = "normal" ->
         <<[op |-> "turn", id |-> m.id],
           [op |-> "readdress", items |-> items, to |-> m.from]>>
    [] OTHER -> <<[op |-> "dropItems", items |-> items], [op |-> "dropMail", id |-> m.id]>>

Expiring(id) ==
  \E k \in DOMAIN queue : queue[k].op \in {"turn", "dropMail"} /\ queue[k].id = id

Expire(m) ==
  LET ops == ExpiryOf(m, {a.item : a \in Attached(db, m.id)}) IN
  /\ m.to \notin online
  /\ ~Expiring(m.id)
  /\ Room(Len(ops))
  /\ queue' = queue \o ops
  /\ tainted' = tainted \cup (IF Loading(m.to) THEN {"stale"} ELSE {})
  /\ UNCHANGED <<db, online, mem, loading, nextId, burnt>>

-------------------------------------------------------------------------------
\* A realm that has just started: every mail was read, nobody is in.
MailInit ==
  /\ db \in {[money |-> gold, goods |-> [c \in Char |-> 0], bag |-> bag, mail |-> {},
               att |-> {}] :
               gold \in {g \in [Char -> Amount] : SumFunction(g) = Gold},
               bag \in SUBSET (Char \X Item)}
  /\ \A r, s \in db.bag : r[2] = s[2] => r = s
  /\ queue = <<>>
  /\ online = {}
  /\ mem = [c \in Char |-> Offline]
  /\ loading = [c \in Char |-> <<>>]
  /\ nextId = 1
  /\ burnt = 0
  /\ tainted = {}

OnLetter(c, m) ==
  \/ MarkAsRead(c, m)
  \/ MailDelete(c, m)
  \/ ReturnToSender(c, m)
  \/ \E i \in Item : TakeItem(c, m, i) \/ BuyItem(c, m, i)
  \/ TakeMoney(c, m)

MailNext ==
  \/ \E c \in Char : Autosave(c) \/ Logout(c) \/ Login(c) \/ EnterWorld(c)
  \/ \E c \in Char, i \in Item : Obtain(c, i)
  \/ \E c \in Char : BuyFromVendor(c) \/ SellToVendor(c)
  \/ \E c, r \in Char, gold \in Amount, cod \in {0, Price}, items \in SUBSET Item :
       SendMail(c, r, gold, cod, items)
  \/ \E c \in Char : \E m \in mem[c].box : OnLetter(c, m)
  \/ \E m \in db.mail : Expire(m)
  \/ Execute
  \/ Crash

MailSpec == MailInit /\ [][MailNext]_mailVars

-------------------------------------------------------------------------------
(* Properties. The books balance until a hazard is met that they do not      *)
(* survive: a direct commit overtakes a queued save of the same character   *)
(* ("overtaken", of a sale "overtakenSale"), a commit that moves money is   *)
(* unsure ("unsure"), a mail expires while its receiver logs in ("stale"),  *)
(* a balance is written and the goods it paid for are not ("split"), the    *)
(* balance adopted after a failed sale is one that a queued save is about   *)
(* to change ("adopted"), or the server dies between the statements of an   *)
(* expiry ("torn").                                                         *)
MoneySafe == tainted \subseteq {"torn"}
ItemsSafe == tainted \subseteq {"torn", "unsure", "overtakenSale", "adopted"}

Total(d) ==
  SumFunction(d.money) + SumFunction(d.goods) + MapThenSumSet(LAMBDA m : m.money, d.mail)

MailTypeOK ==
  /\ db \in [money : [Char -> Nat], goods : [Char -> Nat], bag : SUBSET (Char \X Item),
             mail : SUBSET MailRow, att : SUBSET [mail : Id, item : Item, to : Char]]
  /\ online \subseteq Char
  /\ nextId \in 1 .. MaxMail + 1
  /\ burnt \in Nat
  /\ \A c \in Char :
       /\ mem[c].fresh \subseteq mem[c].bag /\ mem[c].bag \subseteq Item
       /\ \A m \in mem[c].box : RowOf(m) \in MailRow /\ m.to = c /\ m.items \subseteq Item
       /\ c \in online \/ mem[c] = Offline
       /\ Len(loading[c]) <= 1

\* No gold, or goods bought with it, is made or lost in the tables, whichever
\* transactions fail, wherever the server dies, and in whatever order purchases,
\* saves and mails interleave.
GoldConserved == MoneySafe => Total(db) + burnt = Gold

\* The same after any sale, which HandleMailTakeItem says has "to move together
\* or not at all", whatever save of the buyer was queued before it.
SalesConserveGold == tainted \subseteq {"overtakenSale"} => Total(db) + burnt = Gold

\* An item is in one inventory or attached to one mail, never in two places.
Attachment(id, i, c) == [mail |-> id, item |-> i, to |-> c]
Places(i) == {Attachment(0, i, c) : c \in {x \in Char : <<x, i>> \in db.bag}}
               \cup {a \in db.att : a.item = i}

ItemsInOnePlace == ItemsSafe => \A i \in Item : Cardinality(Places(i)) <= 1

\* Once the expiries under way are through, every attached item belongs to a mail
\* of the same receiver, so that a login finds it.
ItemsReachable ==
  ItemsSafe /\ "torn" \notin tainted /\ (\A k \in DOMAIN queue : queue[k].op # "readdress")
    => \A a \in db.att : \E m \in db.mail : m.id = a.mail /\ m.to = a.to

\* What a player in the world sees is what is stored once the queue is through: the
\* balance and the goods, but for purchases that were not saved yet, no item in the
\* inventory that memory has given away; and each letter as it is stored already,
\* with the money, price and items it still has.
MemoryIsStored ==
  MoneySafe => LET after == FoldLeft(Apply, db, queue) IN \A c \in online :
    /\ mem[c].money = after.money[c] - mem[c].unsaved
    /\ mem[c].goods = after.goods[c] + mem[c].unsaved
    /\ \A r \in after.bag : r[1] = c => r[2] \in mem[c].bag
    /\ \A m \in mem[c].box : \E x \in db.mail :
         /\ x.id = m.id /\ x.to = c /\ x.money = m.money /\ x.cod = m.cod
         /\ \A i \in m.items : Places(i) = {} \/ Places(i) = {Attachment(m.id, i, c)}

\* An item that is stored stays stored, through failures, kicks and crashes, until
\* a mail that nobody collected expires with it.
ItemsStay ==
  [][\A i \in Item :
       Places(i) # {} /\ ItemsSafe' =>
         \/ Places(i)' # {}
         \/ /\ queue # <<>> /\ Head(queue).op = "dropItems"
            /\ i \in Head(queue).items]_mailVars

===============================================================================
