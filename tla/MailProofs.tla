-------------------------------- MODULE MailProofs --------------------------------
(***************************************************************************)
(* Items and gold in the mail, for any number of characters, items, mails  *)
(* and any amount of gold.                                                 *)
(*                                                                         *)
(* An item is in one place because whatever would write it to a table next *)
(* agrees: the inventory and the letters in memory, a login's answer, a    *)
(* queued save. So the invariant is about every claim on an item, and says *)
(* of the expiries that are under way that nobody holds their letters.     *)
(*                                                                         *)
(* Gold is conserved because a save that is queued only moves a balance    *)
(* the way that the goods which it carries explain, and rewrites a mail    *)
(* with the money and the price that its row has already. So the invariant *)
(* follows every balance through the queue, from what is stored to what    *)
(* memory holds. The sums in the model are folds: what a change of one     *)
(* summand does to them is proved here by a least counterexample.          *)
(***************************************************************************)
EXTENDS Mail, FiniteSetTheorems, SequenceTheorems, WellFoundedInduction, TLAPS

-----------------------------------------------------------------------------
(* Types.                                                                    *)

LetterRow == [id : Id, from : Char, to : Char, money : Nat, cod : {0, Price},
              kind : Kind, read : BOOLEAN, items : SUBSET Item]

Memory == [money : Nat, goods : Nat, unsaved : Int, bag : SUBSET Item, fresh : SUBSET Item,
           box : SUBSET LetterRow, changed : SUBSET Id]

Attaching == [mail : Id, item : Item, to : Char]

Tables == [money : [Char -> Nat], goods : [Char -> Nat], bag : SUBSET (Char \X Item),
           mail : SUBSET MailRow, att : SUBSET Attaching]

Operation ==
  [op : {"save"}, who : Char, money : Nat, goods : Int, insert : SUBSET Item, mails : SUBSET MailRow]
    \cup [op : {"load"}, who : Char]
    \cup [op : {"turn", "dropMail"}, id : Id]
    \cup [op : {"readdress"}, items : SUBSET Item, to : Char]
    \cup [op : {"dropItems"}, items : SUBSET Item]

Types ==
  /\ db \in Tables
  /\ queue \in Seq(Operation)
  /\ online \subseteq Char
  /\ mem \in [Char -> Memory]
  /\ loading \in [Char -> {<<>>} \cup {<<p>> : p \in Memory}]
  /\ nextId \in 1 .. MaxMail + 1
  /\ burnt \in Nat

\* What is in memory belongs to somebody in the world, and a new item to the inventory.
Owned(p, c) ==
  /\ p.fresh \subseteq p.bag
  /\ \A m \in p.box : m.to = c

Owners ==
  \A c \in Char :
    /\ c \notin online => mem[c] = Offline
    /\ Owned(mem[c], c)
    /\ loading[c] # <<>> => Owned(loading[c][1], c)

\* One login at a time, and none of a character in the world.
LoadOf(k, c) == queue[k].op = "load" /\ queue[k].who = c

Logins ==
  \A c \in Char :
    /\ c \in online => ~Loading(c)
    /\ \A k \in DOMAIN queue :
         LoadOf(k, c) => loading[c] = <<>> /\ \A j \in DOMAIN queue : LoadOf(j, c) => j = k

\* Ids are given in order, to one mail each.
Expiry(k) == queue[k].op \in {"turn", "dropMail"}

Numbered ==
  /\ \A x \in db.mail : x.id < nextId
  /\ \A a \in db.att : a.mail < nextId
  /\ \A x, y \in db.mail : x.id = y.id => x = y
  /\ \A k \in DOMAIN queue : Expiry(k) => queue[k].id < nextId

-----------------------------------------------------------------------------
(* Claims: an item is claimed for the inventory of a character (mail 0) or   *)
(* for a mail and its receiver.                                              *)

Place == [mail : Id \cup {0}, item : Item, to : Char]

Held(p, c, a) ==
  /\ a.to = c
  /\ \/ a.mail = 0 /\ a.item \in p.bag
     \/ \E m \in p.box : m.id = a.mail /\ a.item \in m.items

StoredAt(d, a) == a \in d.att \/ (a.mail = 0 /\ <<a.to, a.item>> \in d.bag)

AboutToStore(k, a) ==
  queue[k].op = "save" /\ queue[k].who = a.to /\ a.mail = 0 /\ a.item \in queue[k].insert

Claim(a) ==
  \/ StoredAt(db, a)
  \/ \E c \in Char : Held(mem[c], c, a)
  \/ \E c \in Char : loading[c] # <<>> /\ Held(loading[c][1], c, a)
  \/ \E k \in DOMAIN queue : AboutToStore(k, a)

OneClaim == \A a, b \in Place : Claim(a) /\ Claim(b) /\ a.item = b.item => a = b

\* A letter in memory has its row, and at least the items that are attached to it.
Backed(p, c) ==
  /\ \A m \in p.box : \E x \in db.mail : x.id = m.id /\ x.to = c
  /\ \A m, n \in p.box : m.id = n.id => m = n
  /\ \A m \in p.box : \A a \in db.att : a.mail = m.id /\ a.to = c => a.item \in m.items

Letters ==
  \A c \in Char : Backed(mem[c], c) /\ (loading[c] # <<>> => Backed(loading[c][1], c))

-----------------------------------------------------------------------------
(* Expiries under way.                                                       *)

Carried(id) == {a.item : a \in Attached(db, id)}

NoLetter(id) ==
  \A c \in Char :
    /\ \A m \in mem[c].box : m.id # id
    /\ loading[c] # <<>> => \A m \in loading[c][1].box : m.id # id

\* Who reads mail id next, reads it after the k-th operation.
NotRead(k, id) ==
  /\ NoLetter(id)
  /\ \A x \in db.mail : x.id = id => \A j \in 1 .. k - 1 : ~LoadOf(j, x.to)

Turning(k) ==
  queue[k].op = "turn" =>
    /\ k + 1 \in DOMAIN queue /\ queue[k + 1].op = "readdress"
    /\ NotRead(k, queue[k].id)
    /\ queue[k + 1].items = Carried(queue[k].id)
    /\ \A x \in db.mail : x.id = queue[k].id => x.from = queue[k + 1].to

Readdressing(k) ==
  queue[k].op = "readdress" =>
    IF k = 1
    THEN \E id \in Id :
           /\ id < nextId /\ NoLetter(id)
           /\ queue[k].items = Carried(id)
           /\ \A x \in db.mail : x.id = id => x.to = queue[k].to
    ELSE queue[k - 1].op = "turn"

Dropping(k) ==
  /\ queue[k].op = "dropItems" => k + 1 \in DOMAIN queue /\ queue[k + 1].op = "dropMail"
  /\ queue[k].op = "dropMail" =>
       /\ NotRead(k, queue[k].id)
       /\ Carried(queue[k].id) =
            IF k # 1 /\ queue[k - 1].op = "dropItems" THEN queue[k - 1].items ELSE {}

Expiries ==
  /\ \A k \in DOMAIN queue : Turning(k) /\ Readdressing(k) /\ Dropping(k)
  /\ \A j, k \in DOMAIN queue : Expiry(j) /\ Expiry(k) /\ queue[j].id = queue[k].id => j = k

\* An attached item can be read, or will be when the readdressing is through.
Addressed ==
  \A a \in db.att : \E x \in db.mail :
    /\ x.id = a.mail
    /\ x.to # a.to => queue # <<>> /\ Head(queue).op = "readdress" /\ a.item \in Head(queue).items

Base == Types /\ Owners /\ Logins /\ Numbered

Safe == OneClaim /\ Letters /\ Expiries /\ ("torn" \notin tainted => Addressed)

IInv == Base /\ (ItemsSafe => Safe)

-----------------------------------------------------------------------------
(* The operators of the model.                                               *)

LEMMA LetterIs ==
  ASSUME NEW m \in MailRow, NEW items \in SUBSET Item
  PROVE  /\ Letter(m, items) \in LetterRow
         /\ Letter(m, items).id = m.id /\ Letter(m, items).to = m.to
         /\ Letter(m, items).items = items
BY DEF Letter, MailRow, LetterRow

LEMMA RowIs ==
  ASSUME NEW m \in LetterRow
  PROVE  RowOf(m) \in MailRow
BY DEF RowOf, MailRow, LetterRow

LEMMA OfflineIs ==
  /\ Offline \in Memory
  /\ Offline.bag = {} /\ Offline.fresh = {} /\ Offline.box = {}
BY DEF Offline, Memory

LEMMA SavedIs ==
  ASSUME NEW p \in Memory
  PROVE  /\ Saved(p) \in Memory
         /\ Saved(p).bag = p.bag /\ Saved(p).box = p.box /\ Saved(p).fresh = {}
         /\ Saved(p).money = p.money
<1>1. ASSUME NEW q \in Memory
      PROVE  /\ [q EXCEPT !.fresh = {}] \in Memory
             /\ [q EXCEPT !.changed = {}] \in Memory
             /\ [q EXCEPT !.unsaved = 0] \in Memory
  BY DEF Memory
<1>2. Saved(p) = [[[p EXCEPT !.fresh = {}] EXCEPT !.changed = {}] EXCEPT !.unsaved = 0]
  BY DEF Saved
<1>3. Saved(p) \in Memory
  BY <1>1, <1>2
<1> QED BY <1>2, <1>3 DEF Memory

LEMMA SaveOfIs ==
  ASSUME NEW c \in Char, NEW p \in Memory
  PROVE  /\ SaveOf(c, p) \in Operation
         /\ SaveOf(c, p).op = "save" /\ SaveOf(c, p).who = c /\ SaveOf(c, p).insert = p.fresh
<1>1. ChangedRows(p) \in SUBSET MailRow
  BY RowIs DEF ChangedRows, Memory
<1>2. SaveOf(c, p) \in
        [op : {"save"}, who : Char, money : Nat, goods : Int, insert : SUBSET Item, mails : SUBSET MailRow]
  BY <1>1 DEF SaveOf, Memory
<1> QED BY <1>2 DEF Operation, SaveOf

\* Mails with the same numbers.
SameMail(x, y) == x.id = y.id /\ x.from = y.from /\ x.to = y.to

LEMMA UpdateIs ==
  ASSUME NEW rows \in SUBSET MailRow, NEW updates \in SUBSET MailRow
  PROVE  /\ UpdateMails(rows, updates) \in SUBSET MailRow
         /\ \A x \in UpdateMails(rows, updates) : \E y \in rows : SameMail(x, y)
         /\ \A y \in rows : \E x \in UpdateMails(rows, updates) : SameMail(x, y)
         /\ (\A x, y \in rows : x.id = y.id => x = y) =>
              \A x, y \in UpdateMails(rows, updates) : x.id = y.id => x = y
<1> DEFINE f(m) == IF \E u \in updates : u.id = m.id
                   THEN Rewritten(m, CHOOSE u \in updates : u.id = m.id) ELSE m
<1>1. ASSUME NEW m \in rows PROVE f(m) \in MailRow /\ SameMail(f(m), m)
  <2>1. CASE \E u \in updates : u.id = m.id
    <3>1. (CHOOSE u \in updates : u.id = m.id) \in MailRow
      BY <2>1
    <3>2. ASSUME NEW u \in MailRow PROVE Rewritten(m, u) \in MailRow /\ SameMail(Rewritten(m, u), m)
      BY DEF Rewritten, MailRow, SameMail
    <3> QED BY <2>1, <3>1, <3>2
  <2>2. CASE ~\E u \in updates : u.id = m.id
    BY <2>2 DEF SameMail
  <2> QED BY <2>1, <2>2
<1>2. UpdateMails(rows, updates) = {f(m) : m \in rows}
  BY DEF UpdateMails
<1> HIDE DEF f
<1>3. UpdateMails(rows, updates) \in SUBSET MailRow
  BY <1>1, <1>2
<1>4. \A x \in UpdateMails(rows, updates) : \E y \in rows : SameMail(x, y) /\ x = f(y)
  BY <1>1, <1>2
<1>5. \A y \in rows : \E x \in UpdateMails(rows, updates) : SameMail(x, y)
  BY <1>1, <1>2
<1>6. (\A x, y \in rows : x.id = y.id => x = y) =>
        \A x, y \in UpdateMails(rows, updates) : x.id = y.id => x = y
  BY <1>4 DEF SameMail
<1> QED BY <1>3, <1>4, <1>5, <1>6

LEMMA StagedIs ==
  ASSUME NEW d \in Tables, NEW m \in MailRow, NEW items \in SUBSET Item
  PROVE  /\ Staged(d, m, items) \in Tables
         /\ Staged(d, m, items).money = d.money
         /\ Staged(d, m, items).bag = d.bag
         /\ Staged(d, m, items).mail = d.mail \cup {m}
         /\ Staged(d, m, items).att = d.att \cup {Attachment(m.id, i, m.to) : i \in items}
<1>1. \A i \in items : Attachment(m.id, i, m.to) \in Attaching
  BY DEF Attachment, Attaching, MailRow
<1> DEFINE new == {Attachment(m.id, i, m.to) : i \in items}
<1>2. Staged(d, m, items) = [[d EXCEPT !.mail = @ \cup {m}] EXCEPT !.att = @ \cup new]
  BY DEF Staged, Attachment
<1>3. new \in SUBSET Attaching
  BY <1>1
<1> HIDE DEF new
<1>4. [d EXCEPT !.mail = @ \cup {m}] \in Tables /\ [d EXCEPT !.mail = @ \cup {m}].att = d.att
  BY DEF Tables
<1>5. ASSUME NEW t \in Tables PROVE [t EXCEPT !.att = @ \cup new] \in Tables
  BY <1>3, <1>5 DEF Tables
<1>6. Staged(d, m, items) \in Tables
  BY <1>2, <1>4, <1>5
<1>7. /\ Staged(d, m, items).money = d.money /\ Staged(d, m, items).bag = d.bag
      /\ Staged(d, m, items).mail = d.mail \cup {m} /\ Staged(d, m, items).att = d.att \cup new
  BY <1>2 DEF Tables
<1> QED BY <1>6, <1>7 DEF new

LEMMA DeliveredIs ==
  ASSUME NEW players \in [Char -> Memory], NEW m \in MailRow, NEW items \in SUBSET Item
  PROVE  /\ Delivered(players, m, items) \in [Char -> Memory]
         /\ \A e \in Char :
              /\ Delivered(players, m, items)[e].bag = players[e].bag
              /\ Delivered(players, m, items)[e].fresh = players[e].fresh
              /\ Delivered(players, m, items)[e].box =
                   players[e].box \cup (IF e = m.to /\ e \in online THEN {Letter(m, items)} ELSE {})
              /\ e \notin online => Delivered(players, m, items)[e] = players[e]
<1>1. m.to \in Char /\ Letter(m, items) \in LetterRow
  BY LetterIs DEF MailRow
<1>2. CASE m.to \in online
  <2>1. Delivered(players, m, items) = [players EXCEPT ![m.to].box = @ \cup {Letter(m, items)}]
    BY <1>2 DEF Delivered
  <2>2. \A e \in Char : players[e] \in Memory
    OBVIOUS
  <2> QED BY <1>1, <1>2, <2>1, <2>2 DEF Memory
<1>3. CASE m.to \notin online
  BY <1>3 DEF Delivered
<1> QED BY <1>2, <1>3

LEMMA WithoutIs ==
  ASSUME NEW d \in Tables, NEW c \in Char, NEW m
  PROVE  /\ WithoutMail(d, c, m) \in Tables
         /\ WithoutMail(d, c, m).bag = d.bag
         /\ WithoutMail(d, c, m).mail = {x \in d.mail : ~(x.id = m.id /\ x.to = c)}
         /\ WithoutMail(d, c, m).att = {a \in d.att : ~(a.mail = m.id /\ a.to = c)}
BY DEF WithoutMail, Tables

LEMMA RestockedIs ==
  ASSUME NEW n \in Nat, NEW k \in Int
  PROVE  Restocked(n, k) \in Nat
BY DEF Restocked

LEMMA TakenIs ==
  ASSUME NEW p \in Memory, NEW m \in p.box, NEW i \in m.items
  PROVE  LET n == [m EXCEPT !.cod = 0, !.items = @ \ {i}]
             q == TakenInto(p, m, i)
         IN  /\ q \in Memory /\ n \in LetterRow
             /\ q.money = p.money
             /\ q.bag = p.bag \cup {i} /\ q.fresh = p.fresh \cup {i}
             /\ q.box = (p.box \ {m}) \cup {n}
             /\ n.id = m.id /\ n.to = m.to /\ n.items = m.items \ {i}
<1>1. m \in LetterRow /\ i \in Item
  BY DEF Memory, LetterRow
<1>2. [m EXCEPT !.cod = 0, !.items = @ \ {i}] \in LetterRow
  BY <1>1 DEF LetterRow
<1>3. m.id \in Id
  BY <1>1 DEF LetterRow
<1> QED BY <1>1, <1>2, <1>3 DEF TakenInto, Memory, LetterRow

LEMMA WithTakenIs ==
  ASSUME db \in Tables, NEW c \in Char, NEW p \in Memory, NEW m \in LetterRow, NEW i,
         m.cod <= p.money
  PROVE  LET d == WithTakenItem(c, p, m, i)
         IN  /\ d \in Tables
             /\ d.bag = db.bag \cup {<<c, j>> : j \in p.fresh}
             /\ d.mail = UpdateMails(db.mail, ChangedRows(p))
             /\ d.att = {a \in db.att : a.item # i}
<1>1. ChangedRows(p) \in SUBSET MailRow
  BY RowIs DEF ChangedRows, Memory
<1>2. UpdateMails(db.mail, ChangedRows(p)) \in SUBSET MailRow
  BY <1>1, UpdateIs DEF Tables
<1>3. p.money - m.cod \in Nat
  BY MailAssumption DEF Memory, LetterRow
<1>4. Restocked(db.goods[c], p.unsaved) \in Nat
  BY RestockedIs DEF Tables, Memory
<1>5. {<<c, j>> : j \in p.fresh} \in SUBSET (Char \X Item)
  BY DEF Memory
<1> QED BY <1>2, <1>3, <1>4, <1>5 DEF WithTakenItem, Tables

-----------------------------------------------------------------------------
(* The queue.                                                                *)

LEMMA QueueIs ==
  ASSUME Types
  PROVE  /\ Len(queue) \in Nat /\ DOMAIN queue = 1 .. Len(queue)
         /\ \A k \in DOMAIN queue : queue[k] \in Operation
         /\ queue # <<>> => 1 \in DOMAIN queue /\ Head(queue) = queue[1]
<1>1. Len(queue) \in Nat /\ DOMAIN queue = 1 .. Len(queue) /\ \A k \in 1 .. Len(queue) : queue[k] \in Operation
  BY LenProperties DEF Types
<1>2. queue # <<>> => Len(queue) # 0
  BY EmptySeq DEF Types
<1>3. queue # <<>> => Head(queue) = queue[1]
  BY HeadTailProperties DEF Types
<1> QED BY <1>1, <1>2, <1>3

LEMMA Appended ==
  ASSUME Types, NEW o \in Operation, queue' = Append(queue, o)
  PROVE  /\ queue' \in Seq(Operation)
         /\ DOMAIN queue' = 1 .. Len(queue) + 1
         /\ DOMAIN queue \subseteq DOMAIN queue'
         /\ \A k \in DOMAIN queue' : k \notin DOMAIN queue => k = Len(queue) + 1
         /\ \A k \in DOMAIN queue : queue'[k] = queue[k]
         /\ queue'[Len(queue) + 1] = o
         /\ queue' # <<>> /\ (queue # <<>> => Head(queue') = Head(queue))
<1>1. /\ queue' \in Seq(Operation) /\ Len(queue') = Len(queue) + 1
      /\ \A k \in 1 .. Len(queue) : queue'[k] = queue[k]
      /\ queue'[Len(queue) + 1] = o
  BY AppendProperties DEF Types
<1>2. Len(queue) \in Nat /\ DOMAIN queue = 1 .. Len(queue) /\ DOMAIN queue' = 1 .. Len(queue')
  BY <1>1, QueueIs, LenProperties
<1>3. queue' # <<>> /\ Head(queue') = queue'[1]
  BY <1>1, <1>2, EmptySeq, HeadTailProperties
<1> QED BY <1>1, <1>2, <1>3, QueueIs

LEMMA Popped ==
  ASSUME Types, queue # <<>>, queue' = Tail(queue)
  PROVE  /\ queue' \in Seq(Operation)
         /\ DOMAIN queue' = 1 .. Len(queue) - 1 /\ Len(queue) \in Nat \ {0}
         /\ \A k \in DOMAIN queue' : k + 1 \in DOMAIN queue /\ queue'[k] = queue[k + 1]
         /\ \A k \in DOMAIN queue : k # 1 => k - 1 \in DOMAIN queue' /\ queue'[k - 1] = queue[k]
         /\ queue' # <<>> => Head(queue') = queue[2]
<1>1. /\ Len(queue) \in Nat \ {0} /\ DOMAIN queue = 1 .. Len(queue)
  BY QueueIs, EmptySeq DEF Types
<1>2. /\ queue' \in Seq(Operation) /\ Len(queue') = Len(queue) - 1
      /\ \A k \in 1 .. Len(queue') : queue'[k] = queue[k + 1]
  BY HeadTailProperties DEF Types
<1>3. DOMAIN queue' = 1 .. Len(queue')
  BY <1>2, LenProperties
<1>4. queue' # <<>> => Len(queue') # 0 /\ Head(queue') = queue'[1]
  BY <1>2, EmptySeq, HeadTailProperties
<1>5. \A k \in DOMAIN queue' : k + 1 \in DOMAIN queue /\ queue'[k] = queue[k + 1]
  BY <1>1, <1>2, <1>3
<1>6. \A k \in DOMAIN queue : k # 1 => k - 1 \in DOMAIN queue' /\ queue'[k - 1] = queue[k]
  BY <1>1, <1>2, <1>3
<1> QED BY <1>1, <1>2, <1>3, <1>4, <1>5, <1>6

\* What kinds of operations carry.
LEMMA OperationIs ==
  ASSUME NEW o \in Operation
  PROVE  /\ o.op \in {"save", "load", "turn", "dropMail", "readdress", "dropItems"}
         /\ o.op = "save" => /\ o.who \in Char /\ o.money \in Nat /\ o.goods \in Int
                             /\ o.insert \in SUBSET Item /\ o.mails \in SUBSET MailRow
         /\ o.op = "load" => o.who \in Char
         /\ o.op \in {"turn", "dropMail"} => o.id \in Id
         /\ o.op = "readdress" => o.items \in SUBSET Item /\ o.to \in Char
         /\ o.op = "dropItems" => o.items \in SUBSET Item
BY DEF Operation

-----------------------------------------------------------------------------
(* The handlers of a client, in general: what becomes of the player ...      *)

Outcome(c) ==
  \/ /\ UNCHANGED online
     /\ \/ queue' = queue
        \/ \E o \in Operation : o.op = "save" /\ o.who = c /\ queue' = Append(queue, o)
     /\ mem' \in [Char -> Memory]
     /\ \A e \in Char : Owned(mem'[e], e) /\ (e \notin online => mem'[e] = mem[e])
  \/ \E p \in Memory : LogoutWith(c, p)
  \/ LogoutUnsaved(c)

\* ... and of the tables: c gives the letters "gone" away, takes the items "in" out of
\* letters and puts the items "out" into the next letter, to r.
Booked(c, r, gone, in, out) ==
  /\ c \in online /\ r \in Char /\ in \subseteq Item /\ out \subseteq Item
  /\ UNCHANGED <<loading, burnt>>
  /\ db' \in Tables
  /\ nextId' = nextId \/ (nextId' = nextId + 1 /\ nextId <= MaxMail)
  /\ \A x, y \in db'.mail : x.id = y.id => x = y
  /\ \A x \in db'.mail :
       \/ nextId' # nextId /\ x.id = nextId /\ x.to = r
       \/ \E y \in db.mail : SameMail(x, y) /\ ~(y.id \in gone /\ y.to = c)
  /\ \A y \in db.mail : (y.id \in gone /\ y.to = c) \/ \E x \in db'.mail : SameMail(x, y)
  /\ \A a \in db'.att :
       \/ /\ nextId' # nextId /\ a.mail = nextId /\ a.to = r /\ a.item \in out
          /\ \E x \in db'.mail : x.id = nextId /\ x.to = r
       \/ a \in db.att /\ ~(a.mail \in gone /\ a.to = c) /\ a.item \notin in
  /\ \A a \in db.att : a \in db'.att \/ (a.mail \in gone /\ a.to = c) \/ a.item \in in

LEMMA OutcomeTypes ==
  ASSUME Base, NEW c \in online, Outcome(c)
  PROVE  /\ queue' \in Seq(Operation) /\ online' \subseteq online /\ mem' \in [Char -> Memory]
         /\ \/ queue' = queue
            \/ \E o \in Operation : o.op = "save" /\ o.who = c /\ queue' = Append(queue, o)
         /\ \A e \in Char : Owned(mem'[e], e) /\ (e \notin online' => mem'[e] = Offline)
<1>1. c \in Char /\ Types /\ Owners
  BY DEF Base, Types
<1>2. CASE /\ UNCHANGED online
           /\ \/ queue' = queue
              \/ \E o \in Operation : o.op = "save" /\ o.who = c /\ queue' = Append(queue, o)
           /\ mem' \in [Char -> Memory]
           /\ \A e \in Char : Owned(mem'[e], e) /\ (e \notin online => mem'[e] = mem[e])
  <2>1. queue' \in Seq(Operation)
    BY <1>1, <1>2, Appended DEF Types
  <2> QED BY <1>1, <1>2, <2>1 DEF Owners
<1>3. ASSUME mem' = [mem EXCEPT ![c] = Offline], online' = online \ {c}
      PROVE  /\ online' \subseteq online /\ mem' \in [Char -> Memory]
             /\ \A e \in Char : Owned(mem'[e], e) /\ (e \notin online' => mem'[e] = Offline)
  <2>1. Offline \in Memory /\ Owned(Offline, c)
    BY OfflineIs DEF Owned
  <2>2. mem' \in [Char -> Memory] /\ \A e \in Char : mem'[e] = IF e = c THEN Offline ELSE mem[e]
    BY <1>1, <1>3, <2>1 DEF Types
  <2> QED BY <1>1, <1>3, <2>1, <2>2 DEF Owners
<1>4. ASSUME NEW p \in Memory, LogoutWith(c, p)
      PROVE  /\ queue' \in Seq(Operation)
             /\ \E o \in Operation : o.op = "save" /\ o.who = c /\ queue' = Append(queue, o)
             /\ mem' = [mem EXCEPT ![c] = Offline] /\ online' = online \ {c}
  BY <1>1, <1>4, SaveOfIs, Appended DEF LogoutWith
<1>5. ASSUME LogoutUnsaved(c)
      PROVE  queue' = queue /\ mem' = [mem EXCEPT ![c] = Offline] /\ online' = online \ {c}
  BY <1>5 DEF LogoutUnsaved
<1> QED BY <1>1, <1>2, <1>3, <1>4, <1>5 DEF Outcome, Types

\* Nobody begins to log in unless a load is queued.
LEMMA LoginsKept ==
  ASSUME Base, loading' = loading, online' \subseteq online,
         \/ queue' = queue
         \/ \E o \in Operation : o.op # "load" /\ queue' = Append(queue, o)
  PROVE  Logins'
<1>1. Types
  BY DEF Base
<1>2. CASE queue' = queue
  BY <1>2 DEF Base, Logins, Loading, LoadOf
<1>3. ASSUME NEW o \in Operation, o.op # "load", queue' = Append(queue, o)
      PROVE  Logins'
  <2>1. /\ DOMAIN queue \subseteq DOMAIN queue'
        /\ \A k \in DOMAIN queue' : k \notin DOMAIN queue => queue'[k].op # "load"
        /\ \A k \in DOMAIN queue : queue'[k] = queue[k]
    BY <1>1, <1>3, Appended
  <2> QED BY <2>1 DEF Base, Logins, Loading, LoadOf
<1> QED BY <1>2, <1>3

LEMMA HandlerBase ==
  ASSUME Base, NEW c, NEW r, NEW gone, NEW in, NEW out, Booked(c, r, gone, in, out), Outcome(c)
  PROVE  Base'
<1>1. /\ queue' \in Seq(Operation) /\ online' \subseteq online /\ mem' \in [Char -> Memory]
      /\ \/ queue' = queue
         \/ \E o \in Operation : o.op = "save" /\ o.who = c /\ queue' = Append(queue, o)
      /\ \A e \in Char : Owned(mem'[e], e) /\ (e \notin online' => mem'[e] = Offline)
  BY OutcomeTypes DEF Booked
<1>2. nextId \in Nat /\ nextId' \in 1 .. MaxMail + 1 /\ nextId <= nextId' /\ (nextId' # nextId => nextId < nextId')
  BY MailAssumption DEF Base, Types, Booked
<1>3. Types'
  BY <1>1, <1>2 DEF Booked, Base, Types
<1>4. Owners'
  BY <1>1 DEF Booked, Base, Owners
<1>5. Logins'
  <2>1. \A o \in Operation : o.op = "save" => o.op # "load"
    OBVIOUS
  <2> QED BY <1>1, <2>1, LoginsKept DEF Booked
<1>6. Numbered'
  <2>1. \A x \in db'.mail : x.id < nextId'
    <3> SUFFICES ASSUME NEW x \in db'.mail PROVE x.id < nextId'
      OBVIOUS
    <3>1. CASE nextId' # nextId /\ x.id = nextId
      BY <1>2, <3>1
    <3>2. ASSUME NEW y \in db.mail, SameMail(x, y) PROVE x.id < nextId'
      <4>1. y.id < nextId /\ y.id \in Nat
        BY DEF Base, Numbered, Types, Tables, MailRow, Id
      <4> QED BY <1>2, <3>2, <4>1 DEF SameMail
    <3> QED BY <3>1, <3>2 DEF Booked
  <2>2. \A a \in db'.att : a.mail < nextId'
    <3> SUFFICES ASSUME NEW a \in db'.att PROVE a.mail < nextId'
      OBVIOUS
    <3>1. CASE nextId' # nextId /\ a.mail = nextId
      BY <1>2, <3>1
    <3>2. CASE a \in db.att
      <4>1. a.mail < nextId /\ a.mail \in Nat
        BY <3>2 DEF Base, Numbered, Types, Tables, Attaching, Id
      <4> QED BY <1>2, <4>1
    <3> QED BY <3>1, <3>2 DEF Booked
  <2>3. \A k \in DOMAIN queue' : Expiry(k)' => queue'[k].id < nextId'
    <3>1. \A k \in DOMAIN queue : Expiry(k) => queue[k].id < nextId /\ queue[k].id \in Nat
      BY QueueIs, OperationIs DEF Base, Numbered, Expiry, Id
    <3>2. CASE queue' = queue
      BY <1>2, <3>1, <3>2 DEF Expiry
    <3>3. ASSUME NEW o \in Operation, o.op = "save", queue' = Append(queue, o)
          PROVE  \A k \in DOMAIN queue' : Expiry(k)' => queue'[k].id < nextId'
      <4>1. \A k \in DOMAIN queue' : k \notin DOMAIN queue => queue'[k].op = "save"
        BY <3>3, Appended DEF Base
      <4>2. \A k \in DOMAIN queue : queue'[k] = queue[k]
        BY <3>3, Appended DEF Base
      <4> QED BY <1>2, <3>1, <4>1, <4>2 DEF Expiry
    <3> QED BY <1>1, <3>2, <3>3
  <2> QED BY <2>1, <2>2, <2>3 DEF Booked, Numbered
<1> QED BY <1>3, <1>4, <1>5, <1>6 DEF Base

-----------------------------------------------------------------------------
(* The handlers of a client: what becomes of the items.                      *)

\* What c had to give away.
Given(c, gone, in, out) ==
  /\ in \cap out = {}
  /\ \A id \in gone : \E m \in mem[c].box : m.id = id
  /\ \A m \in mem[c].box : m.id \in gone => m.items \subseteq out
  /\ \A i \in in : \E m \in mem[c].box : i \in m.items
  /\ \A i \in out : i \in mem[c].bag \/ \E m \in mem[c].box : m.id \in gone /\ i \in m.items
  /\ \A i \in out, k \in DOMAIN queue : ~AboutToStore(k, Attachment(0, i, c))

\* The inventories in the tables.
Bagged(c, r, in, out) ==
  /\ \A e \in Char, i \in Item : <<e, i>> \in db'.bag =>
       \/ <<e, i>> \in db.bag /\ ~(e = c /\ i \in out)
       \/ e = c /\ i \in (mem[c].fresh \cup in) \ out
  /\ \A e \in Char, i \in Item : <<e, i>> \in db.bag => <<e, i>> \in db'.bag \/ i \in out
  /\ \A i \in in : <<c, i>> \in db'.bag
  /\ \A a \in Place : a.item \in out /\ StoredAt(db, a) => Attachment(nextId, a.item, r) \in db'.att

\* Memory, and what c's save takes with it.
Kept(c, r, gone, in, out) ==
  /\ \A e \in Char : mem'[e].bag \subseteq IF e = c THEN (mem[c].bag \ out) \cup in ELSE mem[e].bag
  /\ \A e \in Char : \A n \in mem'[e].box :
       \/ /\ nextId' # nextId /\ n.id = nextId /\ e = r /\ n.items = out
          /\ \E x \in db'.mail : x.id = nextId /\ x.to = r
       \/ \E m \in mem[e].box :
            /\ m.id = n.id /\ n.items = m.items \ (IF e = c THEN in ELSE {})
            /\ e = c => m.id \notin gone
  /\ \A e \in Char : \A m, n \in mem'[e].box : m.id = n.id => m = n
  /\ \/ queue' = queue
     \/ \E o \in Operation :
          /\ o.op = "save" /\ o.who = c /\ o.insert \subseteq mem[c].fresh \ out
          /\ queue' = Append(queue, o)

Dealt(c, r, gone, in, out) ==
  /\ Given(c, gone, in, out)
  /\ Bagged(c, r, in, out)
  /\ Kept(c, r, gone, in, out)
  /\ "torn" \in tainted => "torn" \in tainted'

\* What everybody agrees on.
LEMMA BaseIs ==
  ASSUME Base
  PROVE  /\ Types /\ nextId \in Nat
         /\ \A c \in Char : mem[c] \in Memory /\ mem[c].fresh \subseteq mem[c].bag
         /\ \A c \in Char : loading[c] # <<>> => loading[c][1] \in Memory /\ c \notin online
         /\ \A c \in Char : \A m \in mem[c].box : m \in LetterRow /\ m.to = c /\ m.id \in Id
         /\ \A c \in Char : loading[c] # <<>> =>
              \A m \in loading[c][1].box : m \in LetterRow /\ m.to = c /\ m.id \in Id
         /\ \A a \in db.att : a \in Place /\ a.mail \in Id /\ a.mail # 0 /\ a.mail # nextId
         /\ \A x \in db.mail : x \in MailRow /\ x.id \in Id /\ x.id # nextId /\ x.to \in Char
         /\ 0 \notin Id
<1>1. Types /\ nextId \in Nat /\ 0 \notin Id
  BY MailAssumption DEF Base, Types, Id
<1>2. \A c \in Char : mem[c] \in Memory /\ mem[c].fresh \subseteq mem[c].bag
  BY DEF Base, Types, Owners, Owned
<1>3. \A c \in Char : loading[c] # <<>> => loading[c][1] \in Memory /\ c \notin online
  BY DEF Base, Types, Logins, Loading
<1>4. \A c \in Char : \A m \in mem[c].box : m \in LetterRow /\ m.to = c /\ m.id \in Id
  BY <1>2 DEF Base, Owners, Owned, Memory, LetterRow
<1>5. \A c \in Char : loading[c] # <<>> =>
              \A m \in loading[c][1].box : m \in LetterRow /\ m.to = c /\ m.id \in Id
  BY <1>3 DEF Base, Owners, Owned, Memory, LetterRow
<1>6. \A a \in db.att : a \in Place /\ a.mail \in Id /\ a.mail # 0 /\ a.mail # nextId
  <2> SUFFICES ASSUME NEW a \in db.att PROVE a \in Place /\ a.mail \in Id /\ a.mail # 0 /\ a.mail # nextId
    OBVIOUS
  <2>1. a \in Attaching /\ a.mail < nextId
    BY DEF Base, Types, Tables, Numbered
  <2>2. a \in Place /\ a.mail \in Id
    BY <2>1 DEF Attaching, Place
  <2>3. a.mail # nextId
    BY <1>1, <2>1, <2>2 DEF Id
  <2> QED BY <1>1, <2>2, <2>3
<1>7. \A x \in db.mail : x \in MailRow /\ x.id \in Id /\ x.id # nextId /\ x.to \in Char
  <2> SUFFICES ASSUME NEW x \in db.mail PROVE x \in MailRow /\ x.id \in Id /\ x.id # nextId /\ x.to \in Char
    OBVIOUS
  <2>1. x \in MailRow /\ x.id < nextId
    BY DEF Base, Types, Tables, Numbered
  <2>2. x.id \in Id /\ x.to \in Char
    BY <2>1 DEF MailRow
  <2> QED BY <1>1, <2>1, <2>2 DEF Id
<1> QED BY <1>1, <1>2, <1>3, <1>4, <1>5, <1>6, <1>7

LEMMA PlaceIs ==
  ASSUME NEW n \in Id \cup {0}, NEW i \in Item, NEW c \in Char
  PROVE  /\ Attachment(n, i, c) \in Place
         /\ Attachment(n, i, c).mail = n /\ Attachment(n, i, c).item = i /\ Attachment(n, i, c).to = c
BY DEF Attachment, Place

LEMMA PlaceIsOf ==
  ASSUME NEW a \in Place
  PROVE  a = Attachment(a.mail, a.item, a.to)
BY DEF Attachment, Place

\* Every claim on an item in c's bag is for c's inventory; every claim on an item of a letter
\* in memory is for that letter.
LEMMA ClaimsIn ==
  ASSUME Base, OneClaim, NEW c \in Char, NEW a \in Place, Claim(a)
  PROVE  /\ a.item \in mem[c].bag => a.mail = 0 /\ a.to = c
         /\ \A m \in mem[c].box : a.item \in m.items => a.mail = m.id /\ a.to = c
         /\ \A m \in mem[c].box : a.item \in m.items => a.item \notin mem[c].bag
<1>1. ASSUME a.item \in mem[c].bag PROVE a.mail = 0 /\ a.to = c
  <2> DEFINE b == Attachment(0, a.item, c)
  <2>1. a.item \in Item /\ b \in Place /\ b.mail = 0 /\ b.item = a.item /\ b.to = c
    BY PlaceIs DEF Place
  <2> HIDE DEF b
  <2>2. Claim(b)
    BY <1>1, <2>1 DEF Claim, Held
  <2> QED BY <2>1, <2>2 DEF OneClaim
<1>2. ASSUME NEW m \in mem[c].box, a.item \in m.items PROVE a.mail = m.id /\ a.to = c
  <2> DEFINE b == Attachment(m.id, a.item, c)
  <2>1. m.id \in Id /\ a.item \in Item
    BY BaseIs DEF Place
  <2>2. b \in Place /\ b.mail = m.id /\ b.item = a.item /\ b.to = c
    BY <2>1, PlaceIs
  <2> HIDE DEF b
  <2>3. Claim(b)
    BY <1>2, <2>2 DEF Claim, Held
  <2> QED BY <2>2, <2>3 DEF OneClaim
<1> QED BY <1>1, <1>2, BaseIs

\* Where the items are claimed after a handler.
LEMMA DealtClaims ==
  ASSUME Base, OneClaim, NEW c, NEW r, NEW gone, NEW in, NEW out,
         Booked(c, r, gone, in, out), Dealt(c, r, gone, in, out), NEW a \in Place, Claim(a)'
  PROVE  /\ a.item \in in => a.mail = 0 /\ a.to = c
         /\ a.item \in out => a.mail = nextId /\ a.to = r
         /\ a.item \notin in /\ a.item \notin out => Claim(a)
<1> DEFINE Told == /\ a.item \in in => a.mail = 0 /\ a.to = c
                   /\ a.item \in out => a.mail = nextId /\ a.to = r
                   /\ a.item \notin in /\ a.item \notin out => Claim(a)
<1>1. c \in Char /\ c \in online /\ a.item \in Item /\ a.to \in Char /\ loading' = loading /\ in \cap out = {}
  BY DEF Booked, Dealt, Given, Base, Types, Place
\* What an item to be moved was claimed for.
<1>2. ASSUME Claim(a), a.item \in in PROVE a.mail # 0 /\ a.to = c /\ a.item \notin mem[c].bag
  <2>1. PICK m \in mem[c].box : a.item \in m.items
    BY <1>2 DEF Dealt, Given
  <2> QED BY <1>1, <1>2, <2>1, ClaimsIn, BaseIs
<1>3. ASSUME Claim(a), a.item \in out
      PROVE  /\ a.to = c
             /\ \/ a.mail = 0 /\ a.item \in mem[c].bag
                \/ a.mail \in gone /\ a.mail # 0 /\ a.item \notin mem[c].bag
  <2>1. CASE a.item \in mem[c].bag
    BY <1>1, <1>3, <2>1, ClaimsIn
  <2>2. ASSUME NEW m \in mem[c].box, m.id \in gone, a.item \in m.items
        PROVE  a.to = c /\ a.mail \in gone /\ a.mail # 0 /\ a.item \notin mem[c].bag
    BY <1>1, <1>3, <2>2, ClaimsIn, BaseIs
  <2> QED BY <1>3, <2>1, <2>2 DEF Dealt, Given
<1>4. CASE a \in db'.att
  <2>1. CASE nextId' # nextId /\ a.mail = nextId /\ a.to = r /\ a.item \in out
    BY <1>1, <2>1
  <2>2. CASE a \in db.att /\ ~(a.mail \in gone /\ a.to = c) /\ a.item \notin in
    <3>1. Claim(a) /\ a.mail # 0
      BY <2>2, BaseIs DEF Claim, StoredAt
    <3> QED BY <1>3, <2>2, <3>1
  <2> QED BY <1>4, <2>1, <2>2 DEF Booked
<1>5. CASE a.mail = 0 /\ <<a.to, a.item>> \in db'.bag
  <2>1. CASE <<a.to, a.item>> \in db.bag /\ ~(a.to = c /\ a.item \in out)
    <3>1. Claim(a)
      BY <1>5, <2>1 DEF Claim, StoredAt
    <3> QED BY <1>2, <1>3, <1>5, <2>1, <3>1
  <2>2. CASE a.to = c /\ a.item \in (mem[c].fresh \cup in) \ out
    <3>1. CASE a.item \in in
      BY <1>5, <2>2, <3>1
    <3>2. CASE a.item \notin in
      <4>1. a.item \in mem[c].bag
        BY <1>1, <2>2, <3>2, BaseIs
      <4>2. Claim(a)
        BY <1>1, <1>5, <2>2, <4>1 DEF Claim, Held
      <4> QED BY <2>2, <3>2, <4>2
    <3> QED BY <3>1, <3>2
  <2> QED BY <1>1, <1>5, <2>1, <2>2 DEF Dealt, Bagged
<1>6. ASSUME NEW e \in Char, a.to = e, a.mail = 0, a.item \in mem'[e].bag PROVE Told
  <2>1. CASE e = c
    <3>1. CASE a.item \in in
      BY <1>1, <1>6, <2>1, <3>1
    <3>2. CASE a.item \in mem[c].bag \ out
      <4>1. Claim(a)
        BY <1>1, <1>6, <2>1, <3>2 DEF Claim, Held
      <4> QED BY <1>2, <3>2, <4>1
    <3> QED BY <1>6, <2>1, <3>1, <3>2 DEF Dealt, Kept
  <2>2. CASE e # c
    <3>1. a.item \in mem[e].bag
      BY <1>6, <2>2 DEF Dealt, Kept
    <3>2. Claim(a)
      BY <1>6, <3>1 DEF Claim, Held
    <3> QED BY <1>2, <1>3, <1>6, <2>2, <3>2
  <2> QED BY <2>1, <2>2
<1>7. ASSUME NEW e \in Char, a.to = e, NEW n \in mem'[e].box, n.id = a.mail, a.item \in n.items PROVE Told
  <2>1. CASE n.id = nextId /\ e = r /\ n.items = out
    BY <1>1, <1>7, <2>1
  <2>2. ASSUME NEW m \in mem[e].box, m.id = n.id, n.items = m.items \ (IF e = c THEN in ELSE {}),
               e = c => m.id \notin gone
        PROVE  Told
    <3>1. a.item \in m.items /\ (e = c => a.item \notin in) /\ m.id \in Id /\ a.mail # 0
      BY <1>7, <2>2, BaseIs
    <3>2. Claim(a)
      BY <1>7, <2>2, <3>1 DEF Claim, Held
    <3> QED BY <1>2, <1>3, <1>7, <2>2, <3>1, <3>2
  <2> QED BY <1>7, <2>1, <2>2 DEF Dealt, Kept
<1>8. ASSUME NEW e \in Char, loading'[e] # <<>>, Held(loading'[e][1], e, a) PROVE Told
  <2>1. Claim(a) /\ a.to = e /\ e # c
    BY <1>1, <1>8, BaseIs DEF Claim, Held
  <2> QED BY <1>2, <1>3, <2>1
<1>9. ASSUME NEW k \in DOMAIN queue', AboutToStore(k, a)' PROVE Told
  <2>1. CASE queue' = queue
    <3>1. Claim(a) /\ a.mail = 0 /\ AboutToStore(k, a) /\ k \in DOMAIN queue
      BY <1>9, <2>1 DEF Claim, AboutToStore
    <3>2. a.item \notin out
      <4> SUFFICES ASSUME a.item \in out PROVE FALSE
        OBVIOUS
      <4>1. a = Attachment(0, a.item, c)
        BY <1>3, <3>1, PlaceIsOf
      <4> QED BY <3>1, <4>1 DEF Dealt, Given
    <3> QED BY <1>2, <3>1, <3>2
  <2>2. ASSUME NEW o \in Operation, o.op = "save", o.who = c, o.insert \subseteq mem[c].fresh \ out,
               queue' = Append(queue, o)
        PROVE  Told
    <3>1. (k \in DOMAIN queue /\ queue'[k] = queue[k]) \/ queue'[k] = o
      <4>1. \A j \in DOMAIN queue : queue'[j] = queue[j]
        BY <2>2, BaseIs, Appended
      <4>2. k \in DOMAIN queue \/ queue'[k] = o
        BY <1>9, <2>2, BaseIs, Appended
      <4> QED BY <4>1, <4>2
    <3>2. CASE k \in DOMAIN queue /\ queue'[k] = queue[k]
      <4>1. Claim(a) /\ a.mail = 0 /\ AboutToStore(k, a)
        BY <1>9, <3>2 DEF Claim, AboutToStore
      <4>2. a.item \notin out
        <5> SUFFICES ASSUME a.item \in out PROVE FALSE
          OBVIOUS
        <5>1. a = Attachment(0, a.item, c)
          BY <1>3, <4>1, PlaceIsOf
        <5> QED BY <3>2, <4>1, <5>1 DEF Dealt, Given
      <4> QED BY <1>2, <4>1, <4>2
    <3>3. CASE queue'[k] = o
      <4>1. a.mail = 0 /\ a.to = c /\ a.item \in mem[c].bag /\ a.item \notin out
        BY <1>1, <1>9, <2>2, <3>3, BaseIs DEF AboutToStore
      <4>2. Claim(a)
        BY <1>1, <4>1 DEF Claim, Held
      <4> QED BY <4>1, <4>2
    <3> QED BY <3>1, <3>2, <3>3
  <2> QED BY <2>1, <2>2 DEF Dealt, Kept
<1> QED BY <1>4, <1>5, <1>6, <1>7, <1>8, <1>9 DEF Claim, StoredAt, Held

LEMMA DealtOneClaim ==
  ASSUME Base, OneClaim, NEW c, NEW r, NEW gone, NEW in, NEW out,
         Booked(c, r, gone, in, out), Dealt(c, r, gone, in, out)
  PROVE  OneClaim'
<1> SUFFICES ASSUME NEW a \in Place, NEW b \in Place, Claim(a)', Claim(b)', a.item = b.item
             PROVE  a = b
  BY DEF OneClaim
<1>1. /\ a.item \in in => a.mail = 0 /\ a.to = c
      /\ a.item \in out => a.mail = nextId /\ a.to = r
      /\ a.item \notin in /\ a.item \notin out => Claim(a)
  BY DealtClaims
<1>2. /\ b.item \in in => b.mail = 0 /\ b.to = c
      /\ b.item \in out => b.mail = nextId /\ b.to = r
      /\ b.item \notin in /\ b.item \notin out => Claim(b)
  BY DealtClaims
<1>3. CASE a.mail = b.mail /\ a.to = b.to
  BY <1>3, PlaceIsOf
<1> QED BY <1>1, <1>2, <1>3 DEF OneClaim

LEMMA DealtLetters ==
  ASSUME Base, OneClaim, Letters, NEW c, NEW r, NEW gone, NEW in, NEW out,
         Booked(c, r, gone, in, out), Dealt(c, r, gone, in, out)
  PROVE  Letters'
<1>1. c \in Char /\ c \in online /\ loading' = loading /\ in \cap out = {}
  BY DEF Booked, Dealt, Given, Base, Types
<1>2. ASSUME NEW e \in Char, NEW p, NEW m \in p.box, Backed(p, e), e = c => m.id \notin gone
      PROVE  /\ \E x \in db'.mail : x.id = m.id /\ x.to = e
             /\ m.id # nextId
             /\ \A a \in db'.att : a.mail = m.id /\ a.to = e => a \in db.att /\ a.item \in m.items \ in
  <2>1. PICK y \in db.mail : y.id = m.id /\ y.to = e
    BY <1>2 DEF Backed
  <2>2. \E x \in db'.mail : SameMail(x, y)
    BY <1>2, <2>1 DEF Booked
  <2>3. m.id # nextId
    BY <2>1, BaseIs
  <2>4. ASSUME NEW a \in db'.att, a.mail = m.id, a.to = e
        PROVE  a \in db.att /\ a.item \in m.items \ in
    <3>1. a \in db.att /\ a.item \notin in
      BY <2>3, <2>4 DEF Booked
    <3> QED BY <1>2, <2>4, <3>1 DEF Backed
  <2> QED BY <2>1, <2>2, <2>3, <2>4 DEF SameMail
<1>3. ASSUME NEW e \in Char PROVE Backed(mem[e], e)' /\ (loading'[e] # <<>> => Backed(loading[e][1], e)')
  <2>1. Backed(mem[e], e)'
    <3>1. \A m, n \in mem'[e].box : m.id = n.id => m = n
      BY DEF Dealt, Kept
    <3>2. ASSUME NEW n \in mem'[e].box
          PROVE  /\ \E x \in db'.mail : x.id = n.id /\ x.to = e
                 /\ \A a \in db'.att : a.mail = n.id /\ a.to = e => a.item \in n.items
      <4>1. ASSUME n.id = nextId, e = r, n.items = out, \E x \in db'.mail : x.id = nextId /\ x.to = r
            PROVE  /\ \E x \in db'.mail : x.id = n.id /\ x.to = e
                   /\ \A a \in db'.att : a.mail = n.id /\ a.to = e => a.item \in n.items
        <5>1. \A a \in db'.att : a.mail = nextId => a.item \in out
          BY BaseIs DEF Booked
        <5> QED BY <4>1, <5>1
      <4>2. ASSUME NEW m \in mem[e].box, m.id = n.id, n.items = m.items \ (IF e = c THEN in ELSE {}),
                   e = c => m.id \notin gone
            PROVE  /\ \E x \in db'.mail : x.id = n.id /\ x.to = e
                   /\ \A a \in db'.att : a.mail = n.id /\ a.to = e => a.item \in n.items
        <5>1. Backed(mem[e], e)
          BY DEF Letters
        <5>2. /\ \E x \in db'.mail : x.id = m.id /\ x.to = e
              /\ \A a \in db'.att : a.mail = m.id /\ a.to = e => a.item \in m.items \ in
          BY <1>2, <4>2, <5>1
        <5> QED BY <4>2, <5>2
      <4> QED BY <4>1, <4>2 DEF Dealt, Kept
    <3> QED BY <3>1, <3>2 DEF Backed
  <2>2. ASSUME loading[e] # <<>> PROVE Backed(loading[e][1], e)'
    <3>1. Backed(loading[e][1], e) /\ e # c
      BY <1>1, <2>2, BaseIs DEF Letters
    <3>2. ASSUME NEW m \in loading[e][1].box
          PROVE  /\ \E x \in db'.mail : x.id = m.id /\ x.to = e
                 /\ \A a \in db'.att : a.mail = m.id /\ a.to = e => a.item \in m.items
      BY <1>2, <3>1, <3>2
    <3>3. \A m, n \in loading[e][1].box : m.id = n.id => m = n
      BY <3>1 DEF Backed
    <3> QED BY <1>1, <3>2, <3>3 DEF Backed
  <2> QED BY <1>1, <2>1, <2>2
<1> QED BY <1>1, <1>3 DEF Letters

\* An expiry goes on undisturbed if its mail, which nobody has in memory, stays as it is.
LEMMA ExpiriesKept ==
  ASSUME Base, Expiries, nextId \in Nat, nextId' \in Nat, nextId <= nextId',
         \/ queue' = queue
         \/ \E o \in Operation : o.op \in {"save", "load"} /\ queue' = Append(queue, o),
         \A id \in Id : id < nextId /\ NoLetter(id) =>
           /\ NoLetter(id)' /\ Carried(id)' = Carried(id)
           /\ \A x \in db'.mail : x.id = id => \E y \in db.mail : SameMail(x, y)
  PROVE  Expiries'
<1>1. /\ Len(queue) \in Nat /\ DOMAIN queue = 1 .. Len(queue)
      /\ \A k \in DOMAIN queue : k \in DOMAIN queue' /\ queue'[k] = queue[k]
      /\ \A k \in DOMAIN queue' : k \in DOMAIN queue \/ queue'[k].op \in {"save", "load"}
      /\ \A k \in DOMAIN queue' : k \in Nat \ {0}
  <2>1. Types
    BY DEF Base
  <2>2. CASE queue' = queue
    BY <2>1, <2>2, QueueIs
  <2>3. ASSUME NEW o \in Operation, o.op \in {"save", "load"}, queue' = Append(queue, o)
        PROVE  /\ \A k \in DOMAIN queue : k \in DOMAIN queue' /\ queue'[k] = queue[k]
               /\ \A k \in DOMAIN queue' : k \in DOMAIN queue \/ queue'[k].op \in {"save", "load"}
               /\ \A k \in DOMAIN queue' : k \in Nat \ {0}
    <3>1. /\ \A k \in DOMAIN queue' : k \notin DOMAIN queue => k = Len(queue) + 1
          /\ \A k \in DOMAIN queue : k \in DOMAIN queue' /\ queue'[k] = queue[k]
          /\ queue'[Len(queue) + 1] = o
      BY <2>1, <2>3, Appended
    <3>2. Len(queue) \in Nat /\ DOMAIN queue = 1 .. Len(queue)
      BY <2>1, QueueIs
    <3>3. \A k \in DOMAIN queue' : k \in DOMAIN queue \/ queue'[k] = o
      BY <3>1
    <3>4. \A k \in DOMAIN queue' : k \in Nat \ {0}
      BY <3>1, <3>2
    <3> QED BY <2>3, <3>1, <3>3, <3>4
  <2> QED BY <2>1, <2>2, <2>3, QueueIs
<1>2. \A k \in DOMAIN queue : Expiry(k) => queue[k].id \in Id /\ queue[k].id < nextId
  BY QueueIs, OperationIs DEF Base, Numbered, Expiry
<1>3. ASSUME NEW k \in DOMAIN queue, NEW id \in Id, id < nextId, NotRead(k, id) PROVE NotRead(k, id)'
  <2>1. NoLetter(id)'
    BY <1>3 DEF NotRead
  <2>2. ASSUME NEW x \in db'.mail, x.id = id, NEW j \in 1 .. k - 1 PROVE ~LoadOf(j, x.to)'
    <3>1. PICK y \in db.mail : SameMail(x, y)
      BY <1>3, <2>2 DEF NotRead
    <3>2. j \in DOMAIN queue
      BY <1>1
    <3>3. ~LoadOf(j, y.to)
      BY <1>3, <2>2, <3>1 DEF NotRead, SameMail
    <3> QED BY <1>1, <3>1, <3>2, <3>3 DEF LoadOf, SameMail
  <2> QED BY <2>1, <2>2 DEF NotRead
<1>4. ASSUME NEW k \in DOMAIN queue PROVE Turning(k)' /\ Readdressing(k)' /\ Dropping(k)'
  <2>1. Turning(k) /\ Readdressing(k) /\ Dropping(k) /\ queue'[k] = queue[k]
    BY <1>1 DEF Expiries
  <2>2. k # 1 => k - 1 \in DOMAIN queue /\ queue'[k - 1] = queue[k - 1]
    BY <1>1
  <2>3. k + 1 \in DOMAIN queue => k + 1 \in DOMAIN queue' /\ queue'[k + 1] = queue[k + 1]
    BY <1>1
  <2>4. ASSUME NEW id \in Id, queue[k].id = id, queue[k].op = "turn"
        PROVE  /\ k + 1 \in DOMAIN queue' /\ queue'[k + 1].op = "readdress"
               /\ NotRead(k, id)'
               /\ queue'[k + 1].items = Carried(id)'
               /\ \A x \in db'.mail : x.id = id => x.from = queue'[k + 1].to
    <3>1. /\ k + 1 \in DOMAIN queue /\ queue[k + 1].op = "readdress"
          /\ NotRead(k, id)
          /\ queue[k + 1].items = Carried(id)
          /\ \A x \in db.mail : x.id = id => x.from = queue[k + 1].to
      BY <2>1, <2>4 DEF Turning
    <3>2. id < nextId /\ NoLetter(id)
      BY <1>2, <2>4, <3>1 DEF Expiry, NotRead
    <3>3. NotRead(k, id)'
      BY <1>3, <3>1, <3>2
    <3>4. Carried(id)' = Carried(id)
      BY <3>2
    <3>5. \A x \in db'.mail : x.id = id => x.from = queue[k + 1].to
      BY <3>1, <3>2 DEF SameMail
    <3> QED BY <2>3, <3>1, <3>3, <3>4, <3>5
  <2>5. ASSUME NEW id \in Id, queue[k].id = id, queue[k].op = "dropMail"
        PROVE  /\ NotRead(k, id)'
               /\ Carried(id)' = IF k # 1 /\ queue'[k - 1].op = "dropItems" THEN queue'[k - 1].items ELSE {}
    <3>1. /\ NotRead(k, id)
          /\ Carried(id) = IF k # 1 /\ queue[k - 1].op = "dropItems" THEN queue[k - 1].items ELSE {}
      BY <2>1, <2>5 DEF Dropping
    <3>2. id < nextId /\ NoLetter(id)
      BY <1>2, <2>5, <3>1 DEF Expiry, NotRead
    <3>3. NotRead(k, id)'
      BY <1>3, <3>1, <3>2
    <3>4. Carried(id)' = Carried(id)
      BY <3>2
    <3> QED BY <2>2, <3>1, <3>3, <3>4
  <2>6. Expiry(k) => queue[k].id \in Id
    BY <1>2
  <2>7. Turning(k)'
    BY <2>1, <2>4, <2>6 DEF Turning, Expiry, NotRead, NoLetter, LoadOf, Carried, Attached
  <2>8. Dropping(k)'
    BY <2>1, <2>3, <2>5, <2>6 DEF Dropping, Expiry, NotRead, NoLetter, LoadOf, Carried, Attached
  <2>9. Readdressing(k)'
    <3>1. CASE k = 1 /\ queue[k].op = "readdress"
      <4>1. PICK id \in Id :
              /\ id < nextId /\ NoLetter(id) /\ queue[k].items = Carried(id)
              /\ \A x \in db.mail : x.id = id => x.to = queue[k].to
        BY <2>1, <3>1 DEF Readdressing
      <4>2. NoLetter(id)' /\ Carried(id)' = Carried(id)
            /\ \A x \in db'.mail : x.id = id => x.to = queue[k].to
        BY <4>1 DEF SameMail
      <4>3. id < nextId'
        BY <4>1 DEF Id
      <4> QED BY <2>1, <3>1, <4>1, <4>2, <4>3 DEF Readdressing
    <3>2. CASE ~(k = 1 /\ queue[k].op = "readdress")
      BY <2>1, <2>2, <3>2 DEF Readdressing
    <3> QED BY <3>1, <3>2
  <2> QED BY <2>7, <2>8, <2>9
<1>5. ASSUME NEW k \in DOMAIN queue', k \notin DOMAIN queue
      PROVE  Turning(k)' /\ Readdressing(k)' /\ Dropping(k)' /\ ~Expiry(k)'
  <2>1. queue'[k].op \in {"save", "load"}
    BY <1>1, <1>5
  <2> QED BY <2>1 DEF Turning, Readdressing, Dropping, Expiry
<1>6. \A j, k \in DOMAIN queue' : Expiry(j)' /\ Expiry(k)' /\ queue'[j].id = queue'[k].id => j = k
  <2> SUFFICES ASSUME NEW j \in DOMAIN queue', NEW k \in DOMAIN queue',
                      Expiry(j)', Expiry(k)', queue'[j].id = queue'[k].id
               PROVE  j = k
    OBVIOUS
  <2>1. j \in DOMAIN queue /\ k \in DOMAIN queue
    BY <1>5
  <2>2. queue'[j] = queue[j] /\ queue'[k] = queue[k]
    BY <1>1, <2>1
  <2> QED BY <2>1, <2>2 DEF Expiries, Expiry
<1>7. \A k \in DOMAIN queue' : Turning(k)' /\ Readdressing(k)' /\ Dropping(k)'
  BY <1>4, <1>5
<1> QED BY <1>6, <1>7 DEF Expiries

LEMMA DealtExpiries ==
  ASSUME Base, Base', OneClaim, Letters, Expiries, NEW c, NEW r, NEW gone, NEW in, NEW out,
         Booked(c, r, gone, in, out), Dealt(c, r, gone, in, out)
  PROVE  Expiries'
<1>1. c \in Char /\ loading' = loading
  BY DEF Booked, Base, Types
<1>2. nextId \in Nat /\ nextId' \in Nat /\ nextId <= nextId'
  BY BaseIs DEF Booked
<1>3. \/ queue' = queue
      \/ \E o \in Operation : o.op \in {"save", "load"} /\ queue' = Append(queue, o)
  BY DEF Dealt, Kept
<1>4. ASSUME NEW id \in Id, id < nextId, NoLetter(id)
      PROVE  /\ NoLetter(id)' /\ Carried(id)' = Carried(id)
             /\ \A x \in db'.mail : x.id = id => \E y \in db.mail : SameMail(x, y)
  <2>1. id # nextId /\ id \notin gone
    BY <1>1, <1>2, <1>4 DEF NoLetter, Dealt, Given, Id
  <2>2. NoLetter(id)'
    <3>1. ASSUME NEW e \in Char, NEW n \in mem'[e].box PROVE n.id # id
      <4>1. n.id = nextId \/ \E m \in mem[e].box : m.id = n.id
        BY <3>1 DEF Dealt, Kept
      <4> QED BY <1>4, <2>1, <4>1 DEF NoLetter
    <3> QED BY <1>1, <1>4, <3>1 DEF NoLetter
  <2>3. ASSUME NEW a \in db.att, a.mail = id PROVE a \in db'.att
    <3>1. a.item \notin in
      <4> SUFFICES ASSUME a.item \in in PROVE FALSE
        OBVIOUS
      <4>1. PICK m \in mem[c].box : a.item \in m.items
        BY DEF Dealt, Given
      <4>2. a \in Place /\ Claim(a)
        BY BaseIs DEF Claim, StoredAt
      <4>3. a.mail = m.id
        BY <1>1, <4>1, <4>2, ClaimsIn
      <4> QED BY <1>1, <1>4, <2>3, <4>3 DEF NoLetter
    <3> QED BY <2>1, <2>3, <3>1 DEF Booked
  <2>4. \A a \in db'.att : a.mail = id => a \in db.att
    BY <2>1 DEF Booked
  <2>5. Carried(id)' = Carried(id)
    BY <2>3, <2>4 DEF Carried, Attached
  <2>6. \A x \in db'.mail : x.id = id => \E y \in db.mail : SameMail(x, y)
    BY <2>1 DEF Booked
  <2> QED BY <2>2, <2>5, <2>6
<1> QED BY <1>2, <1>3, <1>4, ExpiriesKept

\* The items a readdressing at the front of the queue moves belong to a mail that nobody has
\* in memory.
LEMMA Readdressed ==
  ASSUME Base, OneClaim, Expiries, queue # <<>>, Head(queue).op = "readdress"
  PROVE  \E id \in Id :
           /\ NoLetter(id)
           /\ Head(queue).items = Carried(id)
           /\ \A a \in db.att : a.item \in Head(queue).items => a.mail = id
           /\ \A x \in db.mail : x.id = id => x.to = Head(queue).to
<1>1. Head(queue) = queue[1] /\ 1 \in DOMAIN queue
  BY QueueIs DEF Base
<1>2. PICK id \in Id : /\ NoLetter(id) /\ Head(queue).items = Carried(id)
                       /\ \A x \in db.mail : x.id = id => x.to = Head(queue).to
  BY <1>1 DEF Expiries, Readdressing
<1>3. ASSUME NEW a \in db.att, a.item \in Carried(id) PROVE a.mail = id
  <2>1. PICK b \in db.att : b.mail = id /\ b.item = a.item
    BY <1>3 DEF Carried, Attached
  <2>2. a \in Place /\ b \in Place /\ Claim(a) /\ Claim(b)
    BY BaseIs DEF Claim, StoredAt
  <2> QED BY <2>1, <2>2 DEF OneClaim
<1> QED BY <1>2, <1>3

LEMMA DealtAddressed ==
  ASSUME Base, OneClaim, Expiries, Addressed, NEW c, NEW r, NEW gone, NEW in, NEW out,
         Booked(c, r, gone, in, out), Dealt(c, r, gone, in, out)
  PROVE  Addressed'
<1> SUFFICES ASSUME NEW a \in db'.att
             PROVE  \E x \in db'.mail :
                      /\ x.id = a.mail
                      /\ x.to # a.to => /\ queue' # <<>> /\ Head(queue').op = "readdress"
                                        /\ a.item \in Head(queue').items
  BY DEF Addressed
<1>1. CASE a.mail = nextId /\ a.to = r /\ \E x \in db'.mail : x.id = nextId /\ x.to = r
  BY <1>1
<1>2. CASE a \in db.att /\ ~(a.mail \in gone /\ a.to = c)
  <2>1. PICK y \in db.mail :
          /\ y.id = a.mail
          /\ y.to # a.to => queue # <<>> /\ Head(queue).op = "readdress" /\ a.item \in Head(queue).items
    BY <1>2 DEF Addressed
  <2>2. ~(y.id \in gone /\ y.to = c)
    <3>1. CASE y.to = a.to
      BY <1>2, <2>1, <3>1
    <3>2. CASE y.to # a.to
      <4>1. PICK id \in Id : NoLetter(id) /\ a.mail = id
        BY <1>2, <2>1, <3>2, Readdressed
      <4> QED BY <2>1, <4>1 DEF NoLetter, Dealt, Given, Booked, Base, Types
    <3> QED BY <3>1, <3>2
  <2>3. PICK x \in db'.mail : SameMail(x, y)
    BY <2>2 DEF Booked
  <2>4. queue # <<>> => queue' # <<>> /\ Head(queue') = Head(queue)
    BY BaseIs, Appended DEF Dealt, Kept
  <2> QED BY <2>1, <2>3, <2>4 DEF SameMail
<1> QED BY <1>1, <1>2 DEF Booked

\* The handlers keep the invariant.
LEMMA DealtSafe ==
  ASSUME Base, Base', Safe, NEW c, NEW r, NEW gone, NEW in, NEW out,
         Booked(c, r, gone, in, out), Dealt(c, r, gone, in, out)
  PROVE  Safe'
<1>1. OneClaim' /\ Letters' /\ Expiries'
  BY DealtOneClaim, DealtLetters, DealtExpiries DEF Safe
<1>2. "torn" \notin tainted' => Addressed'
  BY DealtAddressed DEF Safe, Dealt
<1> QED BY <1>1, <1>2 DEF Safe

\* They lose nothing that is stored.
LEMMA DealtStays ==
  ASSUME Base, Safe, NEW c, NEW r, NEW gone, NEW in, NEW out,
         Booked(c, r, gone, in, out), Dealt(c, r, gone, in, out), NEW a \in Place, StoredAt(db, a)
  PROVE  \E b \in Place : b.item = a.item /\ StoredAt(db', b)
<1>1. /\ c \in Char /\ r \in Char /\ a.item \in Item /\ a.to \in Char /\ a.mail \in Id \cup {0}
      /\ \A n \in Id \cup {0}, i \in Item, e \in Char : Attachment(n, i, e) \in Place
  BY PlaceIs DEF Booked, Base, Types, Place
<1>2. CASE a.item \in out
  <2>1. Attachment(nextId, a.item, r) \in db'.att
    BY <1>2 DEF Dealt, Bagged
  <2>2. Attachment(nextId, a.item, r) \in Attaching
    BY <2>1 DEF Booked, Tables
  <2>3. Attachment(nextId, a.item, r) \in Place /\ Attachment(nextId, a.item, r).item = a.item
    BY <2>2 DEF Attachment, Attaching, Place
  <2> QED BY <2>1, <2>3 DEF StoredAt
<1>3. CASE a.item \in in
  <2> DEFINE b == Attachment(0, a.item, c)
  <2>1. <<c, a.item>> \in db'.bag
    BY <1>3 DEF Dealt, Bagged
  <2>2. b \in Place /\ b.mail = 0 /\ b.item = a.item /\ b.to = c
    <3>1. 0 \in Id \cup {0} /\ a.item \in Item /\ c \in Char
      BY <1>1
    <3> HIDE <1>1
    <3> QED BY <3>1, PlaceIs
  <2> HIDE DEF b
  <2>3. StoredAt(db', b)
    BY <2>1, <2>2 DEF StoredAt
  <2> QED BY <2>2, <2>3
<1>4. CASE a.item \notin in /\ a.item \notin out
  <2>1. CASE a.mail = 0 /\ <<a.to, a.item>> \in db.bag
    <3>1. <<a.to, a.item>> \in db'.bag
      BY <1>1, <1>4, <2>1 DEF Dealt, Bagged
    <3> QED BY <2>1, <3>1 DEF StoredAt
  <2>2. CASE a \in db.att
    <3>1. a \in db'.att
      <4> SUFFICES ASSUME a.mail \in gone, a.to = c PROVE FALSE
        BY <1>4, <2>2 DEF Booked
      <4>1. PICK m \in mem[c].box : m.id = a.mail
        BY DEF Dealt, Given
      <4>2. a.item \in m.items
        BY <1>1, <2>2, <4>1 DEF Safe, Letters, Backed
      <4> QED BY <1>4, <4>1, <4>2 DEF Dealt, Given
    <3> QED BY <3>1 DEF StoredAt
  <2> QED BY <2>1, <2>2 DEF StoredAt
<1> QED BY <1>2, <1>3, <1>4

-----------------------------------------------------------------------------
(* The handlers one by one.                                                  *)

Handled(c) ==
  /\ tainted \subseteq tainted'
  /\ Outcome(c)
  /\ \E r, gone, in, out :
       Booked(c, r, gone, in, out) /\ (Safe /\ ItemsSafe' => Dealt(c, r, gone, in, out))

\* The player is logged out, and what is saved of the inventory was new in it.
LeavesWithout(c, out) ==
  \/ \E p \in Memory : p.fresh \subseteq mem[c].fresh \ out /\ LogoutWith(c, p)
  \/ LogoutUnsaved(c)

LEMMA LeavingIs ==
  ASSUME Base, NEW c \in online, NEW r, NEW gone, NEW in, NEW out, LeavesWithout(c, out)
  PROVE  /\ Outcome(c)
         /\ Letters => Kept(c, r, gone, in, out)
<1>1. c \in Char /\ mem \in [Char -> Memory]
  BY DEF Base, Types
<1>2. mem' = [mem EXCEPT ![c] = Offline]
  BY DEF LeavesWithout, LogoutWith, LogoutUnsaved
<1>3. \A e \in Char : mem'[e] = IF e = c THEN Offline ELSE mem[e]
  BY <1>1, <1>2
<1>4. \/ queue' = queue
      \/ \E o \in Operation :
           /\ o.op = "save" /\ o.who = c /\ o.insert \subseteq mem[c].fresh \ out
           /\ queue' = Append(queue, o)
  <2>1. ASSUME NEW p \in Memory, p.fresh \subseteq mem[c].fresh \ out, LogoutWith(c, p)
        PROVE  \E o \in Operation :
                 /\ o.op = "save" /\ o.who = c /\ o.insert \subseteq mem[c].fresh \ out
                 /\ queue' = Append(queue, o)
    BY <1>1, <2>1, SaveOfIs DEF LogoutWith
  <2> QED BY <2>1 DEF LeavesWithout, LogoutUnsaved
<1>5. Outcome(c)
  BY DEF LeavesWithout, Outcome
<1>6. ASSUME Letters, NEW e \in Char
      PROVE  /\ mem'[e].bag \subseteq IF e = c THEN (mem[c].bag \ out) \cup in ELSE mem[e].bag
             /\ \A n \in mem'[e].box : e # c /\ n \in mem[e].box /\ n.items = n.items \ {}
             /\ \A m, n \in mem'[e].box : m.id = n.id => m = n
  BY <1>3, <1>6, OfflineIs DEF Letters, Backed
<1>7. Letters => Kept(c, r, gone, in, out)
  BY <1>4, <1>6 DEF Kept
<1> QED BY <1>5, <1>7

\* Nothing is stored, though an id may have been given.
LEMMA NothingBooked ==
  ASSUME Base, NEW c \in online, db' = db, UNCHANGED <<loading, burnt>>,
         nextId' = nextId \/ (nextId' = nextId + 1 /\ nextId <= MaxMail)
  PROVE  /\ Booked(c, c, {}, {}, {})
         /\ Given(c, {}, {}, {}) /\ Bagged(c, c, {}, {})
<1>1. c \in Char /\ db \in Tables
  BY DEF Base, Types
<1>2. Booked(c, c, {}, {}, {})
  BY <1>1 DEF Base, Numbered, Booked, SameMail
<1>3. Given(c, {}, {}, {}) /\ Bagged(c, c, {}, {})
  BY DEF Given, Bagged
<1> QED BY <1>2, <1>3

LEMMA RolledBackIs ==
  ASSUME Base, NEW c \in online, db' = db, UNCHANGED <<loading, burnt>>, tainted \subseteq tainted',
         nextId' = nextId \/ (nextId' = nextId + 1 /\ nextId <= MaxMail), LeavesWithout(c, {})
  PROVE  Handled(c)
<1>1. Booked(c, c, {}, {}, {}) /\ Given(c, {}, {}, {}) /\ Bagged(c, c, {}, {})
  BY NothingBooked
<1>2. Outcome(c) /\ (Letters => Kept(c, c, {}, {}, {}))
  BY LeavingIs
<1>3. Safe => Dealt(c, c, {}, {}, {})
  BY <1>1, <1>2 DEF Safe, Dealt
<1> QED BY <1>1, <1>2, <1>3 DEF Handled

LEMMA CommittedOutIs ==
  ASSUME Base, NEW c \in online, NEW r, NEW gone, NEW in, NEW out, tainted \subseteq tainted',
         Booked(c, r, gone, in, out), LeavesWithout(c, out),
         Safe /\ ItemsSafe' => Given(c, gone, in, out) /\ Bagged(c, r, in, out)
  PROVE  Handled(c)
<1>1. Outcome(c) /\ (Letters => Kept(c, r, gone, in, out))
  BY LeavingIs
<1>2. Safe /\ ItemsSafe' => Dealt(c, r, gone, in, out)
  BY <1>1 DEF Safe, Dealt
<1> QED BY <1>1, <1>2 DEF Handled

\* The player stays in the world, and only money, marks and letters' prices change.
LEMMA StayingIs ==
  ASSUME Base, NEW c \in online, NEW p \in Memory, mem' = [mem EXCEPT ![c] = p],
         p.bag = mem[c].bag, p.fresh \subseteq p.bag,
         \A n \in p.box : \E m \in mem[c].box : m.id = n.id /\ m.to = n.to /\ n.items = m.items,
         Letters => \A m, n \in p.box : m.id = n.id => m = n
  PROVE  /\ mem' \in [Char -> Memory]
         /\ \A e \in Char : Owned(mem'[e], e) /\ (e \notin online => mem'[e] = mem[e])
         /\ queue' = queue /\ Letters => Kept(c, c, {}, {}, {})
         /\ Letters /\ (\E o \in Operation : /\ o.op = "save" /\ o.who = c
                                             /\ o.insert \subseteq mem[c].fresh
                                             /\ queue' = Append(queue, o)) => Kept(c, c, {}, {}, {})
<1>1. c \in Char /\ mem \in [Char -> Memory]
  BY DEF Base, Types
<1>2. \A e \in Char : mem'[e] = IF e = c THEN p ELSE mem[e]
  BY <1>1
<1>3. mem' \in [Char -> Memory]
  BY <1>1
<1>4. \A e \in Char : Owned(mem'[e], e)
  BY <1>1, <1>2 DEF Base, Owners, Owned
<1>5. \A e \in Char : e \notin online => mem'[e] = mem[e]
  BY <1>2
<1>6. \A e \in Char : mem'[e].bag \subseteq IF e = c THEN (mem[c].bag \ {}) \cup {} ELSE mem[e].bag
  BY <1>2
<1>7. \A e \in Char : \A n \in mem'[e].box :
        \E m \in mem[e].box : m.id = n.id /\ n.items = m.items \ (IF e = c THEN {} ELSE {})
  BY <1>2
<1>8. Letters => \A e \in Char : \A m, n \in mem'[e].box : m.id = n.id => m = n
  BY <1>2 DEF Letters, Backed
<1>9. Letters /\ (queue' = queue \/ \E o \in Operation : /\ o.op = "save" /\ o.who = c
                                             /\ o.insert \subseteq mem[c].fresh \ {}
                                             /\ queue' = Append(queue, o)) => Kept(c, c, {}, {}, {})
  BY <1>6, <1>7, <1>8 DEF Kept
<1>10. mem[c].fresh \ {} = mem[c].fresh
  OBVIOUS
<1> QED BY <1>3, <1>4, <1>5, <1>9, <1>10

LEMMA LogoutIs ==
  ASSUME Base, NEW c \in online, LogoutWith(c, mem[c]),
         UNCHANGED <<db, loading, nextId, burnt, tainted>>
  PROVE  Handled(c)
<1>1. mem[c] \in Memory /\ mem[c].fresh \subseteq mem[c].fresh \ {}
  BY DEF Base, Types
<1>2. LeavesWithout(c, {})
  BY <1>1 DEF LeavesWithout
<1> QED BY <1>2, RolledBackIs

LEMMA AutosaveIs ==
  ASSUME Base, NEW c \in Char, Autosave(c)
  PROVE  c \in online /\ Handled(c)
<1>1. c \in online /\ mem[c] \in Memory /\ mem[c].fresh \subseteq mem[c].bag
  BY BaseIs DEF Autosave
<1>2. Saved(mem[c]) \in Memory /\ Saved(mem[c]).bag = mem[c].bag /\ Saved(mem[c]).box = mem[c].box
      /\ Saved(mem[c]).fresh = {}
  BY <1>1, SavedIs
<1>3. mem' = [mem EXCEPT ![c] = Saved(mem[c])]
  BY DEF Autosave
<1>4. \E o \in Operation : o.op = "save" /\ o.who = c /\ o.insert \subseteq mem[c].fresh
                             /\ queue' = Append(queue, o)
  BY <1>1, SaveOfIs DEF Autosave
<1>5. Letters => \A m, n \in Saved(mem[c]).box : m.id = n.id => m = n
  BY <1>2 DEF Letters, Backed
<1>6. /\ mem' \in [Char -> Memory]
      /\ \A e \in Char : Owned(mem'[e], e) /\ (e \notin online => mem'[e] = mem[e])
      /\ Letters => Kept(c, c, {}, {}, {})
  BY <1>1, <1>2, <1>3, <1>4, <1>5, StayingIs
<1>7. Outcome(c)
  BY <1>4, <1>6 DEF Outcome, Autosave
<1>8. Booked(c, c, {}, {}, {}) /\ Given(c, {}, {}, {}) /\ Bagged(c, c, {}, {})
  BY <1>1, NothingBooked DEF Autosave
<1> QED BY <1>1, <1>6, <1>7, <1>8 DEF Handled, Safe, Dealt, Autosave

LEMMA ExchangeIs ==
  ASSUME Base, NEW c \in Char, NEW n \in {-1, 1}, Exchange(c, n)
  PROVE  c \in online /\ Handled(c)
<1> DEFINE p == [mem[c] EXCEPT !.money = @ - n, !.goods = @ + n, !.unsaved = @ + n]
<1>1. c \in online /\ mem \in [Char -> Memory] /\ mem[c] \in Memory /\ mem[c].fresh \subseteq mem[c].bag
  BY BaseIs DEF Exchange, Types
<1>2. mem[c].money - n \in Nat /\ mem[c].goods + n \in Nat /\ mem[c].unsaved + n \in Int
  BY <1>1 DEF Exchange, Memory
<1>3. p \in Memory /\ p.bag = mem[c].bag /\ p.box = mem[c].box /\ p.fresh = mem[c].fresh
  BY <1>1, <1>2 DEF Memory
<1>4. mem' = [mem EXCEPT ![c] = p]
  BY <1>1 DEF Exchange
<1> HIDE DEF p
<1>5. Letters => \A m, l \in p.box : m.id = l.id => m = l
  BY <1>3 DEF Letters, Backed
<1>6. queue' = queue /\ online' = online
  BY DEF Exchange
<1>7. /\ mem' \in [Char -> Memory]
      /\ \A e \in Char : Owned(mem'[e], e) /\ (e \notin online => mem'[e] = mem[e])
      /\ Letters => Kept(c, c, {}, {}, {})
  BY <1>1, <1>3, <1>4, <1>5, <1>6, StayingIs
<1>8. Outcome(c)
  BY <1>6, <1>7 DEF Outcome
<1>9. Booked(c, c, {}, {}, {}) /\ Given(c, {}, {}, {}) /\ Bagged(c, c, {}, {})
  BY <1>1, NothingBooked DEF Exchange
<1> QED BY <1>1, <1>7, <1>8, <1>9 DEF Handled, Safe, Dealt, Exchange

\* A letter that was read, or whose money was taken, for what it was.
LEMMA RewrittenLetter ==
  ASSUME Base, NEW c \in Char, NEW m \in mem[c].box, NEW n \in LetterRow,
         n.id = m.id, n.to = m.to, n.items = m.items,
         NEW p, p.box = (mem[c].box \ {m}) \cup {n}
  PROVE  /\ \A l \in p.box : \E k \in mem[c].box : k.id = l.id /\ k.to = l.to /\ l.items = k.items
         /\ Letters => \A k, l \in p.box : k.id = l.id => k = l
BY DEF Letters, Backed

LEMMA MarkAsReadIs ==
  ASSUME Base, NEW c \in Char, NEW m, MarkAsRead(c, m)
  PROVE  c \in online /\ Handled(c)
<1> DEFINE n == [m EXCEPT !.read = TRUE]
           p == [mem[c] EXCEPT !.box = (@ \ {m}) \cup {n}, !.changed = @ \cup {m.id}]
<1>1. /\ c \in online /\ mem \in [Char -> Memory] /\ mem[c] \in Memory /\ mem[c].fresh \subseteq mem[c].bag
      /\ m \in mem[c].box /\ m \in LetterRow /\ m.id \in Id
  BY BaseIs DEF MarkAsRead, Types
<1>2. n \in LetterRow /\ n.id = m.id /\ n.to = m.to /\ n.items = m.items
  BY <1>1 DEF LetterRow
<1>3. mem' = [mem EXCEPT ![c] = p]
  BY <1>1 DEF MarkAsRead
<1> HIDE DEF n
<1>4. p \in Memory /\ p.bag = mem[c].bag /\ p.fresh = mem[c].fresh /\ p.box = (mem[c].box \ {m}) \cup {n}
  BY <1>1, <1>2 DEF Memory
<1> HIDE DEF p
<1>5. /\ \A l \in p.box : \E k \in mem[c].box : k.id = l.id /\ k.to = l.to /\ l.items = k.items
      /\ Letters => \A k, l \in p.box : k.id = l.id => k = l
  BY <1>1, <1>2, <1>4, RewrittenLetter
<1>6. queue' = queue /\ online' = online
  BY DEF MarkAsRead
<1>7. /\ mem' \in [Char -> Memory]
      /\ \A e \in Char : Owned(mem'[e], e) /\ (e \notin online => mem'[e] = mem[e])
      /\ Letters => Kept(c, c, {}, {}, {})
  BY <1>1, <1>3, <1>4, <1>5, <1>6, StayingIs
<1>8. Outcome(c)
  BY <1>6, <1>7 DEF Outcome
<1>9. Booked(c, c, {}, {}, {}) /\ Given(c, {}, {}, {}) /\ Bagged(c, c, {}, {})
  BY <1>1, NothingBooked DEF MarkAsRead
<1> QED BY <1>1, <1>7, <1>8, <1>9 DEF Handled, Safe, Dealt, MarkAsRead

LEMMA TakeMoneyIs ==
  ASSUME Base, NEW c \in Char, NEW m, TakeMoney(c, m)
  PROVE  c \in online /\ Handled(c)
<1> DEFINE f(x) == IF x.id = m.id /\ x.to = c THEN [x EXCEPT !.money = 0] ELSE x
           d == [db EXCEPT !.money[c] = mem[c].money + m.money, !.mail = {f(x) : x \in @}]
           n == [m EXCEPT !.money = 0]
           p == [mem[c] EXCEPT !.money = @ + m.money, !.box = (@ \ {m}) \cup {n},
                               !.changed = @ \cup {m.id}]
<1>1. /\ c \in online /\ mem \in [Char -> Memory] /\ mem[c] \in Memory /\ mem[c].fresh \subseteq mem[c].bag
      /\ m \in mem[c].box /\ m \in LetterRow /\ m.id \in Id /\ db \in Tables
      /\ UNCHANGED <<loading, nextId, burnt>> /\ nextId \in Nat
  BY BaseIs DEF TakeMoney, Types
<1>2. \/ db' = d /\ mem' = [mem EXCEPT ![c] = p] /\ UNCHANGED <<queue, online>> /\ tainted \subseteq tainted'
      \/ db' = db /\ tainted' = tainted /\ LogoutWith(c, mem[c])
      \/ db' = d /\ LogoutWith(c, mem[c]) /\ tainted \subseteq tainted'
  BY <1>1 DEF TakeMoney, RolledBack
<1>3. mem[c].money + m.money \in Nat
  BY <1>1 DEF Memory, LetterRow
<1>4. ASSUME NEW x \in db.mail PROVE f(x) \in MailRow /\ SameMail(f(x), x)
  <2>1. x \in MailRow
    BY <1>1 DEF Tables
  <2>2. [x EXCEPT !.money = 0] \in MailRow /\ SameMail([x EXCEPT !.money = 0], x) /\ SameMail(x, x)
    BY <2>1 DEF MailRow, SameMail
  <2> QED BY <2>1, <2>2
<1> DEFINE rows == {f(x) : x \in db.mail}
<1>5. rows \in SUBSET MailRow
  BY <1>4
<1>6. \A x \in rows : \E y \in db.mail : SameMail(x, y) /\ x = f(y)
  BY <1>4
<1>7. \A y \in db.mail : \E x \in rows : SameMail(x, y)
  BY <1>4
<1>8. d = [[db EXCEPT !.money[c] = mem[c].money + m.money] EXCEPT !.mail = rows]
  BY <1>1 DEF Tables
<1> HIDE DEF f, rows
<1>9. d \in Tables /\ d.bag = db.bag /\ d.att = db.att /\ d.mail = rows
  <2>1. [db EXCEPT !.money[c] = mem[c].money + m.money] \in Tables
    BY <1>1, <1>3 DEF Tables
  <2>2. /\ [db EXCEPT !.money[c] = mem[c].money + m.money].bag = db.bag
        /\ [db EXCEPT !.money[c] = mem[c].money + m.money].att = db.att
    BY <1>1 DEF Tables
  <2> QED BY <1>5, <1>8, <2>1, <2>2 DEF Tables
<1> HIDE DEF d
<1>10. ASSUME db' = d PROVE Booked(c, c, {}, {}, {}) /\ Given(c, {}, {}, {}) /\ Bagged(c, c, {}, {})
  <2>1. \A x, y \in rows : x.id = y.id => x = y
    BY <1>6 DEF Base, Numbered, SameMail
  <2>2. Booked(c, c, {}, {}, {})
    BY <1>1, <1>6, <1>7, <1>9, <1>10, <2>1 DEF Booked
  <2>3. Given(c, {}, {}, {}) /\ Bagged(c, c, {}, {})
    BY <1>9, <1>10 DEF Given, Bagged
  <2> QED BY <2>2, <2>3
<1>11. CASE db' = d /\ mem' = [mem EXCEPT ![c] = p] /\ UNCHANGED <<queue, online>> /\ tainted \subseteq tainted'
  <2>1. n \in LetterRow /\ n.id = m.id /\ n.to = m.to /\ n.items = m.items
    BY <1>1 DEF LetterRow
  <2> HIDE DEF n
  <2>2. p \in Memory /\ p.bag = mem[c].bag /\ p.fresh = mem[c].fresh /\ p.box = (mem[c].box \ {m}) \cup {n}
    BY <1>1, <1>3, <2>1 DEF Memory
  <2> HIDE DEF p
  <2>3. /\ \A l \in p.box : \E k \in mem[c].box : k.id = l.id /\ k.to = l.to /\ l.items = k.items
        /\ Letters => \A k, l \in p.box : k.id = l.id => k = l
    BY <1>1, <2>1, <2>2, RewrittenLetter
  <2>4. /\ mem' \in [Char -> Memory]
        /\ \A e \in Char : Owned(mem'[e], e) /\ (e \notin online => mem'[e] = mem[e])
        /\ Letters => Kept(c, c, {}, {}, {})
    BY <1>1, <1>11, <2>2, <2>3, StayingIs
  <2>5. Outcome(c)
    BY <1>11, <2>4 DEF Outcome
  <2> QED BY <1>1, <1>10, <1>11, <2>4, <2>5 DEF Handled, Safe, Dealt
<1>12. mem[c].fresh \subseteq mem[c].fresh \ {}
  OBVIOUS
<1>13. CASE db' = db /\ tainted' = tainted /\ LogoutWith(c, mem[c])
  BY <1>1, <1>12, <1>13, RolledBackIs DEF LeavesWithout
<1>14. CASE db' = d /\ LogoutWith(c, mem[c]) /\ tainted \subseteq tainted'
  <2>1. LeavesWithout(c, {})
    BY <1>1, <1>12, <1>14 DEF LeavesWithout
  <2> QED BY <1>1, <1>10, <1>14, <2>1, CommittedOutIs
<1> QED BY <1>1, <1>2, <1>11, <1>13, <1>14

-----------------------------------------------------------------------------
(* Letters that leave the mailbox.                                           *)

LEMMA DiscardedIs ==
  ASSUME Base, NEW c \in Char, NEW m \in mem[c].box
  PROVE  /\ Discarded(mem, c, m) \in [Char -> Memory]
         /\ \A e \in Char : e # c => Discarded(mem, c, m)[e] = mem[e]
         /\ Discarded(mem, c, m)[c].bag = mem[c].bag /\ Discarded(mem, c, m)[c].fresh = mem[c].fresh
         /\ Discarded(mem, c, m)[c].box = mem[c].box \ {m}
<1> DEFINE p == [mem[c] EXCEPT !.box = @ \ {m}, !.changed = @ \ {m.id}]
<1>1. mem \in [Char -> Memory] /\ mem[c] \in Memory
  BY DEF Base, Types
<1>2. Discarded(mem, c, m) = [mem EXCEPT ![c] = p]
  BY <1>1 DEF Discarded
<1>3. p \in Memory /\ p.bag = mem[c].bag /\ p.fresh = mem[c].fresh /\ p.box = mem[c].box \ {m}
  BY <1>1 DEF Memory
<1> QED BY <1>1, <1>2, <1>3

LEMMA MailDeleteIs ==
  ASSUME Base, NEW c \in Char, NEW m, MailDelete(c, m)
  PROVE  c \in online /\ Handled(c)
<1> DEFINE d == WithoutMail(db, c, m)
<1>1. /\ c \in online /\ mem \in [Char -> Memory] /\ mem[c] \in Memory /\ mem[c].fresh \subseteq mem[c].bag
      /\ m \in mem[c].box /\ m \in LetterRow /\ m.id \in Id /\ db \in Tables /\ m.items = {}
      /\ UNCHANGED <<loading, nextId, burnt>> /\ nextId \in Nat
  BY BaseIs DEF MailDelete, Types
<1>2. \/ db' = d /\ mem' = Discarded(mem, c, m) /\ UNCHANGED <<queue, online>> /\ tainted \subseteq tainted'
      \/ db' = db /\ tainted' = tainted /\ LogoutWith(c, mem[c])
      \/ db' = d /\ LogoutWith(c, mem[c]) /\ tainted \subseteq tainted'
  BY <1>1 DEF MailDelete, RolledBack, Commits
<1>3. /\ d \in Tables /\ d.bag = db.bag
      /\ d.mail = {x \in db.mail : ~(x.id = m.id /\ x.to = c)}
      /\ d.att = {a \in db.att : ~(a.mail = m.id /\ a.to = c)}
  <2>1. db \in Tables
    BY <1>1
  <2> QED BY <2>1, WithoutIs
<1> HIDE DEF d
<1>4. ASSUME db' = d
      PROVE  Booked(c, c, {m.id}, {}, {}) /\ (Safe => Given(c, {m.id}, {}, {})) /\ Bagged(c, c, {}, {})
  <2>1. \A x, y \in db'.mail : x.id = y.id => x = y
    BY <1>3, <1>4 DEF Base, Numbered
  <2>2. Booked(c, c, {m.id}, {}, {})
    BY <1>1, <1>3, <1>4, <2>1 DEF Booked, SameMail
  <2>3. Bagged(c, c, {}, {})
    BY <1>3, <1>4 DEF Bagged
  <2>4. ASSUME Safe PROVE Given(c, {m.id}, {}, {})
    <3>1. \A l \in mem[c].box : l.id = m.id => l = m
      BY <1>1, <2>4 DEF Safe, Letters, Backed
    <3> QED BY <1>1, <3>1 DEF Given
  <2> QED BY <2>2, <2>3, <2>4
<1>5. CASE db' = d /\ mem' = Discarded(mem, c, m) /\ UNCHANGED <<queue, online>> /\ tainted \subseteq tainted'
  <2>1. mem' \in [Char -> Memory]
    BY <1>1, <1>5, DiscardedIs
  <2>2. \A e \in Char : e # c => mem'[e] = mem[e]
    BY <1>1, <1>5, DiscardedIs
  <2>3. mem'[c].bag = mem[c].bag /\ mem'[c].fresh = mem[c].fresh /\ mem'[c].box = mem[c].box \ {m}
    BY <1>1, <1>5, DiscardedIs
  <2>4. \A e \in Char : Owned(mem'[e], e) /\ (e \notin online => mem'[e] = mem[e])
    BY <1>1, <2>2, <2>3 DEF Base, Owners, Owned
  <2>5. Outcome(c)
    BY <1>5, <2>1, <2>4 DEF Outcome
  <2>6. ASSUME Safe PROVE Kept(c, c, {m.id}, {}, {})
    <3>1. \A e \in Char : mem'[e].bag \subseteq IF e = c THEN (mem[c].bag \ {}) \cup {} ELSE mem[e].bag
      BY <2>2, <2>3
    <3>2. \A e \in Char : \A k, l \in mem[e].box : k.id = l.id => k = l
      BY <2>6 DEF Safe, Letters, Backed
    <3>3. \A e \in Char : \A n \in mem'[e].box :
            n \in mem[e].box /\ n.items = n.items \ (IF e = c THEN {} ELSE {}) /\ (e = c => n.id \notin {m.id})
      BY <1>1, <2>2, <2>3, <3>2
    <3>4. \A e \in Char : \A k, l \in mem'[e].box : k.id = l.id => k = l
      BY <3>2, <3>3
    <3> QED BY <1>5, <3>1, <3>3, <3>4 DEF Kept
  <2> QED BY <1>1, <1>4, <1>5, <2>5, <2>6 DEF Handled, Dealt
<1>6. mem[c].fresh \subseteq mem[c].fresh \ {}
  OBVIOUS
<1>7. CASE db' = db /\ tainted' = tainted /\ LogoutWith(c, mem[c])
  BY <1>1, <1>6, <1>7, RolledBackIs DEF LeavesWithout
<1>8. CASE db' = d /\ LogoutWith(c, mem[c]) /\ tainted \subseteq tainted'
  <2>1. LeavesWithout(c, {})
    BY <1>1, <1>6, <1>8 DEF LeavesWithout
  <2> QED BY <1>1, <1>4, <1>8, <2>1, CommittedOutIs
<1> QED BY <1>1, <1>2, <1>5, <1>7, <1>8

-----------------------------------------------------------------------------
(* Letters that are sent.                                                    *)

\* The tables before the new letter joins them.
Cleared(d, c, gone, in) ==
  /\ d \in Tables
  /\ \A x, y \in d.mail : x.id = y.id => x = y
  /\ \A x \in d.mail : \E y \in db.mail : SameMail(x, y) /\ ~(y.id \in gone /\ y.to = c)
  /\ \A y \in db.mail : (y.id \in gone /\ y.to = c) \/ \E x \in d.mail : SameMail(x, y)
  /\ d.att = {a \in db.att : ~(a.mail \in gone /\ a.to = c) /\ a.item \notin in}

LEMMA StagedBooked ==
  ASSUME Base, NEW c \in online, NEW r \in Char, NEW gone, NEW in \in SUBSET Item, NEW out \in SUBSET Item,
         NEW d, Cleared(d, c, gone, in),
         NEW m \in MailRow, m.id = nextId, m.to = r, NEW items \in SUBSET out,
         db' = Staged(d, m, items), nextId <= MaxMail, nextId' = nextId + 1,
         UNCHANGED <<loading, burnt>>
  PROVE  /\ Booked(c, r, gone, in, out)
         /\ nextId' # nextId /\ m \in db'.mail
         /\ db'.bag = d.bag
         /\ \A i \in items : Attachment(nextId, i, r) \in db'.att
<1>1. /\ db' \in Tables /\ db'.bag = d.bag /\ db'.mail = d.mail \cup {m}
      /\ db'.att = d.att \cup {Attachment(nextId, i, r) : i \in items}
  BY StagedIs DEF Cleared
<1>2. nextId \in Nat /\ nextId' # nextId /\ nextId \in Id
  BY BaseIs DEF Base, Types, Id
<1>3. \A x \in d.mail : x.id # nextId
  BY BaseIs DEF Cleared, SameMail
<1>4. \A x, y \in db'.mail : x.id = y.id => x = y
  BY <1>1, <1>3 DEF Cleared
<1>5. \A x \in db'.mail :
       \/ nextId' # nextId /\ x.id = nextId /\ x.to = r
       \/ \E y \in db.mail : SameMail(x, y) /\ ~(y.id \in gone /\ y.to = c)
  BY <1>1, <1>2 DEF Cleared
<1>6. \A y \in db.mail : (y.id \in gone /\ y.to = c) \/ \E x \in db'.mail : SameMail(x, y)
  BY <1>1 DEF Cleared
<1>7. \A i \in items : Attachment(nextId, i, r).mail = nextId /\ Attachment(nextId, i, r).to = r
                       /\ Attachment(nextId, i, r).item = i
  BY DEF Attachment
<1>8. \A a \in db'.att :
       \/ /\ nextId' # nextId /\ a.mail = nextId /\ a.to = r /\ a.item \in out
          /\ \E x \in db'.mail : x.id = nextId /\ x.to = r
       \/ a \in db.att /\ ~(a.mail \in gone /\ a.to = c) /\ a.item \notin in
  BY <1>1, <1>2, <1>7 DEF Cleared
<1>9. \A a \in db.att : a \in db'.att \/ (a.mail \in gone /\ a.to = c) \/ a.item \in in
  BY <1>1 DEF Cleared
<1>10. Booked(c, r, gone, in, out)
  BY <1>1, <1>4, <1>5, <1>6, <1>8, <1>9 DEF Booked
<1> QED BY <1>1, <1>2, <1>10

LEMMA DeliveredKept ==
  ASSUME Base, NEW c \in online, NEW r \in Char, NEW gone, NEW in, NEW out \in SUBSET Item,
         NEW players \in [Char -> Memory], \A e \in Char : e # c => players[e] = mem[e],
         Owned(players[c], c),
         NEW m \in MailRow, m.id = nextId, m.to = r, nextId' # nextId, m \in db'.mail,
         mem' = Delivered(players, m, out), UNCHANGED <<queue, online>>
  PROVE  /\ Outcome(c)
         /\ /\ Letters
            /\ players[c].bag \subseteq (mem[c].bag \ out) \cup in
            /\ \A n \in players[c].box : \E l \in mem[c].box :
                 l.id = n.id /\ n.items = l.items \ in /\ l.id \notin gone
            /\ \A k, l \in players[c].box : k.id = l.id => k = l
            => Kept(c, r, gone, in, out)
<1>1. c \in Char
  BY DEF Base, Types
<1> DEFINE new(e) == IF e = r /\ e \in online THEN {Letter(m, out)} ELSE {}
<1>2. mem' \in [Char -> Memory]
  BY DeliveredIs
<1>3. \A e \in Char : /\ mem'[e].bag = players[e].bag /\ mem'[e].fresh = players[e].fresh
                      /\ mem'[e].box = players[e].box \cup new(e)
                      /\ e \notin online => mem'[e] = players[e]
  BY DeliveredIs
<1>4. \A e \in Char : \A n \in new(e) : n.to = e /\ e = r /\ n.id = nextId /\ n.items = out
  BY LetterIs
<1> HIDE DEF new
<1>5. \A e \in Char : Owned(players[e], e)
  BY DEF Base, Owners
<1>6. \A e \in Char : Owned(mem'[e], e) /\ (e \notin online => mem'[e] = mem[e])
  BY <1>1, <1>3, <1>4, <1>5 DEF Owned
<1>7. Outcome(c)
  BY <1>2, <1>6 DEF Outcome
<1>8. ASSUME Letters,
             players[c].bag \subseteq (mem[c].bag \ out) \cup in,
             \A n \in players[c].box : \E l \in mem[c].box :
               l.id = n.id /\ n.items = l.items \ in /\ l.id \notin gone,
             \A k, l \in players[c].box : k.id = l.id => k = l
      PROVE  Kept(c, r, gone, in, out)
  <2>1. \A e \in Char : mem'[e].bag \subseteq IF e = c THEN (mem[c].bag \ out) \cup in ELSE mem[e].bag
    BY <1>3, <1>8
  <2>2. \A e \in Char : \A n \in players[e].box :
          \E l \in mem[e].box : /\ l.id = n.id /\ n.items = l.items \ (IF e = c THEN in ELSE {})
                                /\ e = c => l.id \notin gone
    <3>1. \A e \in Char : e # c => \A n \in players[e].box : n \in mem[e].box /\ n.items = n.items \ {}
      OBVIOUS
    <3> QED BY <1>8, <3>1
  <2>3. \A e \in Char : \A n \in players[e].box : n.id # nextId
    <3> SUFFICES ASSUME NEW e \in Char, NEW n \in players[e].box PROVE n.id # nextId
      OBVIOUS
    <3>1. PICK l \in mem[e].box : l.id = n.id
      BY <2>2
    <3>2. PICK x \in db.mail : x.id = l.id
      BY <1>8 DEF Letters, Backed
    <3> QED BY <3>1, <3>2, BaseIs
  <2>4. \A e \in Char : \A k, l \in players[e].box : k.id = l.id => k = l
    BY <1>8 DEF Letters, Backed
  <2>5. \A e \in Char : \A k, l \in new(e) : k = l
    BY DEF new
  <2>6. \A e \in Char : \A k, l \in mem'[e].box : k.id = l.id => k = l
    BY <1>3, <1>4, <2>3, <2>4, <2>5
  <2>7. \A e \in Char : \A n \in mem'[e].box :
       \/ /\ nextId' # nextId /\ n.id = nextId /\ e = r /\ n.items = out
          /\ \E x \in db'.mail : x.id = nextId /\ x.to = r
       \/ \E l \in mem[e].box :
            /\ l.id = n.id /\ n.items = l.items \ (IF e = c THEN in ELSE {})
            /\ e = c => l.id \notin gone
    BY <1>3, <1>4, <2>2
  <2> QED BY <2>1, <2>6, <2>7 DEF Kept
<1> QED BY <1>7, <1>8

LEMMA ExistingIs ==
  ASSUME NEW c \in Char, NEW items \in SUBSET Item
  PROVE  /\ Existing(c, items) \in SUBSET items
         /\ \A a \in Place : a.item \in items /\ StoredAt(db, a) => a.item \in Existing(c, items)
<1>1. ASSUME NEW a \in Place, a.item \in items, StoredAt(db, a) PROVE a.item \in Existing(c, items)
  <2>1. a.item \in Item
    BY DEF Place
  <2>2. (\E b \in db.att : b.item = a.item) \/ \E s \in db.bag : s[2] = a.item
    BY <1>1 DEF StoredAt
  <2> QED BY <1>1, <2>2 DEF Existing
<1> QED BY <1>1 DEF Existing

\* What memory says of an item rules out the other claims.
LEMMA ItemsApart ==
  ASSUME Base, OneClaim, NEW c \in Char, NEW m \in mem[c].box, NEW i \in m.items
  PROVE  /\ i \in Item /\ i \notin mem[c].bag /\ <<c, i>> \notin db.bag
         /\ \A k \in DOMAIN queue : ~AboutToStore(k, Attachment(0, i, c))
<1>1. i \in Item /\ m.id # 0
  BY BaseIs DEF LetterRow
<1> DEFINE b == Attachment(0, i, c)
<1>2. b \in Place /\ b.mail = 0 /\ b.item = i /\ b.to = c
  <2>1. 0 \in Id \cup {0}
    OBVIOUS
  <2> QED BY <1>1, <2>1, PlaceIs
<1> HIDE DEF b
<1>3. ~Claim(b)
  BY <1>1, <1>2, ClaimsIn
<1>4. i \notin mem[c].bag
  BY <1>2, <1>3 DEF Claim, Held
<1>5. <<c, i>> \notin db.bag
  BY <1>2, <1>3 DEF Claim, StoredAt
<1>6. \A k \in DOMAIN queue : ~AboutToStore(k, b)
  BY <1>3 DEF Claim
<1> QED BY <1>1, <1>4, <1>5, <1>6 DEF b

LEMMA ReturnToSenderIs ==
  ASSUME Base, NEW c \in Char, NEW m, ReturnToSender(c, m)
  PROVE  c \in online /\ Handled(c)
<1> DEFINE back == [id |-> nextId, from |-> c, to |-> m.from, money |-> m.money, cod |-> 0,
                    kind |-> "returned", read |-> FALSE]
           w == WithoutMail(db, c, m)
           d == Staged(w, back, Existing(c, m.items))
<1>1. /\ c \in online /\ mem \in [Char -> Memory] /\ mem[c] \in Memory /\ mem[c].fresh \subseteq mem[c].bag
      /\ m \in mem[c].box /\ m \in LetterRow /\ m.id \in Id /\ db \in Tables
      /\ UNCHANGED <<loading, burnt>> /\ nextId \in Nat /\ nextId <= MaxMail /\ nextId' = nextId + 1
      /\ nextId \in 1 .. MaxMail + 1
  BY BaseIs DEF ReturnToSender, Types
<1>2. \/ /\ db' = d /\ mem' = Delivered(Discarded(mem, c, m), back, m.items)
         /\ UNCHANGED <<queue, online>> /\ tainted \subseteq tainted'
      \/ db' = db /\ tainted' = tainted /\ LogoutWith(c, mem[c])
      \/ db' = d /\ LogoutWith(c, mem[c]) /\ tainted \subseteq tainted'
  BY <1>1 DEF ReturnToSender, RolledBack, Commits
<1>3. back \in MailRow /\ back.id = nextId /\ back.to = m.from /\ m.from \in Char /\ m.items \in SUBSET Item
  <2>1. nextId \in Id
    BY <1>1, MailAssumption DEF Id
  <2> QED BY <1>1, <2>1 DEF MailRow, LetterRow, Kind
<1> HIDE DEF back
<1>4. Cleared(w, c, {m.id}, {}) /\ w.bag = db.bag
  <2>1. /\ w \in Tables /\ w.bag = db.bag
        /\ w.mail = {x \in db.mail : ~(x.id = m.id /\ x.to = c)}
        /\ w.att = {a \in db.att : ~(a.mail = m.id /\ a.to = c)}
    <3>1. db \in Tables
      BY <1>1
    <3> QED BY <3>1, WithoutIs
  <2> HIDE DEF w
  <2>2. \A x, y \in w.mail : x.id = y.id => x = y
    BY <2>1 DEF Base, Numbered
  <2>3. w.att = {a \in db.att : ~(a.mail \in {m.id} /\ a.to = c) /\ a.item \notin {}}
    BY <2>1
  <2>4. \A x \in w.mail : \E y \in db.mail : SameMail(x, y) /\ ~(y.id \in {m.id} /\ y.to = c)
    BY <2>1 DEF SameMail
  <2>5. \A y \in db.mail : (y.id \in {m.id} /\ y.to = c) \/ \E x \in w.mail : SameMail(x, y)
    BY <2>1 DEF SameMail
  <2> QED BY <2>1, <2>2, <2>3, <2>4, <2>5 DEF Cleared
<1>5. Existing(c, m.items) \in SUBSET m.items
      /\ \A a \in Place : a.item \in m.items /\ StoredAt(db, a) => a.item \in Existing(c, m.items)
  BY <1>3, ExistingIs
<1> HIDE DEF w
<1>6. ASSUME db' = d
      PROVE  /\ Booked(c, m.from, {m.id}, {}, m.items) /\ nextId' # nextId /\ back \in db'.mail
             /\ Safe => Given(c, {m.id}, {}, m.items) /\ Bagged(c, m.from, {}, m.items)
  <2>0. {} \in SUBSET Item
    OBVIOUS
  <2>1. /\ Booked(c, m.from, {m.id}, {}, m.items) /\ nextId' # nextId /\ back \in db'.mail
        /\ db'.bag = db.bag /\ \A i \in Existing(c, m.items) : Attachment(nextId, i, m.from) \in db'.att
    <3>1. db' = Staged(w, back, Existing(c, m.items))
      BY <1>6
    <3>2. Existing(c, m.items) \in SUBSET m.items /\ m.items \in SUBSET Item /\ m.from \in Char
      BY <1>3, <1>5
    <3>3. c \in online /\ nextId <= MaxMail /\ nextId' = nextId + 1 /\ UNCHANGED <<loading, burnt>>
      BY <1>1
    <3>4. back \in MailRow /\ back.id = nextId /\ back.to = m.from
      BY <1>3
    <3>5. Cleared(w, c, {m.id}, {}) /\ w.bag = db.bag
      BY <1>4
    <3> HIDE DEF d
    <3> HIDE <1>1, <1>3, <1>5, <1>6
    <3>6. /\ Booked(c, m.from, {m.id}, {}, m.items) /\ nextId' # nextId /\ back \in db'.mail
          /\ db'.bag = w.bag /\ \A i \in Existing(c, m.items) : Attachment(nextId, i, m.from) \in db'.att
      BY <2>0, <3>1, <3>2, <3>3, <3>4, <3>5, StagedBooked
    <3> QED BY <3>5, <3>6
  <2>2. ASSUME Safe PROVE Given(c, {m.id}, {}, m.items) /\ Bagged(c, m.from, {}, m.items)
    <3>1. \A l \in mem[c].box : l.id = m.id => l = m
      BY <1>1, <2>2 DEF Safe, Letters, Backed
    <3>2. \A i \in m.items : /\ <<c, i>> \notin db.bag
                             /\ \A k \in DOMAIN queue : ~AboutToStore(k, Attachment(0, i, c))
      BY <1>1, <2>2, ItemsApart DEF Safe
    <3>3. Given(c, {m.id}, {}, m.items)
      BY <1>1, <3>1, <3>2 DEF Given
    <3>4. Bagged(c, m.from, {}, m.items)
      BY <1>5, <2>1, <3>2 DEF Bagged
    <3> QED BY <3>3, <3>4
  <2> QED BY <2>1, <2>2
<1> HIDE DEF d
<1>7. CASE /\ db' = d /\ mem' = Delivered(Discarded(mem, c, m), back, m.items)
           /\ UNCHANGED <<queue, online>> /\ tainted \subseteq tainted'
  <2> DEFINE players == Discarded(mem, c, m)
  <2>1. players \in [Char -> Memory]
    BY <1>1, DiscardedIs
  <2>2. \A e \in Char : e # c => players[e] = mem[e]
    BY <1>1, DiscardedIs
  <2>3. players[c].bag = mem[c].bag /\ players[c].fresh = mem[c].fresh /\ players[c].box = mem[c].box \ {m}
    BY <1>1, DiscardedIs
  <2>4. mem' = Delivered(players, back, m.items)
    BY <1>7
  <2> HIDE DEF players
  <2>5. Owned(players[c], c)
    BY <1>1, <2>3 DEF Base, Owners, Owned
  <2>6. /\ Outcome(c)
        /\ /\ Letters
           /\ players[c].bag \subseteq (mem[c].bag \ m.items) \cup {}
           /\ \A n \in players[c].box : \E l \in mem[c].box :
                l.id = n.id /\ n.items = l.items \ {} /\ l.id \notin {m.id}
           /\ \A k, l \in players[c].box : k.id = l.id => k = l
           => Kept(c, m.from, {m.id}, {}, m.items)
    BY <1>1, <1>3, <1>6, <1>7, <2>1, <2>2, <2>4, <2>5, DeliveredKept
  <2>7. ASSUME Safe
        PROVE  /\ Letters
               /\ players[c].bag \subseteq (mem[c].bag \ m.items) \cup {}
               /\ \A n \in players[c].box : \E l \in mem[c].box :
                    l.id = n.id /\ n.items = l.items \ {} /\ l.id \notin {m.id}
               /\ \A k, l \in players[c].box : k.id = l.id => k = l
    <3>1. \A k, l \in mem[c].box : k.id = l.id => k = l
      BY <2>7 DEF Safe, Letters, Backed
    <3>2. \A i \in m.items : i \notin mem[c].bag
      BY <1>1, <2>7, ItemsApart DEF Safe
    <3>3. \A n \in players[c].box : n \in mem[c].box /\ n.items = n.items \ {} /\ n.id \notin {m.id}
      BY <1>1, <2>3, <3>1
    <3>4. \A k, l \in players[c].box : k.id = l.id => k = l
      BY <2>3, <3>1
    <3>5. players[c].bag \subseteq (mem[c].bag \ m.items) \cup {}
      BY <2>3, <3>2
    <3>6. Letters
      BY <2>7 DEF Safe
    <3> QED BY <3>3, <3>4, <3>5, <3>6
  <2>8. Safe => Dealt(c, m.from, {m.id}, {}, m.items)
    BY <1>6, <1>7, <2>6, <2>7 DEF Dealt
  <2>9. Booked(c, m.from, {m.id}, {}, m.items)
    BY <1>6, <1>7
  <2> QED BY <1>1, <1>7, <2>6, <2>8, <2>9 DEF Handled
<1>8. CASE db' = db /\ tainted' = tainted /\ LogoutWith(c, mem[c])
  <2>1. mem[c].fresh \subseteq mem[c].fresh \ {}
    OBVIOUS
  <2>2. LeavesWithout(c, {})
    BY <1>1, <1>8, <2>1 DEF LeavesWithout
  <2> QED BY <1>1, <1>8, <2>2, RolledBackIs
<1>9. CASE db' = d /\ LogoutWith(c, mem[c]) /\ tainted \subseteq tainted'
  <2>1. LogoutWith(c, mem[c]) /\ Booked(c, m.from, {m.id}, {}, m.items)
    BY <1>6, <1>9
  <2>2. Safe /\ ItemsSafe' => Given(c, {m.id}, {}, m.items) /\ Bagged(c, m.from, {}, m.items)
    BY <1>6, <1>9
  <2>3. Outcome(c)
    BY <1>1, <2>1 DEF Outcome
  <2>4. ASSUME Safe PROVE LeavesWithout(c, m.items)
    <3>1. \A i \in m.items : i \notin mem[c].fresh
      BY <1>1, <2>4, ItemsApart DEF Safe
    <3> QED BY <1>1, <2>1, <3>1 DEF LeavesWithout
  <2>5. ASSUME Safe, ItemsSafe' PROVE Dealt(c, m.from, {m.id}, {}, m.items)
    <3>1. Kept(c, m.from, {m.id}, {}, m.items)
      BY <1>1, <2>4, <2>5, LeavingIs DEF Safe
    <3> QED BY <1>9, <2>2, <2>5, <3>1 DEF Dealt
  <2> QED BY <1>1, <1>9, <2>1, <2>3, <2>5 DEF Handled
<1> QED BY <1>1, <1>2, <1>7, <1>8, <1>9

LEMMA SendMailIs ==
  ASSUME Base, NEW c \in Char, NEW r \in Char, NEW gold \in Amount, NEW cod \in {0, Price},
         NEW items \in SUBSET Item, SendMail(c, r, gold, cod, items)
  PROVE  c \in online /\ Handled(c)
<1> DEFINE m == [id |-> nextId, from |-> c, to |-> r, money |-> gold, cod |-> cod,
                 kind |-> "normal", read |-> FALSE]
           w == [db EXCEPT !.money[c] = mem[c].money - gold,
                           !.bag = @ \ {<<c, i>> : i \in items}]
           d == Staged(w, m, Existing(c, items))
           p == [mem[c] EXCEPT !.money = @ - gold, !.bag = @ \ items, !.fresh = @ \ items]
           players == [mem EXCEPT ![c].money = @ - gold, ![c].bag = @ \ items, ![c].fresh = @ \ items]
           kept == [mem[c] EXCEPT !.fresh = @ \ items]
<1>1. /\ c \in online /\ mem \in [Char -> Memory] /\ mem[c] \in Memory /\ mem[c].fresh \subseteq mem[c].bag
      /\ db \in Tables /\ r # c /\ items \subseteq mem[c].bag
      /\ UNCHANGED <<loading, burnt>> /\ nextId \in Nat /\ nextId <= MaxMail /\ nextId' = nextId + 1
      /\ nextId \in 1 .. MaxMail + 1
  BY BaseIs DEF SendMail, Types
<1>2. gold \in Nat /\ mem[c].money - gold \in Nat
  BY <1>1, MailAssumption DEF SendMail, Amount, Memory
<1>3. \/ /\ db' = d /\ mem' = Delivered(players, m, items) /\ UNCHANGED <<queue, online>>
         /\ tainted' = tainted \cup Overtaking(c, "overtaken") \cup Splitting(c)
      \/ db' = db /\ tainted' = tainted /\ LogoutWith(c, kept)
      \/ /\ db' = d /\ LogoutWith(c, kept)
         /\ tainted' = tainted \cup Overtaking(c, "overtaken") \cup Splitting(c)
                               \cup (IF gold > 0 THEN {"unsure"} ELSE {})
  BY <1>1 DEF SendMail, RolledBack
<1>4. m \in MailRow /\ m.id = nextId /\ m.to = r
  <2>1. nextId \in Id
    BY <1>1, MailAssumption DEF Id
  <2> QED BY <1>2, <2>1 DEF MailRow, Kind
<1> HIDE DEF m
<1>5. players \in [Char -> Memory] /\ players = [mem EXCEPT ![c] = p]
      /\ p \in Memory /\ p.bag = mem[c].bag \ items /\ p.fresh = mem[c].fresh \ items /\ p.box = mem[c].box
  <2>1. players = [mem EXCEPT ![c] = p]
    BY <1>1 DEF Memory
  <2>2. p = [[[mem[c] EXCEPT !.money = @ - gold] EXCEPT !.bag = @ \ items] EXCEPT !.fresh = @ \ items]
    BY <1>1 DEF Memory
  <2>3. p \in Memory /\ p.bag = mem[c].bag \ items /\ p.fresh = mem[c].fresh \ items /\ p.box = mem[c].box
    BY <1>1, <1>2, <2>2 DEF Memory
  <2> HIDE DEF p
  <2> QED BY <1>1, <2>1, <2>3
<1>6. kept \in Memory /\ kept.fresh = mem[c].fresh \ items
  BY <1>1 DEF Memory
<1> HIDE DEF kept, players, p
<1>7. Cleared(w, c, {}, {}) /\ w.bag = db.bag \ {<<c, i>> : i \in items}
  <2> DEFINE v == [db EXCEPT !.money[c] = mem[c].money - gold]
             sent == {<<c, i>> : i \in items}
  <2>1. v \in Tables /\ v.bag = db.bag /\ v.mail = db.mail /\ v.att = db.att
    BY <1>1, <1>2 DEF Tables
  <2>2. w = [v EXCEPT !.bag = @ \ sent]
    BY <1>1 DEF Tables
  <2> HIDE DEF v, w, sent
  <2>3. w \in Tables /\ w.bag = db.bag \ sent /\ w.mail = db.mail /\ w.att = db.att
    BY <2>1, <2>2 DEF Tables
  <2>4. \A x, y \in w.mail : x.id = y.id => x = y
    BY <2>3 DEF Base, Numbered
  <2>5. \A x \in w.mail : x \in db.mail /\ SameMail(x, x)
    BY <2>3 DEF SameMail
  <2>6. \A x \in db.mail : x \in w.mail /\ SameMail(x, x)
    BY <2>3 DEF SameMail
  <2> QED BY <2>3, <2>4, <2>5, <2>6 DEF Cleared, sent
<1>8. /\ Existing(c, items) \in SUBSET items
      /\ \A a \in Place : a.item \in items /\ StoredAt(db, a) => a.item \in Existing(c, items)
  BY ExistingIs
<1> HIDE DEF w
<1>9. ASSUME db' = d, ItemsSafe' => ~SaveQueued(c)
      PROVE  /\ Booked(c, r, {}, {}, items) /\ nextId' # nextId /\ m \in db'.mail
             /\ Safe /\ ItemsSafe' => Given(c, {}, {}, items) /\ Bagged(c, r, {}, items)
  <2>1. /\ Booked(c, r, {}, {}, items) /\ nextId' # nextId /\ m \in db'.mail
        /\ db'.bag = w.bag /\ \A i \in Existing(c, items) : Attachment(nextId, i, r) \in db'.att
    <3>1. db' = Staged(w, m, Existing(c, items))
      BY <1>9
    <3>2. {} \in SUBSET Item
      OBVIOUS
    <3> HIDE DEF d
    <3>3. Existing(c, items) \in SUBSET items /\ Cleared(w, c, {}, {})
      BY <1>7, <1>8
    <3>4. c \in online /\ nextId <= MaxMail /\ nextId' = nextId + 1 /\ UNCHANGED <<loading, burnt>>
      BY <1>1
    <3> HIDE <1>1, <1>9
    <3> DEFINE none == {}
               ex == Existing(c, items)
    <3>5. r \in Char /\ items \in SUBSET Item /\ none \in SUBSET Item /\ ex \in SUBSET items /\ Cleared(w, c, none, none) /\ db' = Staged(w, m, ex)
      BY <3>1, <3>3
    <3> HIDE DEF none, ex
    <3>6. /\ Booked(c, r, none, none, items) /\ nextId' # nextId /\ m \in db'.mail
          /\ db'.bag = w.bag /\ \A i \in ex : Attachment(nextId, i, r) \in db'.att
      BY <1>4, <3>4, <3>5, StagedBooked
    <3> QED BY <3>6 DEF none, ex
  <2>2. ASSUME Safe, ItemsSafe' PROVE Given(c, {}, {}, items)
    <3>1. \A i \in items, k \in DOMAIN queue : ~AboutToStore(k, Attachment(0, i, c))
      BY <1>9, <2>2 DEF SaveQueued, AboutToStore, Attachment
    <3> QED BY <1>1, <3>1 DEF Given
  <2>3. Bagged(c, r, {}, items)
    <3>1. \A e \in Char, i \in Item : <<e, i>> \in db'.bag => <<e, i>> \in db.bag /\ ~(e = c /\ i \in items)
      BY <1>7, <2>1
    <3>2. \A e \in Char, i \in Item : <<e, i>> \in db.bag => <<e, i>> \in db'.bag \/ i \in items
      BY <1>7, <2>1
    <3> QED BY <1>8, <2>1, <3>1, <3>2 DEF Bagged
  <2> QED BY <2>1, <2>2, <2>3
<1> HIDE DEF d
<1>10. (\E t : tainted' = tainted \cup Overtaking(c, "overtaken") \cup t) => (ItemsSafe' => ~SaveQueued(c))
  BY DEF Overtaking, ItemsSafe
<1>11. CASE /\ db' = d /\ mem' = Delivered(players, m, items) /\ UNCHANGED <<queue, online>>
            /\ tainted' = tainted \cup Overtaking(c, "overtaken") \cup Splitting(c)
  <2>1. /\ Booked(c, r, {}, {}, items) /\ nextId' # nextId /\ m \in db'.mail
        /\ Safe /\ ItemsSafe' => Given(c, {}, {}, items) /\ Bagged(c, r, {}, items)
    BY <1>9, <1>10, <1>11
  <2>2. players[c] = p /\ \A e \in Char : e # c => players[e] = mem[e]
    BY <1>1, <1>5
  <2>3. Owned(players[c], c)
    BY <1>1, <1>5, <2>2 DEF Base, Owners, Owned
  <2>4. /\ Outcome(c)
        /\ /\ Letters
           /\ players[c].bag \subseteq (mem[c].bag \ items) \cup {}
           /\ \A n \in players[c].box : \E l \in mem[c].box :
                l.id = n.id /\ n.items = l.items \ {} /\ l.id \notin {}
           /\ \A k, l \in players[c].box : k.id = l.id => k = l
           => Kept(c, r, {}, {}, items)
    <3>1. c \in online /\ players \in [Char -> Memory] /\ \A e \in Char : e # c => players[e] = mem[e]
      BY <1>1, <1>5, <2>2
    <3>2. m \in MailRow /\ m.id = nextId /\ m.to = r /\ nextId' # nextId /\ m \in db'.mail
      BY <1>4, <2>1
    <3>3. mem' = Delivered(players, m, items) /\ UNCHANGED <<queue, online>>
      BY <1>11
    <3> QED BY <2>3, <3>1, <3>2, <3>3, DeliveredKept
  <2>5. ASSUME Letters PROVE Kept(c, r, {}, {}, items)
    <3>1. \A k, l \in mem[c].box : k.id = l.id => k = l
      BY <2>5 DEF Letters, Backed
    <3>2. \A n \in mem[c].box : n.items = n.items \ {} /\ n.id \notin {}
      OBVIOUS
    <3>3. players[c].bag = mem[c].bag \ items /\ players[c].box = mem[c].box
      BY <1>5, <2>2
    <3> QED BY <2>4, <2>5, <3>1, <3>2, <3>3
  <2>6. Safe /\ ItemsSafe' => Dealt(c, r, {}, {}, items)
    BY <1>11, <2>1, <2>5 DEF Dealt, Safe
  <2>7. tainted \subseteq tainted'
    BY <1>11
  <2> QED BY <1>1, <2>1, <2>4, <2>6, <2>7 DEF Handled
<1>12. CASE db' = db /\ tainted' = tainted /\ LogoutWith(c, kept)
  <2>1. LeavesWithout(c, {})
    BY <1>6, <1>12 DEF LeavesWithout
  <2> QED BY <1>1, <1>12, <2>1, RolledBackIs
<1>13. CASE /\ db' = d /\ LogoutWith(c, kept)
            /\ tainted' = tainted \cup Overtaking(c, "overtaken") \cup Splitting(c)
                                  \cup (IF gold > 0 THEN {"unsure"} ELSE {})
  <2>1. \E t : tainted' = tainted \cup Overtaking(c, "overtaken") \cup t
    <3>1. tainted' = tainted \cup Overtaking(c, "overtaken") \cup
                       (Splitting(c) \cup (IF gold > 0 THEN {"unsure"} ELSE {}))
      BY <1>13
    <3> QED BY <3>1
  <2>2. /\ Booked(c, r, {}, {}, items)
        /\ Safe /\ ItemsSafe' => Given(c, {}, {}, items) /\ Bagged(c, r, {}, items)
    BY <1>9, <1>10, <1>13, <2>1
  <2>3. LeavesWithout(c, items)
    BY <1>6, <1>13 DEF LeavesWithout
  <2>4. tainted \subseteq tainted'
    BY <1>13
  <2> QED BY <1>1, <2>2, <2>3, <2>4, CommittedOutIs
<1> QED BY <1>1, <1>3, <1>11, <1>12, <1>13

-----------------------------------------------------------------------------
(* Items that are taken out of a letter.                                     *)

\* The tables, with m.cod paid or not.
LEMMA TakenCleared ==
  ASSUME Base, NEW c \in Char, NEW m \in mem[c].box, NEW i \in m.items, m.cod <= mem[c].money
  PROVE  LET p == TakenInto(mem[c], m, i)
             d == WithTakenItem(c, p, m, i)
         IN  /\ Cleared(d, c, {}, {i})
             /\ d.bag = db.bag \cup {<<c, j>> : j \in mem[c].fresh \cup {i}}
<1> DEFINE p == TakenInto(mem[c], m, i)
           d == WithTakenItem(c, p, m, i)
<1>1. db \in Tables /\ mem[c] \in Memory /\ m \in LetterRow /\ i \in Item
  BY BaseIs DEF Types, LetterRow
<1>2. p \in Memory /\ p.money = mem[c].money /\ p.fresh = mem[c].fresh \cup {i}
  <2>1. mem[c] \in Memory /\ m \in mem[c].box /\ i \in m.items
    BY <1>1
  <2> HIDE <1>1
  <2>2. /\ p \in Memory /\ p.money = mem[c].money /\ p.fresh = mem[c].fresh \cup {i}
        /\ p.box = (mem[c].box \ {m}) \cup {[m EXCEPT !.cod = 0, !.items = @ \ {i}]}
    BY <2>1, TakenIs
  <2> QED BY <2>2
<1> HIDE DEF p
<1>3. /\ d \in Tables /\ d.bag = db.bag \cup {<<c, j>> : j \in p.fresh}
      /\ d.mail = UpdateMails(db.mail, ChangedRows(p)) /\ d.att = {a \in db.att : a.item # i}
  BY <1>1, <1>2, WithTakenIs
<1> HIDE DEF d
<1>4. ChangedRows(p) \in SUBSET MailRow /\ db.mail \in SUBSET MailRow
  BY <1>1, <1>2, RowIs DEF ChangedRows, Memory, Tables
<1>5. /\ \A x \in d.mail : \E y \in db.mail : SameMail(x, y)
      /\ \A y \in db.mail : \E x \in d.mail : SameMail(x, y)
      /\ \A x, y \in d.mail : x.id = y.id => x = y
  BY <1>3, <1>4, UpdateIs DEF Base, Numbered
<1>6. d.att = {a \in db.att : ~(a.mail \in {} /\ a.to = c) /\ a.item \notin {i}}
  BY <1>3
<1>7. Cleared(d, c, {}, {i})
  BY <1>3, <1>5, <1>6 DEF Cleared
<1> QED BY <1>2, <1>3, <1>7 DEF p, d

\* The player, whatever becomes of the balance.
LEMMA TakenPlayer ==
  ASSUME Base, NEW c \in Char, NEW m \in mem[c].box, NEW i \in m.items,
         NEW q \in Memory, q.bag = TakenInto(mem[c], m, i).bag, q.box = TakenInto(mem[c], m, i).box,
         q.fresh = {}
  PROVE  /\ Owned(q, c)
         /\ OneClaim /\ Letters =>
              /\ q.bag \subseteq (mem[c].bag \ {}) \cup {i}
              /\ \A n \in q.box : \E l \in mem[c].box :
                   l.id = n.id /\ n.items = l.items \ {i} /\ l.id \notin {}
              /\ \A k, l \in q.box : k.id = l.id => k = l
<1> DEFINE n == [m EXCEPT !.cod = 0, !.items = @ \ {i}]
<1>1. mem[c] \in Memory /\ m \in LetterRow /\ m.to = c /\ i \in Item /\ m.id \in Id
  BY BaseIs DEF LetterRow
<1>2. /\ n \in LetterRow /\ q.bag = mem[c].bag \cup {i} /\ q.box = (mem[c].box \ {m}) \cup {n}
      /\ n.id = m.id /\ n.to = m.to /\ n.items = m.items \ {i}
  BY <1>1, TakenIs
<1> HIDE DEF n
<1>3. Owned(q, c)
  BY <1>1, <1>2 DEF Base, Owners, Owned
<1>4. ASSUME OneClaim, Letters
      PROVE  /\ \A l \in mem[c].box : l # m => l.id # m.id /\ l.items = l.items \ {i}
             /\ \A k, l \in mem[c].box : k.id = l.id => k = l
  <2>1. \A k, l \in mem[c].box : k.id = l.id => k = l
    BY <1>4 DEF Letters, Backed
  <2> DEFINE b == Attachment(m.id, i, c)
  <2>2. b \in Place /\ b.mail = m.id /\ b.item = i /\ b.to = c
    BY <1>1, PlaceIs
  <2> HIDE DEF b
  <2>3. Claim(b)
    BY <2>2 DEF Claim, Held
  <2>4. \A l \in mem[c].box : i \in l.items => m.id = l.id
    BY <1>4, <2>2, <2>3, ClaimsIn
  <2> QED BY <2>1, <2>4
<1>5. ASSUME OneClaim, Letters
      PROVE  /\ \A l \in q.box : \E k \in mem[c].box : k.id = l.id /\ l.items = k.items \ {i} /\ k.id \notin {}
             /\ \A k, l \in q.box : k.id = l.id => k = l
  BY <1>2, <1>4, <1>5
<1> QED BY <1>2, <1>3, <1>5

\* What is stored of the inventory, and what c gave for it.
LEMMA TakenGiven ==
  ASSUME Base, NEW c \in Char, NEW r \in Char, NEW m \in mem[c].box, NEW i \in m.items,
         db'.bag = db.bag \cup {<<c, j>> : j \in mem[c].fresh \cup {i}}
  PROVE  Given(c, {}, {i}, {}) /\ Bagged(c, r, {i}, {})
<1>1. Given(c, {}, {i}, {})
  BY DEF Given
<1>2. \A e \in Char, j \in Item : <<e, j>> \in db'.bag =>
        <<e, j>> \in db.bag \/ (e = c /\ j \in mem[c].fresh \cup {i})
  OBVIOUS
<1>3. <<c, i>> \in db'.bag /\ db.bag \subseteq db'.bag
  OBVIOUS
<1>4. Bagged(c, r, {i}, {})
  BY <1>2, <1>3 DEF Bagged
<1> QED BY <1>1, <1>4

LEMMA TakeItemIs ==
  ASSUME Base, NEW c \in Char, NEW m, NEW i \in Item, TakeItem(c, m, i)
  PROVE  c \in online /\ Handled(c)
<1> DEFINE p == TakenInto(mem[c], m, i)
           d == WithTakenItem(c, p, m, i)
           q == Saved(p)
<1>1. /\ c \in online /\ mem \in [Char -> Memory] /\ mem[c] \in Memory
      /\ m \in mem[c].box /\ i \in m.items /\ m.cod = 0 /\ i \in Item /\ c \in Char
      /\ UNCHANGED <<loading, nextId, burnt>>
  BY BaseIs DEF TakeItem, Types
<1>2. \/ db' = d /\ mem' = [mem EXCEPT ![c] = q] /\ UNCHANGED <<queue, online>> /\ tainted \subseteq tainted'
      \/ db' = db /\ tainted \subseteq tainted' /\ LogoutWith(c, q)
      \/ db' = d /\ LogoutWith(c, q) /\ tainted \subseteq tainted'
  BY DEF TakeItem, GivenUp, Commits
<1>3. m.cod <= mem[c].money
  BY <1>1 DEF Memory
<1>4. Cleared(d, c, {}, {i}) /\ d.bag = db.bag \cup {<<c, j>> : j \in mem[c].fresh \cup {i}}
  BY <1>1, <1>3, TakenCleared
<1>5. p \in Memory
  BY <1>1, TakenIs
<1>6. q \in Memory /\ q.bag = TakenInto(mem[c], m, i).bag /\ q.box = TakenInto(mem[c], m, i).box /\ q.fresh = {}
  BY <1>5, SavedIs
<1> HIDE DEF p, d, q
<1>7. ASSUME db' = d
      PROVE  Booked(c, c, {}, {i}, {}) /\ Given(c, {}, {i}, {}) /\ Bagged(c, c, {i}, {})
  <2>1. Booked(c, c, {}, {i}, {})
    BY <1>1, <1>4, <1>7 DEF Cleared, Booked
  <2>2. Given(c, {}, {i}, {}) /\ Bagged(c, c, {i}, {})
    BY <1>1, <1>4, <1>7, TakenGiven
  <2> QED BY <2>1, <2>2
<1>8. LogoutWith(c, q) => LeavesWithout(c, {})
  <2>1. q.fresh \subseteq mem[c].fresh \ {}
    BY <1>6
  <2> QED BY <1>6, <2>1 DEF LeavesWithout
<1>9. CASE db' = d /\ mem' = [mem EXCEPT ![c] = q] /\ UNCHANGED <<queue, online>> /\ tainted \subseteq tainted'
  <2>1. \A e \in Char : mem'[e] = IF e = c THEN q ELSE mem[e]
    BY <1>1, <1>9
  <2>2. Owned(q, c)
    BY <1>1, <1>6, TakenPlayer
  <2>3. mem' \in [Char -> Memory]
    BY <1>1, <1>6, <1>9
  <2>4. \A e \in Char : Owned(mem'[e], e) /\ (e \notin online => mem'[e] = mem[e])
    BY <1>1, <2>1, <2>2 DEF Base, Owners
  <2>5. Outcome(c)
    BY <1>9, <2>3, <2>4 DEF Outcome
  <2>6. ASSUME OneClaim, Letters PROVE Kept(c, c, {}, {i}, {})
    <3>1. /\ q.bag \subseteq (mem[c].bag \ {}) \cup {i}
          /\ \A n \in q.box : \E l \in mem[c].box :
               l.id = n.id /\ n.items = l.items \ {i} /\ l.id \notin {}
          /\ \A k, l \in q.box : k.id = l.id => k = l
      BY <1>1, <1>6, <2>6, TakenPlayer
    <3>2. \A e \in Char : mem'[e].bag \subseteq IF e = c THEN (mem[c].bag \ {}) \cup {i} ELSE mem[e].bag
      BY <2>1, <3>1
    <3>3. \A e \in Char : \A n \in mem'[e].box : \E l \in mem[e].box :
            /\ l.id = n.id /\ n.items = l.items \ (IF e = c THEN {i} ELSE {})
            /\ e = c => l.id \notin {}
      BY <2>1, <3>1
    <3>4. \A e \in Char : \A k, l \in mem'[e].box : k.id = l.id => k = l
      BY <2>1, <2>6, <3>1 DEF Letters, Backed
    <3> QED BY <1>9, <3>2, <3>3, <3>4 DEF Kept
  <2>7. Safe => Dealt(c, c, {}, {i}, {})
    BY <1>7, <1>9, <2>6 DEF Safe, Dealt
  <2> QED BY <1>1, <1>7, <1>9, <2>5, <2>7 DEF Handled
<1>10. CASE db' = db /\ tainted \subseteq tainted' /\ LogoutWith(c, q)
  BY <1>1, <1>8, <1>10, RolledBackIs
<1>11. CASE db' = d /\ LogoutWith(c, q) /\ tainted \subseteq tainted'
  BY <1>1, <1>7, <1>8, <1>11, CommittedOutIs
<1> QED BY <1>1, <1>2, <1>9, <1>10, <1>11

LEMMA BuyItemIs ==
  ASSUME Base, NEW c \in Char, NEW m, NEW i \in Item, BuyItem(c, m, i)
  PROVE  c \in online /\ Handled(c)
<1> DEFINE p == TakenInto(mem[c], m, i)
           w == WithTakenItem(c, p, m, i)
           pay == Payment(c, m)
           d == Staged(w, pay, {})
           q == Adopting(p, p.money - m.cod)
<1>1. /\ c \in online /\ mem \in [Char -> Memory] /\ mem[c] \in Memory /\ db \in Tables
      /\ m \in mem[c].box /\ m \in LetterRow /\ i \in m.items /\ m.cod <= mem[c].money /\ i \in Item /\ c \in Char
      /\ UNCHANGED <<loading, burnt>> /\ nextId <= MaxMail /\ nextId' = nextId + 1 /\ nextId \in 1 .. MaxMail + 1
  BY BaseIs DEF BuyItem, Types
<1>2. /\ \/ db' = d /\ mem' = Delivered([mem EXCEPT ![c] = q], pay, {}) /\ UNCHANGED <<queue, online>>
         \/ db' = db /\ LogoutWith(c, Saved(p))
         \/ (db' = db \/ db' = d) /\ (LogoutWith(c, Adopting(p, db'.money[c])) \/ LogoutUnsaved(c))
      /\ tainted \subseteq tainted'
  BY DEF BuyItem, GivenUp, Commits
<1>3. m.from \in Char /\ m.cod \in Nat /\ pay \in MailRow /\ pay.id = nextId /\ pay.to = m.from
  <2>1. nextId \in Id /\ m.cod \in Nat
    BY <1>1, MailAssumption DEF Id, LetterRow
  <2> QED BY <1>1, <2>1 DEF Payment, MailRow, LetterRow, Kind
<1>4. Cleared(w, c, {}, {i}) /\ w.bag = db.bag \cup {<<c, j>> : j \in mem[c].fresh \cup {i}}
  BY <1>1, TakenCleared
<1>5. p \in Memory /\ p.money = mem[c].money
  <2>1. mem[c] \in Memory /\ m \in mem[c].box /\ i \in m.items
    BY <1>1
  <2> HIDE <1>1
  <2>2. /\ p \in Memory /\ p.money = mem[c].money /\ p.fresh = mem[c].fresh \cup {i}
        /\ p.box = (mem[c].box \ {m}) \cup {[m EXCEPT !.cod = 0, !.items = @ \ {i}]}
    BY <2>1, TakenIs
  <2> QED BY <2>2
<1>6. ASSUME NEW g \in Nat
      PROVE  /\ Adopting(p, g) \in Memory /\ Adopting(p, g).fresh = {}
             /\ Adopting(p, g).bag = p.bag /\ Adopting(p, g).box = p.box
  <2>1. [p EXCEPT !.money = g] \in Memory /\ [p EXCEPT !.money = g].bag = p.bag /\ [p EXCEPT !.money = g].box = p.box
    BY <1>5, <1>6 DEF Memory
  <2> QED BY <2>1, SavedIs DEF Adopting
<1>7. q \in Memory /\ q.fresh = {} /\ q.bag = TakenInto(mem[c], m, i).bag /\ q.box = TakenInto(mem[c], m, i).box
  <2>1. p.money - m.cod \in Nat
    BY <1>1, <1>3, <1>5 DEF Memory
  <2> QED BY <1>6, <2>1
<1> HIDE DEF w, pay, q
<1>8. ASSUME db' = d
      PROVE  /\ Booked(c, m.from, {}, {i}, {}) /\ nextId' # nextId /\ pay \in db'.mail
             /\ Given(c, {}, {i}, {}) /\ Bagged(c, m.from, {i}, {})
  <2> DEFINE none == {}
  <2>1. /\ m.from \in Char /\ none \in SUBSET Item /\ {i} \in SUBSET Item /\ none \in SUBSET none
        /\ Cleared(w, c, none, {i}) /\ db' = Staged(w, pay, none)
    BY <1>1, <1>3, <1>4, <1>8
  <2>2. c \in online /\ nextId <= MaxMail /\ nextId' = nextId + 1 /\ UNCHANGED <<loading, burnt>>
    BY <1>1
  <2> HIDE DEF none
  <2>3. /\ Booked(c, m.from, none, {i}, none) /\ nextId' # nextId /\ pay \in db'.mail /\ db'.bag = w.bag
    <3>1. pay \in MailRow /\ pay.id = nextId /\ pay.to = m.from
      BY <1>3
    <3> DEFINE seller == m.from
               taken == {i}
    <3>2. /\ seller \in Char /\ none \in SUBSET Item /\ taken \in SUBSET Item /\ none \in SUBSET none
          /\ Cleared(w, c, none, taken) /\ pay.to = seller
      BY <2>1, <3>1
    <3> HIDE DEF seller, taken
    <3> HIDE <1>8
    <3>3. /\ Booked(c, seller, none, taken, none) /\ nextId' # nextId /\ pay \in db'.mail /\ db'.bag = w.bag
      BY <2>1, <2>2, <3>1, <3>2, StagedBooked
    <3> QED BY <3>3 DEF seller, taken
  <2>4. Given(c, {}, {i}, {}) /\ Bagged(c, m.from, {i}, {})
    BY <1>1, <1>3, <1>4, <2>3, TakenGiven
  <2> QED BY <2>3, <2>4 DEF none
<1>9. \A s \in Memory : s.fresh = {} /\ LogoutWith(c, s) => LeavesWithout(c, {})
  BY DEF LeavesWithout
<1>10. d.money \in [Char -> Nat] /\ db.money \in [Char -> Nat]
  <2>1. d \in Tables
    BY <1>3, <1>4, StagedIs DEF Cleared
  <2> QED BY <1>1, <2>1 DEF Tables
<1>11. Saved(p) \in Memory /\ Saved(p).fresh = {}
  BY <1>5, SavedIs
<1> HIDE DEF d, p
<1>12. CASE db' = d /\ mem' = Delivered([mem EXCEPT ![c] = q], pay, {}) /\ UNCHANGED <<queue, online>>
  <2> DEFINE players == [mem EXCEPT ![c] = q]
             none == {}
  <2>1. /\ players \in [Char -> Memory] /\ players[c] = q /\ \A e \in Char : e # c => players[e] = mem[e]
    BY <1>1, <1>7
  <2>2. mem' = Delivered(players, pay, none) /\ none \in SUBSET Item
    BY <1>12
  <2> HIDE DEF players, none
  <2>3. Owned(players[c], c)
    BY <1>1, <1>7, <2>1, TakenPlayer
  <2>4. /\ Booked(c, m.from, {}, {i}, {}) /\ nextId' # nextId /\ pay \in db'.mail
        /\ Given(c, {}, {i}, {}) /\ Bagged(c, m.from, {i}, {})
    BY <1>8, <1>12
  <2>5. /\ Outcome(c)
        /\ /\ Letters
           /\ players[c].bag \subseteq (mem[c].bag \ none) \cup {i}
           /\ \A n \in players[c].box : \E l \in mem[c].box :
                l.id = n.id /\ n.items = l.items \ {i} /\ l.id \notin none
           /\ \A k, l \in players[c].box : k.id = l.id => k = l
           => Kept(c, m.from, none, {i}, none)
    BY <1>1, <1>3, <1>12, <2>1, <2>2, <2>3, <2>4, DeliveredKept
  <2>6. ASSUME Safe PROVE Kept(c, m.from, {}, {i}, {})
    <3>1. /\ q.bag \subseteq (mem[c].bag \ {}) \cup {i}
          /\ \A n \in q.box : \E l \in mem[c].box :
               l.id = n.id /\ n.items = l.items \ {i} /\ l.id \notin {}
          /\ \A k, l \in q.box : k.id = l.id => k = l
      BY <1>1, <1>7, <2>6, TakenPlayer DEF Safe
    <3> QED BY <2>1, <2>5, <2>6, <3>1 DEF none, Safe
  <2>7. Safe => Dealt(c, m.from, {}, {i}, {})
    BY <1>2, <2>4, <2>6 DEF Dealt
  <2> QED BY <1>1, <1>2, <2>4, <2>5, <2>7 DEF Handled
<1>13. CASE db' = db /\ LogoutWith(c, Saved(p))
  <2>1. LeavesWithout(c, {})
    BY <1>9, <1>11, <1>13
  <2> QED BY <1>1, <1>2, <1>13, <2>1, RolledBackIs
<1>14. CASE (db' = db \/ db' = d) /\ (LogoutWith(c, Adopting(p, db'.money[c])) \/ LogoutUnsaved(c))
  <2>1. db'.money[c] \in Nat
    BY <1>1, <1>10, <1>14
  <2>2. LeavesWithout(c, {})
    <3>1. CASE LogoutUnsaved(c)
      BY <3>1 DEF LeavesWithout
    <3>2. CASE LogoutWith(c, Adopting(p, db'.money[c]))
      BY <1>6, <1>9, <2>1, <3>2
    <3> QED BY <1>14, <3>1, <3>2
  <2>3. CASE db' = db
    BY <1>1, <1>2, <2>2, <2>3, RolledBackIs
  <2>4. CASE db' = d
    BY <1>1, <1>2, <1>3, <1>8, <2>2, <2>4, CommittedOutIs
  <2> QED BY <1>14, <2>3, <2>4
<1> QED BY <1>1, <1>2, <1>12, <1>13, <1>14

-----------------------------------------------------------------------------
(* The step of the invariant.                                                *)

Stays ==
  \A a \in Place : StoredAt(db, a) =>
    \/ \E b \in Place : b.item = a.item /\ StoredAt(db', b)
    \/ queue # <<>> /\ Head(queue).op = "dropItems" /\ a.item \in Head(queue).items

Maintained ==
  /\ tainted \subseteq tainted'
  /\ Base'
  /\ Safe /\ ItemsSafe' => Safe' /\ Stays

LEMMA HandledIs ==
  ASSUME Base, NEW c, Handled(c)
  PROVE  Maintained
<1>1. PICK r, gone, in, out :
        Booked(c, r, gone, in, out) /\ (Safe /\ ItemsSafe' => Dealt(c, r, gone, in, out))
  BY DEF Handled
<1>2. Base'
  BY <1>1, HandlerBase DEF Handled
<1>3. ASSUME Safe, ItemsSafe' PROVE Safe' /\ Stays
  <2>1. Dealt(c, r, gone, in, out)
    BY <1>1, <1>3
  <2>2. Safe'
    BY <1>1, <1>2, <1>3, <2>1, DealtSafe
  <2>3. ASSUME NEW a \in Place, StoredAt(db, a)
        PROVE  \E b \in Place : b.item = a.item /\ StoredAt(db', b)
    BY <1>1, <1>3, <2>1, <2>3, DealtStays
  <2> QED BY <2>2, <2>3 DEF Stays
<1> QED BY <1>2, <1>3 DEF Maintained, Handled

\* What the actions that leave the tables alone have in common.
LEMMA UnstoredIs ==
  ASSUME db' = db, tainted \subseteq tainted', Base', Safe /\ ItemsSafe' => Safe'
  PROVE  Maintained
BY DEF Maintained, Stays

\* Expiries do not notice what is not a letter.
LEMMA ExpiriesUnnoticed ==
  ASSUME Base, Expiries, db' = db, nextId' = nextId,
         \/ queue' = queue
         \/ \E o \in Operation : o.op \in {"save", "load"} /\ queue' = Append(queue, o),
         \A id \in Id : NoLetter(id) => NoLetter(id)'
  PROVE  Expiries'
<1>1. nextId \in Nat /\ nextId' \in Nat /\ nextId <= nextId'
  BY BaseIs
<1>2. ASSUME NEW id \in Id, id < nextId, NoLetter(id)
      PROVE  /\ NoLetter(id)' /\ Carried(id)' = Carried(id)
             /\ \A x \in db'.mail : x.id = id => \E y \in db.mail : SameMail(x, y)
  <2>1. Carried(id)' = Carried(id)
    BY DEF Carried, Attached
  <2>2. \A x \in db'.mail : x \in db.mail /\ SameMail(x, x)
    BY DEF SameMail
  <2> QED BY <1>2, <2>1, <2>2
<1> QED BY <1>1, <1>2, ExpiriesKept

LEMMA ObtainIs ==
  ASSUME Base, NEW c \in Char, NEW i \in Item, Obtain(c, i)
  PROVE  Maintained
<1> DEFINE p == [mem[c] EXCEPT !.bag = @ \cup {i}, !.fresh = @ \cup {i}]
<1>1. /\ c \in online /\ mem \in [Char -> Memory] /\ mem[c] \in Memory /\ mem[c].fresh \subseteq mem[c].bag
      /\ Nowhere(i) /\ UNCHANGED <<db, queue, online, loading, nextId, burnt, tainted>>
  BY BaseIs DEF Obtain, Types
<1>2. mem' = [mem EXCEPT ![c] = p]
  BY <1>1 DEF Obtain
<1>3. p \in Memory /\ p.bag = mem[c].bag \cup {i} /\ p.fresh = mem[c].fresh \cup {i} /\ p.box = mem[c].box
  BY <1>1 DEF Memory
<1> HIDE DEF p
<1>4. \A e \in Char : mem'[e] = IF e = c THEN p ELSE mem[e]
  BY <1>1, <1>2
<1>5. mem' \in [Char -> Memory]
  BY <1>1, <1>2, <1>3
<1>6. Base'
  <2>1. Types'
    BY <1>1, <1>5 DEF Base, Types
  <2>2. Owners'
    BY <1>1, <1>3, <1>4 DEF Base, Owners, Owned
  <2>3. Logins' /\ Numbered'
    BY <1>1 DEF Base, Logins, Numbered, Loading, LoadOf, Expiry
  <2> QED BY <2>1, <2>2, <2>3 DEF Base
<1>7. \A e \in Char : mem'[e].box = mem[e].box
  BY <1>3, <1>4
<1>8. ASSUME Safe PROVE Safe'
  <2>1. ASSUME NEW a \in Place, Claim(a)' PROVE Claim(a) \/ (a.mail = 0 /\ a.item = i /\ a.to = c)
    <3>1. ASSUME NEW e \in Char, Held(mem'[e], e, a) PROVE Held(mem[e], e, a) \/ (a.mail = 0 /\ a.item = i /\ a.to = c)
      BY <1>3, <1>4, <3>1 DEF Held
    <3> QED BY <1>1, <2>1, <3>1 DEF Claim, StoredAt, AboutToStore
  <2>2. ASSUME NEW a \in Place, Claim(a) PROVE a.item # i
    <3> SUFFICES ASSUME a.item = i PROVE FALSE
      OBVIOUS
    <3>1. a.to \in Char
      BY DEF Place
    <3>2. ~StoredAt(db, a)
      BY <1>1 DEF Nowhere, StoredAt
    <3>3. \A e \in Char : ~Held(mem[e], e, a) /\ (loading[e] # <<>> => ~Held(loading[e][1], e, a))
      BY <1>1 DEF Nowhere, Holds, Held
    <3>4. \A k \in DOMAIN queue : ~AboutToStore(k, a)
      BY <1>1 DEF Nowhere, AboutToStore
    <3> QED BY <2>2, <3>2, <3>3, <3>4 DEF Claim
  <2>3. OneClaim'
    <3> SUFFICES ASSUME NEW a \in Place, NEW b \in Place, Claim(a)', Claim(b)', a.item = b.item PROVE a = b
      BY DEF OneClaim
    <3> QED BY <1>8, <2>1, <2>2, PlaceIsOf DEF Safe, OneClaim
  <2>4. Letters'
    BY <1>1, <1>7, <1>8 DEF Safe, Letters, Backed
  <2>5. \A id \in Id : NoLetter(id) => NoLetter(id)'
    BY <1>1, <1>7 DEF NoLetter
  <2>6. Expiries'
    BY <1>1, <1>8, <2>5, ExpiriesUnnoticed DEF Safe
  <2>7. "torn" \notin tainted' => Addressed'
    BY <1>1, <1>8 DEF Safe, Addressed
  <2> QED BY <2>3, <2>4, <2>6, <2>7 DEF Safe
<1> QED BY <1>1, <1>6, <1>8, UnstoredIs

LEMMA LoginIs ==
  ASSUME Base, NEW c \in Char, Login(c)
  PROVE  Maintained
<1> DEFINE o == [op |-> "load", who |-> c]
<1>1. /\ c \notin online /\ ~Loading(c) /\ queue' = Append(queue, o) /\ Types
      /\ UNCHANGED <<db, online, mem, loading, nextId, burnt, tainted>>
  BY DEF Login, Base
<1>2. o \in Operation /\ o.op = "load" /\ o.who = c
  BY DEF Operation
<1> HIDE DEF o
<1>3. /\ queue' \in Seq(Operation) /\ DOMAIN queue \subseteq DOMAIN queue'
      /\ \A k \in DOMAIN queue' : k \notin DOMAIN queue => k = Len(queue) + 1
      /\ \A k \in DOMAIN queue : queue'[k] = queue[k]
      /\ queue'[Len(queue) + 1] = o
      /\ queue' # <<>> /\ (queue # <<>> => Head(queue') = Head(queue))
  BY <1>1, <1>2, Appended
<1>4. \A k \in DOMAIN queue' : k \notin DOMAIN queue => queue'[k] = o /\ k = Len(queue) + 1
  BY <1>3
<1>5. Base'
  <2>1. Types'
    BY <1>1, <1>3 DEF Types
  <2>2. Owners'
    BY <1>1 DEF Base, Owners
  <2>3. Numbered'
    BY <1>1, <1>2, <1>3, <1>4 DEF Base, Numbered, Expiry
  <2>4. Logins'
    <3> SUFFICES ASSUME NEW e \in Char
                 PROVE  /\ e \in online => ~Loading(e)'
                        /\ \A k \in DOMAIN queue' :
                             LoadOf(k, e)' => loading[e] = <<>> /\ \A j \in DOMAIN queue' : LoadOf(j, e)' => j = k
      BY <1>1 DEF Logins
    <3>1. CASE e = c
      <4>1. \A k \in DOMAIN queue' : LoadOf(k, e)' => k = Len(queue) + 1
        BY <1>1, <1>3, <1>4, <3>1 DEF Loading, LoadOf
      <4> QED BY <1>1, <3>1, <4>1 DEF Loading
    <3>2. CASE e # c
      <4>1. \A k \in DOMAIN queue' : LoadOf(k, e)' => k \in DOMAIN queue /\ LoadOf(k, e)
        BY <1>2, <1>3, <1>4, <3>2 DEF LoadOf
      <4>2. Loading(e)' => Loading(e)
        BY <1>1, <4>1 DEF Loading, LoadOf
      <4> QED BY <4>1, <4>2 DEF Base, Logins
    <3> QED BY <3>1, <3>2
  <2> QED BY <2>1, <2>2, <2>3, <2>4 DEF Base
<1>6. ASSUME Safe PROVE Safe'
  <2>1. ASSUME NEW a \in Place, Claim(a)' PROVE Claim(a)
    <3>1. \A k \in DOMAIN queue' : AboutToStore(k, a)' => k \in DOMAIN queue /\ AboutToStore(k, a)
      BY <1>2, <1>3, <1>4 DEF AboutToStore
    <3> QED BY <1>1, <2>1, <3>1 DEF Claim, StoredAt
  <2>2. OneClaim'
    BY <1>6, <2>1 DEF Safe, OneClaim
  <2>3. Letters'
    BY <1>1, <1>6 DEF Safe, Letters, Backed
  <2>4. \A id \in Id : NoLetter(id) => NoLetter(id)'
    BY <1>1 DEF NoLetter
  <2>5. Expiries'
    BY <1>1, <1>2, <1>6, <2>4, ExpiriesUnnoticed DEF Safe
  <2>6. "torn" \notin tainted' => Addressed'
    BY <1>1, <1>3, <1>6 DEF Safe, Addressed
  <2> QED BY <2>2, <2>3, <2>5, <2>6 DEF Safe
<1> QED BY <1>1, <1>5, <1>6, UnstoredIs

LEMMA EnterWorldIs ==
  ASSUME Base, NEW c \in Char, EnterWorld(c)
  PROVE  Maintained
<1>1. /\ loading[c] # <<>> /\ mem' = [mem EXCEPT ![c] = loading[c][1]] /\ online' = online \cup {c}
      /\ loading' = [loading EXCEPT ![c] = <<>>] /\ UNCHANGED <<db, queue, nextId, burnt, tainted>>
      /\ Types /\ loading[c][1] \in Memory /\ c \notin online
  BY BaseIs DEF EnterWorld
<1>2. mem \in [Char -> Memory] /\ loading \in [Char -> {<<>>} \cup {<<p>> : p \in Memory}]
  BY <1>1 DEF Types
<1>3. /\ \A e \in Char : mem'[e] = IF e = c THEN loading[c][1] ELSE mem[e]
      /\ \A e \in Char : loading'[e] = IF e = c THEN <<>> ELSE loading[e]
      /\ mem' \in [Char -> Memory] /\ loading' \in [Char -> {<<>>} \cup {<<p>> : p \in Memory}]
  BY <1>1, <1>2
<1>4. Base'
  <2>1. Types'
    BY <1>1, <1>3 DEF Types
  <2>2. Owners'
    BY <1>1, <1>3 DEF Base, Owners
  <2>3. Logins'
    BY <1>1, <1>3 DEF Base, Logins, Loading, LoadOf
  <2>4. Numbered'
    BY <1>1 DEF Base, Numbered, Expiry
  <2> QED BY <2>1, <2>2, <2>3, <2>4 DEF Base
<1>5. ASSUME Safe PROVE Safe'
  <2>1. ASSUME NEW a \in Place, Claim(a)' PROVE Claim(a)
    <3>1. \A e \in Char : Held(mem'[e], e, a) =>
            Held(mem[e], e, a) \/ (loading[e] # <<>> /\ Held(loading[e][1], e, a))
      BY <1>1, <1>3
    <3>2. \A e \in Char : loading'[e] # <<>> => loading'[e] = loading[e]
      BY <1>3
    <3> QED BY <1>1, <2>1, <3>1, <3>2 DEF Claim, StoredAt, AboutToStore
  <2>2. OneClaim'
    BY <1>5, <2>1 DEF Safe, OneClaim
  <2>3. Letters'
    BY <1>1, <1>3, <1>5 DEF Safe, Letters, Backed
  <2>4. \A id \in Id : NoLetter(id) => NoLetter(id)'
    BY <1>1, <1>3 DEF NoLetter
  <2>5. Expiries'
    BY <1>1, <1>5, <2>4, ExpiriesUnnoticed DEF Safe
  <2>6. "torn" \notin tainted' => Addressed'
    BY <1>1, <1>5 DEF Safe, Addressed
  <2> QED BY <2>2, <2>3, <2>5, <2>6 DEF Safe
<1> QED BY <1>1, <1>4, <1>5, UnstoredIs

LEMMA CrashIs ==
  ASSUME Base, Crash
  PROVE  Maintained
<1>1. /\ online' = {} /\ mem' = [c \in Char |-> Offline] /\ loading' = [c \in Char |-> <<>>]
      /\ queue' = <<>> /\ tainted \subseteq tainted' /\ UNCHANGED <<db, nextId, burnt>> /\ Types
      /\ queue # <<>> /\ Head(queue).op = "readdress" => "torn" \in tainted'
  BY DEF Crash, Base
<1>2. DOMAIN queue' = {} /\ queue' \in Seq(Operation)
  BY <1>1, EmptySeq
<1>3. /\ \A c \in Char : mem'[c] = Offline /\ loading'[c] = <<>>
      /\ mem' \in [Char -> Memory] /\ loading' \in [Char -> {<<>>} \cup {<<p>> : p \in Memory}]
  BY <1>1, OfflineIs
<1>4. Base'
  <2>1. Types'
    BY <1>1, <1>2, <1>3 DEF Types
  <2>2. Owners'
    BY <1>3, OfflineIs DEF Owners, Owned
  <2>3. Logins'
    BY <1>1, <1>2 DEF Logins, Loading, LoadOf
  <2>4. Numbered'
    BY <1>1, <1>2 DEF Base, Numbered, Expiry
  <2> QED BY <2>1, <2>2, <2>3, <2>4 DEF Base
<1>5. ASSUME Safe PROVE Safe'
  <2>1. ASSUME NEW a \in Place, Claim(a)' PROVE Claim(a)
    <3>1. \A c \in Char : ~Held(mem'[c], c, a)
      BY <1>3, OfflineIs DEF Held
    <3> QED BY <1>1, <1>2, <1>3, <2>1, <3>1 DEF Claim, StoredAt
  <2>2. OneClaim'
    BY <1>5, <2>1 DEF Safe, OneClaim
  <2>3. Letters'
    BY <1>3, OfflineIs DEF Letters, Backed
  <2>4. Expiries'
    BY <1>2 DEF Expiries
  <2>5. "torn" \notin tainted' => Addressed'
    BY <1>1, <1>5 DEF Safe, Addressed
  <2> QED BY <2>2, <2>3, <2>4, <2>5 DEF Safe
<1> QED BY <1>1, <1>4, <1>5, UnstoredIs

-----------------------------------------------------------------------------
(* A mail expires.                                                           *)

LEMMA Joined ==
  ASSUME Types, NEW ops \in Seq(Operation), queue' = queue \o ops, Len(ops) # 0
  PROVE  /\ queue' \in Seq(Operation)
         /\ DOMAIN queue' = 1 .. Len(queue) + Len(ops) /\ DOMAIN queue = 1 .. Len(queue)
         /\ Len(queue) \in Nat
         /\ \A k \in DOMAIN queue : queue'[k] = queue[k]
         /\ \A k \in 1 .. Len(ops) : queue'[Len(queue) + k] = ops[k]
         /\ queue' # <<>> /\ (queue # <<>> => Head(queue') = Head(queue))
<1>1. Len(queue) \in Nat /\ Len(ops) \in Nat \ {0} /\ DOMAIN queue = 1 .. Len(queue)
  BY LenProperties DEF Types
<1>2. /\ queue' \in Seq(Operation) /\ Len(queue') = Len(queue) + Len(ops)
      /\ \A k \in 1 .. Len(queue) + Len(ops) :
           queue'[k] = IF k <= Len(queue) THEN queue[k] ELSE ops[k - Len(queue)]
  BY ConcatProperties DEF Types
<1>3. DOMAIN queue' = 1 .. Len(queue')
  BY <1>2, LenProperties
<1>4. \A k \in DOMAIN queue : queue'[k] = queue[k]
  BY <1>1, <1>2
<1>5. \A k \in 1 .. Len(ops) : queue'[Len(queue) + k] = ops[k]
  BY <1>1, <1>2
<1>6. queue' # <<>> /\ Head(queue') = queue'[1]
  BY <1>1, <1>2, <1>3, EmptySeq, HeadTailProperties
<1>7. queue # <<>> => 1 \in DOMAIN queue /\ Head(queue) = queue[1]
  BY QueueIs
<1> QED BY <1>1, <1>2, <1>3, <1>4, <1>5, <1>6, <1>7

\* The three ways of an expiry at the end of the queue.
Ending(id, items, to) ==
  LET n == Len(queue) IN
  \/ /\ items = {} /\ DOMAIN queue' = 1 .. n + 1
     /\ queue'[n + 1].op = "dropMail" /\ queue'[n + 1].id = id
  \/ /\ DOMAIN queue' = 1 .. n + 2
     /\ queue'[n + 1].op = "turn" /\ queue'[n + 1].id = id
     /\ queue'[n + 2].op = "readdress" /\ queue'[n + 2].items = items /\ queue'[n + 2].to = to
  \/ /\ DOMAIN queue' = 1 .. n + 2
     /\ queue'[n + 1].op = "dropItems" /\ queue'[n + 1].items = items
     /\ queue'[n + 2].op = "dropMail" /\ queue'[n + 2].id = id

LEMMA ExpireQueue ==
  ASSUME Base, NEW m \in db.mail, Expire(m)
  PROVE  /\ queue' \in Seq(Operation)
         /\ Len(queue) \in Nat /\ DOMAIN queue = 1 .. Len(queue)
         /\ \A k \in DOMAIN queue : k \in DOMAIN queue' /\ queue'[k] = queue[k]
         /\ queue' # <<>> /\ (queue # <<>> => Head(queue') = Head(queue))
         /\ Ending(m.id, Carried(m.id), m.from)
         /\ \A k \in DOMAIN queue' : k \notin DOMAIN queue => queue'[k].op \notin {"save", "load"}
<1> DEFINE items == Carried(m.id)
           d1 == [op |-> "dropMail", id |-> m.id]
           t1 == [op |-> "turn", id |-> m.id]
           t2 == [op |-> "readdress", items |-> items, to |-> m.from]
           g1 == [op |-> "dropItems", items |-> items]
<1>1. Types /\ m \in MailRow
  BY BaseIs
<1>2. m.id \in Id /\ m.from \in Char /\ items \in SUBSET Item
  BY <1>1 DEF MailRow, Carried, Attached, Types, Tables, Attaching
<1> HIDE DEF items
<1>3. /\ d1 \in Operation /\ d1.op = "dropMail" /\ d1.id = m.id
      /\ t1 \in Operation /\ t1.op = "turn" /\ t1.id = m.id
      /\ t2 \in Operation /\ t2.op = "readdress" /\ t2.items = items /\ t2.to = m.from
      /\ g1 \in Operation /\ g1.op = "dropItems" /\ g1.items = items
  BY <1>2 DEF Operation
<1>4. \/ items = {} /\ queue' = queue \o <<d1>>
      \/ queue' = queue \o <<t1, t2>>
      \/ queue' = queue \o <<g1, d1>>
  BY DEF Expire, ExpiryOf, items, Carried
<1> HIDE DEF d1, t1, t2, g1
<1>5. ASSUME NEW a \in Operation, queue' = queue \o <<a>>
      PROVE  /\ queue' \in Seq(Operation)
             /\ Len(queue) \in Nat /\ DOMAIN queue = 1 .. Len(queue)
             /\ \A k \in DOMAIN queue : k \in DOMAIN queue' /\ queue'[k] = queue[k]
             /\ queue' # <<>> /\ (queue # <<>> => Head(queue') = Head(queue))
             /\ DOMAIN queue' = 1 .. Len(queue) + 1 /\ queue'[Len(queue) + 1] = a
  <2>1. <<a>> \in Seq(Operation) /\ Len(<<a>>) = 1 /\ <<a>>[1] = a
    OBVIOUS
  <2> DEFINE ops == <<a>>
  <2>2. ops \in Seq(Operation) /\ Len(ops) = 1 /\ ops[1] = a /\ queue' = queue \o ops
    BY <1>5, <2>1
  <2> HIDE DEF ops
  <2> HIDE <1>5
  <2>3. Types /\ ops \in Seq(Operation) /\ queue' = queue \o ops /\ Len(ops) # 0
    BY <1>1, <2>2
  <2>4. /\ queue' \in Seq(Operation)
        /\ DOMAIN queue' = 1 .. Len(queue) + Len(ops) /\ DOMAIN queue = 1 .. Len(queue)
        /\ Len(queue) \in Nat
        /\ \A k \in DOMAIN queue : queue'[k] = queue[k]
        /\ \A k \in 1 .. Len(ops) : queue'[Len(queue) + k] = ops[k]
        /\ queue' # <<>> /\ (queue # <<>> => Head(queue') = Head(queue))
    BY <2>3, Joined
  <2> QED BY <2>2, <2>4
<1>6. ASSUME NEW a \in Operation, NEW b \in Operation, queue' = queue \o <<a, b>>
      PROVE  /\ queue' \in Seq(Operation)
             /\ Len(queue) \in Nat /\ DOMAIN queue = 1 .. Len(queue)
             /\ \A k \in DOMAIN queue : k \in DOMAIN queue' /\ queue'[k] = queue[k]
             /\ queue' # <<>> /\ (queue # <<>> => Head(queue') = Head(queue))
             /\ DOMAIN queue' = 1 .. Len(queue) + 2
             /\ queue'[Len(queue) + 1] = a /\ queue'[Len(queue) + 2] = b
  <2>1. <<a, b>> \in Seq(Operation) /\ Len(<<a, b>>) = 2 /\ <<a, b>>[1] = a /\ <<a, b>>[2] = b
    OBVIOUS
  <2> DEFINE ops == <<a, b>>
  <2>2. ops \in Seq(Operation) /\ Len(ops) = 2 /\ ops[1] = a /\ ops[2] = b /\ queue' = queue \o ops
    BY <1>6, <2>1
  <2> HIDE DEF ops
  <2> HIDE <1>6
  <2>3. Types /\ ops \in Seq(Operation) /\ queue' = queue \o ops /\ Len(ops) # 0
    BY <1>1, <2>2
  <2>4. /\ queue' \in Seq(Operation)
        /\ DOMAIN queue' = 1 .. Len(queue) + Len(ops) /\ DOMAIN queue = 1 .. Len(queue)
        /\ Len(queue) \in Nat
        /\ \A k \in DOMAIN queue : queue'[k] = queue[k]
        /\ \A k \in 1 .. Len(ops) : queue'[Len(queue) + k] = ops[k]
        /\ queue' # <<>> /\ (queue # <<>> => Head(queue') = Head(queue))
    BY <2>3, Joined
  <2> QED BY <2>2, <2>4
<1>7. CASE items = {} /\ queue' = queue \o <<d1>>
  <2>1. /\ queue' \in Seq(Operation)
        /\ Len(queue) \in Nat /\ DOMAIN queue = 1 .. Len(queue)
        /\ \A k \in DOMAIN queue : k \in DOMAIN queue' /\ queue'[k] = queue[k]
        /\ queue' # <<>> /\ (queue # <<>> => Head(queue') = Head(queue))
        /\ DOMAIN queue' = 1 .. Len(queue) + 1 /\ queue'[Len(queue) + 1] = d1
    BY <1>3, <1>5, <1>7
  <2>2. \A k \in DOMAIN queue' : k \notin DOMAIN queue => queue'[k] = d1
    BY <2>1
  <2>3. Ending(m.id, items, m.from)
    BY <1>3, <1>7, <2>1 DEF Ending
  <2> QED BY <1>3, <2>1, <2>2, <2>3 DEF items
<1>8. ASSUME NEW a \in Operation, NEW b \in Operation, queue' = queue \o <<a, b>>,
             \/ /\ a.op = "turn" /\ a.id = m.id
                /\ b.op = "readdress" /\ b.items = items /\ b.to = m.from
             \/ a.op = "dropItems" /\ a.items = items /\ b.op = "dropMail" /\ b.id = m.id
      PROVE  /\ queue' \in Seq(Operation)
             /\ Len(queue) \in Nat /\ DOMAIN queue = 1 .. Len(queue)
             /\ \A k \in DOMAIN queue : k \in DOMAIN queue' /\ queue'[k] = queue[k]
             /\ queue' # <<>> /\ (queue # <<>> => Head(queue') = Head(queue))
             /\ Ending(m.id, items, m.from)
             /\ \A k \in DOMAIN queue' : k \notin DOMAIN queue => queue'[k].op \notin {"save", "load"}
  <2>1. /\ queue' \in Seq(Operation)
        /\ Len(queue) \in Nat /\ DOMAIN queue = 1 .. Len(queue)
        /\ \A k \in DOMAIN queue : k \in DOMAIN queue' /\ queue'[k] = queue[k]
        /\ queue' # <<>> /\ (queue # <<>> => Head(queue') = Head(queue))
        /\ DOMAIN queue' = 1 .. Len(queue) + 2
        /\ queue'[Len(queue) + 1] = a /\ queue'[Len(queue) + 2] = b
    BY <1>6, <1>8
  <2>2. \A k \in DOMAIN queue' : k \notin DOMAIN queue => queue'[k] = a \/ queue'[k] = b
    BY <2>1
  <2>3. Ending(m.id, items, m.from)
    BY <1>3, <1>8, <2>1 DEF Ending
  <2> QED BY <1>3, <1>8, <2>1, <2>2, <2>3
<1>9. CASE queue' = queue \o <<t1, t2>>
  <2>1. /\ queue' \in Seq(Operation)
        /\ Len(queue) \in Nat /\ DOMAIN queue = 1 .. Len(queue)
        /\ \A k \in DOMAIN queue : k \in DOMAIN queue' /\ queue'[k] = queue[k]
        /\ queue' # <<>> /\ (queue # <<>> => Head(queue') = Head(queue))
        /\ Ending(m.id, items, m.from)
        /\ \A k \in DOMAIN queue' : k \notin DOMAIN queue => queue'[k].op \notin {"save", "load"}
    BY <1>3, <1>8, <1>9
  <2> QED BY <2>1 DEF items
<1>10. CASE queue' = queue \o <<g1, d1>>
  <2>1. /\ queue' \in Seq(Operation)
        /\ Len(queue) \in Nat /\ DOMAIN queue = 1 .. Len(queue)
        /\ \A k \in DOMAIN queue : k \in DOMAIN queue' /\ queue'[k] = queue[k]
        /\ queue' # <<>> /\ (queue # <<>> => Head(queue') = Head(queue))
        /\ Ending(m.id, items, m.from)
        /\ \A k \in DOMAIN queue' : k \notin DOMAIN queue => queue'[k].op \notin {"save", "load"}
    BY <1>3, <1>8, <1>10
  <2> QED BY <2>1 DEF items
<1> QED BY <1>4, <1>7, <1>9, <1>10

LEMMA ExpireExpiries ==
  ASSUME Base, Expiries, NEW m \in db.mail, Expire(m), NoLetter(m.id), ~Loading(m.to)
  PROVE  Expiries'
<1>1. UNCHANGED <<db, mem, loading, nextId>> /\ ~Expiring(m.id) /\ m.id \in Id
  BY BaseIs DEF Expire
<1> DEFINE n == Len(queue)
<1>2. /\ n \in Nat /\ DOMAIN queue = 1 .. n
      /\ \A k \in DOMAIN queue : k \in DOMAIN queue' /\ queue'[k] = queue[k]
      /\ Ending(m.id, Carried(m.id), m.from)
      /\ \A k \in DOMAIN queue' : k \notin DOMAIN queue => queue'[k].op \notin {"save", "load"}
  BY ExpireQueue
<1>3. DOMAIN queue' \subseteq 1 .. n + 2 /\ n + 1 \in DOMAIN queue'
  BY <1>2 DEF Ending
<1> HIDE DEF n
<1>4. \A id : (NoLetter(id)' <=> NoLetter(id)) /\ Carried(id)' = Carried(id)
  BY <1>1 DEF NoLetter, Carried, Attached
<1>5. ASSUME NEW k \in DOMAIN queue, NEW id, NotRead(k, id) PROVE NotRead(k, id)'
  <2>1. \A j \in 1 .. k - 1 : j \in DOMAIN queue
    BY <1>2
  <2> QED BY <1>1, <1>2, <1>4, <1>5, <2>1 DEF NotRead, LoadOf
<1>6. ASSUME NEW k \in DOMAIN queue'
      PROVE  /\ NotRead(k, m.id)'
             /\ \A x \in db'.mail : x.id = m.id => x.from = m.from
  <2>1. \A x \in db.mail : x.id = m.id => x = m
    BY DEF Base, Numbered
  <2>2. ASSUME NEW j \in 1 .. k - 1 PROVE ~LoadOf(j, m.to)'
    <3>1. j \in DOMAIN queue'
      BY <1>2, <1>3 DEF Ending, n
    <3>2. CASE j \in DOMAIN queue
      BY <1>2, <3>2 DEF Loading, LoadOf
    <3>3. CASE j \notin DOMAIN queue
      BY <1>2, <3>1, <3>3 DEF LoadOf
    <3> QED BY <3>2, <3>3
  <2> QED BY <1>1, <1>4, <2>1, <2>2 DEF NotRead
<1>7. ASSUME NEW k \in DOMAIN queue PROVE Turning(k)' /\ Readdressing(k)' /\ Dropping(k)'
  <2>1. Turning(k) /\ Readdressing(k) /\ Dropping(k) /\ queue'[k] = queue[k]
    BY <1>2 DEF Expiries
  <2>2. k # 1 => k - 1 \in DOMAIN queue /\ queue'[k - 1] = queue[k - 1]
    BY <1>2
  <2>3. k + 1 \in DOMAIN queue => k + 1 \in DOMAIN queue' /\ queue'[k + 1] = queue[k + 1]
    BY <1>2
  <2>4. \A id : NotRead(k, id) => NotRead(k, id)'
    BY <1>5
  <2>5. Turning(k)'
    <3>1. ASSUME NEW id, queue[k].id = id, queue[k].op = "turn"
          PROVE  /\ k + 1 \in DOMAIN queue' /\ queue'[k + 1].op = "readdress"
                 /\ NotRead(k, id)' /\ queue'[k + 1].items = Carried(id)'
                 /\ \A x \in db'.mail : x.id = id => x.from = queue'[k + 1].to
      BY <1>1, <1>4, <2>1, <2>3, <2>4, <3>1 DEF Turning
    <3> QED BY <2>1, <3>1 DEF Turning, NotRead, NoLetter, LoadOf, Carried, Attached
  <2>6. Dropping(k)'
    <3>1. ASSUME NEW id, queue[k].id = id, queue[k].op = "dropMail"
          PROVE  /\ NotRead(k, id)'
                 /\ Carried(id)' = IF k # 1 /\ queue'[k - 1].op = "dropItems" THEN queue'[k - 1].items ELSE {}
      BY <1>4, <2>1, <2>2, <2>4, <3>1 DEF Dropping
    <3> QED BY <2>1, <2>3, <3>1 DEF Dropping, NotRead, NoLetter, LoadOf, Carried, Attached
  <2>7. Readdressing(k)'
    <3>1. CASE k = 1
      <4>1. \A id \in Id : NoLetter(id) => NoLetter(id)'
        BY <1>4
      <4>2. \A id \in Id : Carried(id)' = Carried(id)
        BY <1>4
      <4> QED BY <1>1, <2>1, <3>1, <4>1, <4>2 DEF Readdressing
    <3>2. CASE k # 1
      BY <2>1, <2>2, <3>2 DEF Readdressing
    <3> QED BY <3>1, <3>2
  <2> QED BY <2>5, <2>6, <2>7
<1>8. queue # <<>> => n # 0 /\ n \in DOMAIN queue
  BY <1>2, QueueIs DEF Base
<1>9. ASSUME NEW k \in DOMAIN queue', k \notin DOMAIN queue
      PROVE  Turning(k)' /\ Readdressing(k)' /\ Dropping(k)' /\ (Expiry(k)' => queue'[k].id = m.id)
  <2>1. k = n + 1 \/ k = n + 2
    BY <1>2, <1>3, <1>9
  <2>2. \A j : queue'[j].op = "dropMail" /\ queue'[j].id = m.id /\ NotRead(j, m.id)' /\
               Carried(m.id)' = (IF j # 1 /\ queue'[j - 1].op = "dropItems" THEN queue'[j - 1].items ELSE {})
               => Turning(j)' /\ Readdressing(j)' /\ Dropping(j)'
    BY DEF Turning, Readdressing, Dropping, NotRead, NoLetter, LoadOf, Carried, Attached
  <2>3. CASE /\ Carried(m.id) = {} /\ DOMAIN queue' = 1 .. n + 1
             /\ queue'[n + 1].op = "dropMail" /\ queue'[n + 1].id = m.id
    <3>1. k = n + 1
      BY <1>2, <2>1, <2>3
    <3>2. k # 1 => queue'[k - 1].op # "dropItems"
      <4> SUFFICES ASSUME k # 1, queue'[n].op = "dropItems" PROVE FALSE
        BY <1>2, <3>1
      <4>1. n \in DOMAIN queue /\ queue[n].op = "dropItems"
        BY <1>2, <3>1
      <4>2. n + 1 \in DOMAIN queue
        BY <4>1 DEF Expiries, Dropping
      <4> QED BY <1>2, <4>2
    <3>3. NotRead(k, m.id)' /\ Carried(m.id)' = {}
      BY <1>4, <1>6, <2>3
    <3> QED BY <2>2, <2>3, <3>1, <3>2, <3>3 DEF Expiry
  <2>4. CASE /\ DOMAIN queue' = 1 .. n + 2
             /\ queue'[n + 1].op = "turn" /\ queue'[n + 1].id = m.id
             /\ queue'[n + 2].op = "readdress" /\ queue'[n + 2].items = Carried(m.id) /\ queue'[n + 2].to = m.from
    <3>1. CASE k = n + 1
      <4>1. /\ k + 1 \in DOMAIN queue' /\ queue'[k + 1].op = "readdress"
            /\ NotRead(k, m.id)' /\ queue'[k + 1].items = Carried(m.id)'
            /\ \A x \in db'.mail : x.id = m.id => x.from = queue'[k + 1].to
        <5>1. k + 1 = n + 2 /\ k + 1 \in DOMAIN queue'
          BY <1>2, <2>4, <3>1
        <5> QED BY <1>4, <1>6, <2>4, <5>1
      <4> QED BY <2>4, <3>1, <4>1 DEF Turning, Readdressing, Dropping, Expiry, NotRead, NoLetter, LoadOf, Carried, Attached
    <3>2. CASE k = n + 2
      <4>1. k # 1 /\ k - 1 = n + 1
        BY <1>2, <3>2
      <4> QED BY <2>4, <3>2, <4>1 DEF Turning, Readdressing, Dropping, Expiry
    <3> QED BY <2>1, <3>1, <3>2
  <2>5. CASE /\ DOMAIN queue' = 1 .. n + 2
             /\ queue'[n + 1].op = "dropItems" /\ queue'[n + 1].items = Carried(m.id)
             /\ queue'[n + 2].op = "dropMail" /\ queue'[n + 2].id = m.id
    <3>1. CASE k = n + 1
      <4>1. k + 1 = n + 2 /\ k + 1 \in DOMAIN queue'
        BY <1>2, <2>5, <3>1
      <4> QED BY <2>5, <3>1, <4>1 DEF Turning, Readdressing, Dropping, Expiry
    <3>2. CASE k = n + 2
      <4>1. k # 1 /\ k - 1 = n + 1
        BY <1>2, <3>2
      <4>2. NotRead(k, m.id)' /\ Carried(m.id)' = Carried(m.id)
        BY <1>4, <1>6
      <4> QED BY <2>2, <2>5, <3>2, <4>1, <4>2
    <3> QED BY <2>1, <3>1, <3>2
  <2> QED BY <1>2, <2>3, <2>4, <2>5 DEF Ending, n
<1>10. \A k \in DOMAIN queue : Expiry(k) => queue[k].id # m.id
  BY <1>1 DEF Expiring, Expiry
<1>11. ASSUME NEW j \in DOMAIN queue', NEW k \in DOMAIN queue', Expiry(j)', Expiry(k)', queue'[j].id = queue'[k].id
       PROVE  j = k
  <2>1. \A l \in DOMAIN queue : Expiry(l)' => Expiry(l) /\ queue'[l].id = queue[l].id
    BY <1>2 DEF Expiry
  <2>2. CASE j \in DOMAIN queue /\ k \in DOMAIN queue
    BY <1>11, <2>1, <2>2 DEF Expiries
  <2>3. CASE j \notin DOMAIN queue /\ k \notin DOMAIN queue
    <3>1. \A l \in DOMAIN queue' : l \notin DOMAIN queue /\ Expiry(l)' =>
            \/ l = n + 1 /\ queue'[n + 1].op # "dropItems"
            \/ l = n + 2 /\ queue'[n + 1].op = "dropItems"
      BY <1>2, <1>3 DEF Ending, Expiry, n
    <3> QED BY <1>11, <2>3, <3>1
  <2>4. CASE j \in DOMAIN queue /\ k \notin DOMAIN queue
    BY <1>9, <1>10, <1>11, <2>1, <2>4
  <2>5. CASE j \notin DOMAIN queue /\ k \in DOMAIN queue
    BY <1>9, <1>10, <1>11, <2>1, <2>5
  <2> QED BY <2>2, <2>3, <2>4, <2>5
<1>12. \A k \in DOMAIN queue' : Turning(k)' /\ Readdressing(k)' /\ Dropping(k)'
  BY <1>7, <1>9
<1> QED BY <1>11, <1>12 DEF Expiries

LEMMA ExpireIs ==
  ASSUME Base, NEW m \in db.mail, Expire(m)
  PROVE  Maintained
<1>1. /\ UNCHANGED <<db, online, mem, loading, nextId, burnt>> /\ tainted \subseteq tainted'
      /\ m.to \notin online /\ (Loading(m.to) => "stale" \in tainted')
      /\ Types /\ m.id \in Id /\ m.to \in Char
  BY BaseIs DEF Expire
<1>2. /\ queue' \in Seq(Operation)
      /\ \A k \in DOMAIN queue : k \in DOMAIN queue' /\ queue'[k] = queue[k]
      /\ queue' # <<>> /\ (queue # <<>> => Head(queue') = Head(queue))
      /\ \A k \in DOMAIN queue' : k \notin DOMAIN queue => queue'[k].op \notin {"save", "load"}
  BY ExpireQueue
<1>3. Base'
  <2>1. Types' /\ Owners'
    BY <1>1, <1>2 DEF Base, Types, Owners
  <2>2. Logins'
    <3>1. \A c \in Char, k \in DOMAIN queue' : LoadOf(k, c)' => k \in DOMAIN queue /\ LoadOf(k, c)
      BY <1>2 DEF LoadOf
    <3>2. \A c \in Char : Loading(c)' => Loading(c)
      BY <1>1, <3>1 DEF Loading, LoadOf
    <3> QED BY <1>1, <3>1, <3>2 DEF Base, Logins
  <2>3. \A k \in DOMAIN queue' : Expiry(k)' => queue'[k].id < nextId
    <3>1. \A k \in DOMAIN queue : Expiry(k)' => queue'[k].id < nextId
      BY <1>2 DEF Base, Numbered, Expiry
    <3>2. ASSUME NEW k \in DOMAIN queue', k \notin DOMAIN queue, Expiry(k)' PROVE queue'[k].id = m.id
      <4>1. Len(queue) \in Nat /\ DOMAIN queue = 1 .. Len(queue) /\ Ending(m.id, Carried(m.id), m.from)
        BY ExpireQueue
      <4>2. k = Len(queue) + 1 \/ k = Len(queue) + 2
        BY <3>2, <4>1 DEF Ending
      <4> QED BY <3>2, <4>1, <4>2 DEF Ending, Expiry
    <3>3. m.id < nextId
      BY DEF Base, Numbered
    <3> QED BY <3>1, <3>2, <3>3
  <2>4. Numbered'
    BY <1>1, <2>3 DEF Base, Numbered
  <2> QED BY <2>1, <2>2, <2>4 DEF Base
<1>4. ASSUME Safe, ItemsSafe' PROVE Safe'
  <2>1. ~Loading(m.to)
    BY <1>1, <1>4 DEF ItemsSafe
  <2>2. ASSUME NEW a \in Place, Claim(a)' PROVE Claim(a)
    <3>1. \A k \in DOMAIN queue' : AboutToStore(k, a)' => k \in DOMAIN queue /\ AboutToStore(k, a)
      BY <1>2 DEF AboutToStore
    <3> QED BY <1>1, <2>2, <3>1 DEF Claim, StoredAt
  <2>3. OneClaim'
    BY <1>4, <2>2 DEF Safe, OneClaim
  <2>4. Letters'
    BY <1>1, <1>4 DEF Safe, Letters, Backed
  <2>5. NoLetter(m.id)
    <3>1. ASSUME NEW e \in Char, NEW p, Backed(p, e), NEW l \in p.box, l.id = m.id PROVE e = m.to
      BY <3>1 DEF Backed, Base, Numbered
    <3>2. mem[m.to].box = {} /\ loading[m.to] = <<>>
      BY <1>1, <2>1, OfflineIs DEF Base, Owners, Loading
    <3>3. \A e \in Char : Backed(mem[e], e) /\ (loading[e] # <<>> => Backed(loading[e][1], e))
      BY <1>4 DEF Safe, Letters
    <3> QED BY <3>1, <3>2, <3>3 DEF NoLetter
  <2>6. Expiries'
    BY <1>4, <2>1, <2>5, ExpireExpiries DEF Safe
  <2>7. "torn" \notin tainted' => Addressed'
    BY <1>1, <1>2, <1>4 DEF Safe, Addressed
  <2> QED BY <2>3, <2>4, <2>6, <2>7 DEF Safe
<1> QED BY <1>1, <1>3, <1>4, UnstoredIs

-----------------------------------------------------------------------------
(* The delay thread: what an operation does to the tables.                   *)

LEMMA LoadIs ==
  ASSUME Base, NEW c \in Char
  PROVE  LET p == LoadFromDB(db, c)
         IN  /\ p \in Memory /\ p.fresh = {} /\ p.bag = {i \in Item : <<c, i>> \in db.bag}
             /\ \A l \in p.box :
                  /\ l.to = c
                  /\ \E x \in db.mail : x.to = c /\ x.id = l.id
                  /\ \A i : i \in l.items <=> \E a \in db.att : a.mail = l.id /\ a.to = c /\ a.item = i
             /\ \A k, l \in p.box : k.id = l.id => k = l
<1> DEFINE p == LoadFromDB(db, c)
           items(x) == {a.item : a \in {y \in Attached(db, x.id) : y.to = c}}
<1>1. db \in Tables
  BY DEF Base, Types
<1>2. \A x \in db.mail : x \in MailRow /\ items(x) \in SUBSET Item
  BY <1>1 DEF Tables, Attached, Attaching
<1>3. p.box = {Letter(x, items(x)) : x \in {y \in db.mail : y.to = c}}
  BY DEF LoadFromDB
<1>4. /\ p.money = db.money[c] /\ p.goods = db.goods[c] /\ p.unsaved = 0
      /\ p.bag = {i \in Item : <<c, i>> \in db.bag} /\ p.fresh = {} /\ p.changed = {}
  BY DEF LoadFromDB
<1>5. p = [money |-> p.money, goods |-> p.goods, unsaved |-> p.unsaved, bag |-> p.bag,
           fresh |-> p.fresh, box |-> p.box, changed |-> p.changed]
  BY DEF LoadFromDB
<1> HIDE DEF p
<1>6. \A x \in db.mail : \A i : i \in items(x) <=> \E a \in db.att : a.mail = x.id /\ a.to = c /\ a.item = i
  BY DEF Attached
<1> HIDE DEF items
<1>7. \A l \in p.box : \E x \in db.mail :
        x.to = c /\ l = Letter(x, items(x)) /\ l \in LetterRow /\ l.id = x.id /\ l.to = x.to /\ l.items = items(x)
  BY <1>2, <1>3, LetterIs
<1>8. p \in Memory
  <2>1. p.box \in SUBSET LetterRow
    BY <1>7
  <2>2. db.money[c] \in Nat /\ db.goods[c] \in Nat
    BY <1>1 DEF Tables
  <2>3. /\ p.money \in Nat /\ p.goods \in Nat /\ p.unsaved \in Int /\ p.bag \in SUBSET Item
        /\ p.fresh \in SUBSET Item /\ p.box \in SUBSET LetterRow /\ p.changed \in SUBSET Id
    BY <1>4, <2>1, <2>2
  <2> HIDE <1>4
  <2> QED BY <1>5, <2>3 DEF Memory
<1>9. \A l \in p.box :
        /\ l.to = c
        /\ \E x \in db.mail : x.to = c /\ x.id = l.id
        /\ \A i : i \in l.items <=> \E a \in db.att : a.mail = l.id /\ a.to = c /\ a.item = i
  <2> SUFFICES ASSUME NEW l \in p.box
               PROVE  /\ l.to = c
                      /\ \E x \in db.mail : x.to = c /\ x.id = l.id
                      /\ \A i : i \in l.items <=> \E a \in db.att : a.mail = l.id /\ a.to = c /\ a.item = i
    OBVIOUS
  <2>1. PICK x \in db.mail : x.to = c /\ l.id = x.id /\ l.to = x.to /\ l.items = items(x)
    BY <1>7
  <2> QED BY <1>6, <2>1
<1>10. \A k, l \in p.box : k.id = l.id => k = l
  <2> SUFFICES ASSUME NEW k \in p.box, NEW l \in p.box, k.id = l.id PROVE k = l
    OBVIOUS
  <2>1. PICK x \in db.mail : k = Letter(x, items(x)) /\ k.id = x.id
    BY <1>7
  <2>2. PICK y \in db.mail : l = Letter(y, items(y)) /\ l.id = y.id
    BY <1>7
  <2>3. x = y
    BY <2>1, <2>2 DEF Base, Numbered
  <2> QED BY <2>1, <2>2, <2>3
<1> QED BY <1>4, <1>8, <1>9, <1>10 DEF p

LEMMA SaveApplied ==
  ASSUME NEW d \in Tables, NEW o \in Operation, o.op = "save"
  PROVE  /\ Apply(d, o) \in Tables
         /\ Apply(d, o).bag = d.bag \cup {<<o.who, i>> : i \in o.insert}
         /\ Apply(d, o).mail = UpdateMails(d.mail, o.mails)
         /\ Apply(d, o).att = d.att
<1>1. o.who \in Char /\ o.money \in Nat /\ o.goods \in Int /\ o.insert \in SUBSET Item /\ o.mails \in SUBSET MailRow
  BY OperationIs
<1>2. UpdateMails(d.mail, o.mails) \in SUBSET MailRow
  BY <1>1, UpdateIs DEF Tables
<1>3. Restocked(d.goods[o.who], o.goods) \in Nat
  BY <1>1, RestockedIs DEF Tables
<1>4. {<<o.who, i>> : i \in o.insert} \in SUBSET (Char \X Item)
  BY <1>1
<1> DEFINE stored == {<<o.who, i>> : i \in o.insert}
           d1 == [d EXCEPT !.money[o.who] = o.money]
           d2 == [d1 EXCEPT !.goods[o.who] = Restocked(@, o.goods)]
           d3 == [d2 EXCEPT !.bag = @ \cup stored]
<1>5. Apply(d, o) = [d3 EXCEPT !.mail = UpdateMails(@, o.mails)]
  BY DEF Apply
<1>6. d1 \in Tables /\ d1.goods = d.goods /\ d1.bag = d.bag /\ d1.mail = d.mail /\ d1.att = d.att
  BY <1>1 DEF Tables
<1> HIDE DEF d1
<1>7. d2 \in Tables /\ d2.bag = d.bag /\ d2.mail = d.mail /\ d2.att = d.att
  BY <1>1, <1>3, <1>6 DEF Tables
<1> HIDE DEF d2, stored
<1>8. d3 \in Tables /\ d3.bag = d.bag \cup stored /\ d3.mail = d.mail /\ d3.att = d.att
  BY <1>4, <1>7 DEF Tables, stored
<1> HIDE DEF d3
<1> QED BY <1>2, <1>5, <1>8 DEF Tables, stored

LEMMA TurnApplied ==
  ASSUME NEW d \in Tables, NEW o \in Operation, o.op = "turn"
  PROVE  /\ Apply(d, o) \in Tables
         /\ Apply(d, o).bag = d.bag /\ Apply(d, o).att = d.att
         /\ \A x \in Apply(d, o).mail : \E y \in d.mail :
              x.id = y.id /\ (IF y.id = o.id THEN x.from = y.to /\ x.to = y.from ELSE x = y)
         /\ \A y \in d.mail : \E x \in Apply(d, o).mail :
              x.id = y.id /\ (IF y.id = o.id THEN x.from = y.to /\ x.to = y.from ELSE x = y)
         /\ (\A x, y \in d.mail : x.id = y.id => x = y) =>
              \A x, y \in Apply(d, o).mail : x.id = y.id => x = y
<1> DEFINE f(x) == IF x.id = o.id
                   THEN [x EXCEPT !.from = x.to, !.to = x.from, !.cod = 0, !.kind = "returned", !.read = FALSE]
                   ELSE x
           rows == {f(x) : x \in d.mail}
<1>1. ASSUME NEW x \in d.mail
      PROVE  /\ f(x) \in MailRow /\ f(x).id = x.id
             /\ IF x.id = o.id THEN f(x).from = x.to /\ f(x).to = x.from ELSE f(x) = x
  <2>1. x \in MailRow
    BY DEF Tables
  <2>2. CASE x.id = o.id
    <3>1. f(x) = [id |-> x.id, from |-> x.to, to |-> x.from, money |-> x.money, cod |-> 0,
                  kind |-> "returned", read |-> FALSE]
      BY <2>1, <2>2 DEF MailRow
    <3> QED BY <2>1, <2>2, <3>1 DEF MailRow, Kind
  <2> QED BY <2>1, <2>2
<1>2. Apply(d, o) = [d EXCEPT !.mail = rows]
  BY DEF Apply
<1> HIDE DEF f
<1>3. rows \in SUBSET MailRow
  BY <1>1
<1>4. \A x \in rows : \E y \in d.mail : x = f(y)
  OBVIOUS
<1>5. \A y \in d.mail : f(y) \in rows
  OBVIOUS
<1> HIDE DEF rows
<1>6. Apply(d, o) \in Tables /\ Apply(d, o).bag = d.bag /\ Apply(d, o).att = d.att /\ Apply(d, o).mail = rows
  BY <1>2, <1>3 DEF Tables
<1> QED BY <1>1, <1>4, <1>5, <1>6

LEMMA ReaddressApplied ==
  ASSUME NEW d \in Tables, NEW o \in Operation, o.op = "readdress"
  PROVE  /\ Apply(d, o) \in Tables
         /\ Apply(d, o).bag = d.bag /\ Apply(d, o).mail = d.mail
         /\ \A a \in Apply(d, o).att : \E b \in d.att :
              a.mail = b.mail /\ a.item = b.item /\ (IF b.item \in o.items THEN a.to = o.to ELSE a = b)
         /\ \A b \in d.att : \E a \in Apply(d, o).att :
              a.mail = b.mail /\ a.item = b.item /\ (IF b.item \in o.items THEN a.to = o.to ELSE a = b)
<1> DEFINE f(a) == IF a.item \in o.items THEN [a EXCEPT !.to = o.to] ELSE a
           rows == {f(a) : a \in d.att}
<1>1. ASSUME NEW b \in d.att
      PROVE  /\ f(b) \in Attaching /\ f(b).mail = b.mail /\ f(b).item = b.item
             /\ IF b.item \in o.items THEN f(b).to = o.to ELSE f(b) = b
  BY OperationIs DEF Tables, Attaching
<1>2. Apply(d, o) = [d EXCEPT !.att = rows]
  BY DEF Apply
<1> HIDE DEF f
<1>3. rows \in SUBSET Attaching
  BY <1>1
<1>4. \A a \in rows : \E b \in d.att : a = f(b)
  OBVIOUS
<1>5. \A b \in d.att : f(b) \in rows
  OBVIOUS
<1> HIDE DEF rows
<1>6. Apply(d, o) \in Tables /\ Apply(d, o).bag = d.bag /\ Apply(d, o).mail = d.mail /\ Apply(d, o).att = rows
  BY <1>2, <1>3 DEF Tables
<1> QED BY <1>1, <1>4, <1>5, <1>6

LEMMA DropApplied ==
  ASSUME NEW d \in Tables, NEW o \in Operation
  PROVE  /\ o.op = "dropItems" =>
              /\ Apply(d, o) \in Tables /\ Apply(d, o).mail = d.mail
              /\ Apply(d, o).att = {a \in d.att : a.item \notin o.items}
              /\ Apply(d, o).bag = {r \in d.bag : r[2] \notin o.items}
         /\ o.op = "dropMail" =>
              /\ Apply(d, o) \in Tables /\ Apply(d, o).bag = d.bag /\ Apply(d, o).att = d.att
              /\ Apply(d, o).mail = {x \in d.mail : x.id # o.id}
         /\ o.op = "load" => Apply(d, o) = d
<1>1. o.op = "dropItems" => Apply(d, o) = [d EXCEPT !.att = {a \in d.att : a.item \notin o.items},
                                                      !.bag = {r \in d.bag : r[2] \notin o.items}]
  BY DEF Apply
<1>2. o.op = "dropMail" => Apply(d, o) = [d EXCEPT !.mail = {x \in d.mail : x.id # o.id}]
  BY DEF Apply
<1>3. o.op = "load" => Apply(d, o) = d
  BY DEF Apply
<1>4. ASSUME o.op = "dropItems"
      PROVE  /\ Apply(d, o) \in Tables /\ Apply(d, o).mail = d.mail
             /\ Apply(d, o).att = {a \in d.att : a.item \notin o.items}
             /\ Apply(d, o).bag = {r \in d.bag : r[2] \notin o.items}
  <2>1. PICK att \in SUBSET Attaching : att = {a \in d.att : a.item \notin o.items}
    BY DEF Tables
  <2>2. PICK bag \in SUBSET (Char \X Item) : bag = {r \in d.bag : r[2] \notin o.items}
    BY DEF Tables
  <2>3. Apply(d, o) = [d EXCEPT !.att = att, !.bag = bag]
    BY <1>1, <1>4, <2>1, <2>2
  <2>4. /\ Apply(d, o) \in Tables /\ Apply(d, o).mail = d.mail
        /\ Apply(d, o).att = att /\ Apply(d, o).bag = bag
    BY <2>3 DEF Tables
  <2> QED BY <2>1, <2>2, <2>4
<1>5. ASSUME o.op = "dropMail"
      PROVE  /\ Apply(d, o) \in Tables /\ Apply(d, o).bag = d.bag /\ Apply(d, o).att = d.att
             /\ Apply(d, o).mail = {x \in d.mail : x.id # o.id}
  <2>1. PICK rows \in SUBSET MailRow : rows = {x \in d.mail : x.id # o.id}
    BY DEF Tables
  <2>2. Apply(d, o) = [d EXCEPT !.mail = rows]
    BY <1>2, <1>5, <2>1
  <2>3. /\ Apply(d, o) \in Tables /\ Apply(d, o).bag = d.bag /\ Apply(d, o).att = d.att
        /\ Apply(d, o).mail = rows
    BY <2>2 DEF Tables
  <2> QED BY <2>1, <2>3
<1> QED BY <1>3, <1>4, <1>5

-----------------------------------------------------------------------------
(* The delay thread: types.                                                  *)

\* What an operation leaves of the ids.
LEMMA ExecuteTables ==
  ASSUME Base, Execute
  PROVE  /\ db' \in Tables
         /\ \A x \in db'.mail : \E y \in db.mail : x.id = y.id
         /\ \A x, y \in db'.mail : x.id = y.id => x = y
         /\ \A a \in db'.att : \E b \in db.att : a.mail = b.mail
<1> DEFINE o == Head(queue)
<1>1. db \in Tables /\ o \in Operation /\ (db' = Apply(db, o) \/ db' = db)
  BY QueueIs DEF Base, Types, Execute
<1>2. \A x, y \in db.mail : x.id = y.id => x = y
  BY DEF Base, Numbered
<1> HIDE DEF o
<1>3. CASE db' = db
  BY <1>1, <1>2, <1>3
<1>4. CASE db' = Apply(db, o) /\ o.op = "save"
  <2>1. o.mails \in SUBSET MailRow /\ db.mail \in SUBSET MailRow
    BY <1>1, <1>4, OperationIs DEF Tables
  <2>2. /\ \A x \in UpdateMails(db.mail, o.mails) : \E y \in db.mail : SameMail(x, y)
        /\ \A x, y \in UpdateMails(db.mail, o.mails) : x.id = y.id => x = y
    BY <1>2, <2>1, UpdateIs
  <2> QED BY <1>1, <1>4, <2>2, SaveApplied DEF SameMail
<1>5. CASE db' = Apply(db, o) /\ o.op = "turn"
  <2>1. PICK t : t = Apply(db, o)
    OBVIOUS
  <2>2. /\ t \in Tables /\ t.att = db.att
        /\ \A x \in t.mail : \E y \in db.mail : x.id = y.id
    BY <1>1, <1>5, <2>1, TurnApplied
  <2>3. \A x, y \in t.mail : x.id = y.id => x = y
    <3>1. db \in Tables /\ o \in Operation /\ o.op = "turn"
      BY <1>1, <1>5
    <3>2. (\A x, y \in db.mail : x.id = y.id => x = y) =>
            \A x, y \in Apply(db, o).mail : x.id = y.id => x = y
      BY <3>1, TurnApplied, ZenonT(30)
    <3> QED BY <1>2, <2>1, <3>2
  <2> QED BY <1>5, <2>1, <2>2, <2>3
<1>6. CASE db' = Apply(db, o) /\ o.op = "readdress"
  <2>1. /\ db' \in Tables /\ db'.mail = db.mail
        /\ \A a \in db'.att : \E b \in db.att : a.mail = b.mail
    BY <1>1, <1>6, ReaddressApplied
  <2> QED BY <1>2, <2>1
<1>7. CASE db' = Apply(db, o) /\ o.op \in {"dropItems", "dropMail", "load"}
  BY <1>1, <1>2, <1>7, DropApplied
<1> QED BY <1>1, <1>3, <1>4, <1>5, <1>6, <1>7, OperationIs

LEMMA MoneyInIs ==
  ASSUME db \in Tables, NEW id
  PROVE  MoneyIn(db, id) \in Nat
<1>1. CASE \E m \in db.mail : m.id = id
  <2>1. (CHOOSE m \in db.mail : m.id = id) \in MailRow
    BY <1>1 DEF Tables
  <2> QED BY <1>1, <2>1 DEF MoneyIn, MailRow
<1> QED BY <1>1 DEF MoneyIn

LEMMA ExecuteBase ==
  ASSUME Base, Execute
  PROVE  Base'
<1> DEFINE o == Head(queue)
<1>1. /\ Types /\ queue # <<>> /\ queue' = Tail(queue) /\ UNCHANGED <<online, mem, nextId>>
      /\ o \in Operation /\ o = queue[1] /\ 1 \in DOMAIN queue
      /\ loading' = IF o.op = "load" THEN [loading EXCEPT ![o.who] = <<LoadFromDB(db, o.who)>>] ELSE loading
      /\ burnt' = IF o.op = "dropMail" THEN burnt + MoneyIn(db, o.id) ELSE burnt
  BY QueueIs DEF Base, Execute
<1>2. /\ queue' \in Seq(Operation)
      /\ \A k \in DOMAIN queue' : k + 1 \in DOMAIN queue /\ queue'[k] = queue[k + 1]
      /\ DOMAIN queue' = 1 .. Len(queue) - 1 /\ Len(queue) \in Nat \ {0}
  BY <1>1, Popped
<1> HIDE DEF o
<1>3. burnt' \in Nat
  <2>1. o.op = "dropMail" => MoneyIn(db, o.id) \in Nat
    BY <1>1, MoneyInIs DEF Types
  <2> QED BY <1>1, <2>1 DEF Types
<1>4. ASSUME NEW c \in Char, o.op = "load", o.who = c
      PROVE  /\ loading' \in [Char -> {<<>>} \cup {<<p>> : p \in Memory}]
             /\ \A e \in Char : loading'[e] = IF e = c THEN <<LoadFromDB(db, c)>> ELSE loading[e]
             /\ Owned(LoadFromDB(db, c), c)
  <2> DEFINE p == LoadFromDB(db, c)
  <2>1. p \in Memory /\ p.fresh = {} /\ \A l \in p.box : l.to = c
    BY LoadIs
  <2> HIDE DEF p
  <2>2. loading' = [loading EXCEPT ![c] = <<p>>] /\ loading \in [Char -> {<<>>} \cup {<<q>> : q \in Memory}]
    BY <1>1, <1>4 DEF p, Types
  <2>3. loading' \in [Char -> {<<>>} \cup {<<q>> : q \in Memory}]
    BY <2>1, <2>2
  <2>4. \A e \in Char : loading'[e] = IF e = c THEN <<p>> ELSE loading[e]
    BY <2>2
  <2>5. Owned(p, c)
    BY <2>1 DEF Owned
  <2> QED BY <2>3, <2>4, <2>5 DEF p
<1>5. o.op = "load" => o.who \in Char
  BY <1>1, OperationIs
<1>6. Types'
  <2>1. loading' \in [Char -> {<<>>} \cup {<<p>> : p \in Memory}]
    BY <1>1, <1>4, <1>5 DEF Types
  <2>2. db' \in Tables
    BY ExecuteTables
  <2> QED BY <1>1, <1>2, <1>3, <2>1, <2>2 DEF Types
<1>7. Owners'
  <2>1. ASSUME NEW c \in Char, loading'[c] # <<>> PROVE Owned(loading'[c][1], c)
    <3>1. CASE o.op = "load"
      <4>1. CASE o.who = c
        <5>1. loading'[c] = <<LoadFromDB(db, c)>> /\ Owned(LoadFromDB(db, c), c)
          BY <1>4, <3>1, <4>1
        <5> QED BY <5>1
      <4>2. CASE o.who # c
        <5>1. loading'[c] = loading[c]
          BY <1>4, <1>5, <3>1, <4>2
        <5> QED BY <2>1, <5>1 DEF Base, Owners
      <4> QED BY <4>1, <4>2
    <3>2. CASE o.op # "load"
      BY <1>1, <2>1, <3>2 DEF Base, Owners
    <3> QED BY <3>1, <3>2
  <2> QED BY <1>1, <2>1 DEF Base, Owners
<1>8. Logins'
  <2>1. \A c \in Char, k \in DOMAIN queue' : LoadOf(k, c)' => k + 1 \in DOMAIN queue /\ LoadOf(k + 1, c)
    BY <1>2 DEF LoadOf
  <2>2. \A c \in Char : loading'[c] # <<>> => loading[c] # <<>> \/ LoadOf(1, c)
    BY <1>1, <1>4, <1>5 DEF LoadOf
  <2>3. ASSUME NEW c \in Char PROVE Loading(c)' => Loading(c)
    <3>1. ASSUME LoadOf(1, c) PROVE Loading(c)
      BY <1>1, <3>1 DEF Loading, LoadOf
    <3>2. ASSUME NEW k \in DOMAIN queue', LoadOf(k, c)' PROVE Loading(c)
      BY <2>1, <3>2 DEF Loading, LoadOf
    <3> QED BY <2>2, <3>1, <3>2 DEF Loading, LoadOf
  <2>4. ASSUME NEW c \in Char, NEW k \in DOMAIN queue', LoadOf(k, c)'
        PROVE  loading'[c] = <<>> /\ \A j \in DOMAIN queue' : LoadOf(j, c)' => j = k
    <3>1. /\ k + 1 \in DOMAIN queue /\ LoadOf(k + 1, c) /\ k \in Nat /\ k # 0
      BY <1>2, <2>1, <2>4
    <3>2. loading[c] = <<>> /\ \A j \in DOMAIN queue : LoadOf(j, c) => j = k + 1
      BY <3>1 DEF Base, Logins
    <3>3. ~LoadOf(1, c)
      BY <1>1, <3>1, <3>2
    <3>4. \A j \in DOMAIN queue' : LoadOf(j, c)' => j + 1 = k + 1 /\ j \in Nat
      BY <1>2, <2>1, <3>2
    <3>5. \A j \in DOMAIN queue' : LoadOf(j, c)' => j = k
      BY <3>1, <3>4
    <3> QED BY <2>2, <3>2, <3>3, <3>5
  <2> QED BY <1>1, <2>3, <2>4 DEF Base, Logins
<1>9. Numbered'
  <2>1. \A x \in db'.mail : x.id < nextId
    BY ExecuteTables DEF Base, Numbered
  <2>2. \A a \in db'.att : a.mail < nextId
    BY ExecuteTables DEF Base, Numbered
  <2>3. \A x, y \in db'.mail : x.id = y.id => x = y
    BY ExecuteTables
  <2>4. \A k \in DOMAIN queue' : Expiry(k)' => queue'[k].id < nextId
    BY <1>2 DEF Base, Numbered, Expiry
  <2> QED BY <1>1, <2>1, <2>2, <2>3, <2>4 DEF Numbered
<1> QED BY <1>6, <1>7, <1>8, <1>9 DEF Base

-----------------------------------------------------------------------------
(* The delay thread: items.                                                  *)

\* The operations behind the first move up.
LEMMA ExpiriesShift ==
  ASSUME Base, Expiries, queue # <<>>, queue' = Tail(queue),
         \A k \in DOMAIN queue, id \in Id : k # 1 /\ Expiry(k) /\ queue[k].id = id /\ NotRead(k, id) =>
           /\ NoLetter(id)'
           /\ \A x \in db'.mail : x.id = id => \E y \in db.mail : SameMail(x, y)
           /\ Carried(id)' = IF k = 2 /\ Head(queue).op = "dropItems" THEN {} ELSE Carried(id),
         1 \in DOMAIN queue' => Readdressing(1)'
  PROVE  Expiries'
<1>1. /\ Len(queue) \in Nat \ {0} /\ DOMAIN queue' = 1 .. Len(queue) - 1 /\ DOMAIN queue = 1 .. Len(queue)
      /\ \A k \in DOMAIN queue' : k + 1 \in DOMAIN queue /\ queue'[k] = queue[k + 1]
      /\ Head(queue) = queue[1] /\ 1 \in DOMAIN queue
  BY Popped, QueueIs DEF Base
<1>2. ASSUME NEW k \in DOMAIN queue, k # 1, NEW id \in Id, queue[k].id = id, Expiry(k), NotRead(k, id)
      PROVE  NotRead(k - 1, id)'
  <2>1. NoLetter(id)' /\ \A x \in db'.mail : x.id = id => \E y \in db.mail : SameMail(x, y)
    BY <1>2
  <2>2. ASSUME NEW x \in db'.mail, x.id = id, NEW j \in 1 .. (k - 1) - 1 PROVE ~LoadOf(j, x.to)'
    <3>1. PICK y \in db.mail : SameMail(x, y)
      BY <2>1, <2>2
    <3>2. j + 1 \in 1 .. k - 1 /\ j \in DOMAIN queue'
      BY <1>1
    <3>3. ~LoadOf(j + 1, y.to)
      BY <1>2, <2>2, <3>1, <3>2 DEF NotRead, SameMail
    <3> QED BY <1>1, <3>1, <3>2, <3>3 DEF LoadOf, SameMail
  <2> QED BY <2>1, <2>2 DEF NotRead
<1>3. ASSUME NEW k \in DOMAIN queue, k # 1, NEW l, l = k - 1
      PROVE  Turning(l)' /\ Readdressing(l)' /\ Dropping(l)'
  <2>1. /\ Turning(k) /\ Readdressing(k) /\ Dropping(k)
        /\ l \in DOMAIN queue' /\ queue'[l] = queue[k]
        /\ k \in Nat /\ l + 1 = k
    BY <1>1, <1>3 DEF Expiries
  <2>2. k + 1 \in DOMAIN queue => l + 1 \in DOMAIN queue' /\ queue'[l + 1] = queue[k + 1]
    BY <1>1, <2>1
  <2>3. l # 1 => k # 2 /\ queue'[l - 1] = queue[k - 1]
    <3> SUFFICES ASSUME l # 1 PROVE k # 2 /\ queue'[l - 1] = queue[k - 1]
      OBVIOUS
    <3>1. l - 1 \in DOMAIN queue' /\ (l - 1) + 1 = k - 1
      BY <1>1, <1>3, <2>1
    <3> QED BY <1>1, <1>3, <2>1, <3>1
  <2>4. l = 1 => k = 2 /\ queue[k - 1] = Head(queue)
    BY <1>1, <1>3, <2>1
  <2>5. ASSUME NEW id \in Id, queue[k].id = id, Expiry(k), NotRead(k, id)
        PROVE  /\ NotRead(l, id)'
               /\ Carried(id)' = IF k = 2 /\ Head(queue).op = "dropItems" THEN {} ELSE Carried(id)
               /\ \A x \in db'.mail : x.id = id => \E y \in db.mail : SameMail(x, y)
    BY <1>2, <1>3, <2>5
  <2>0. Expiry(k) => queue[k].id \in Id
    BY <1>3, QueueIs, OperationIs DEF Base, Expiry
  <2>6. Turning(l)'
    <3>1. ASSUME NEW id \in Id, queue[k].id = id, queue[k].op = "turn"
          PROVE  /\ l + 1 \in DOMAIN queue' /\ queue'[l + 1].op = "readdress"
                 /\ NotRead(l, id)' /\ queue'[l + 1].items = Carried(id)'
                 /\ \A x \in db'.mail : x.id = id => x.from = queue'[l + 1].to
      <4>1. /\ k + 1 \in DOMAIN queue /\ queue[k + 1].op = "readdress"
            /\ NotRead(k, id) /\ queue[k + 1].items = Carried(id)
            /\ \A x \in db.mail : x.id = id => x.from = queue[k + 1].to
        BY <2>1, <3>1 DEF Turning
      <4>2. ~(k = 2 /\ Head(queue).op = "dropItems")
        BY <1>1, <2>1, <3>1 DEF Expiries, Dropping
      <4>3. Expiry(k)
        BY <3>1 DEF Expiry
      <4>4. /\ NotRead(l, id)' /\ Carried(id)' = Carried(id)
            /\ \A x \in db'.mail : x.id = id => \E y \in db.mail : SameMail(x, y)
        BY <2>5, <3>1, <4>1, <4>2, <4>3
      <4> QED BY <2>2, <4>1, <4>4 DEF SameMail
    <3> QED BY <2>0, <2>1, <3>1 DEF Turning, Expiry, NotRead, NoLetter, LoadOf, Carried, Attached
  <2>7. Dropping(l)'
    <3>1. ASSUME NEW id \in Id, queue[k].id = id, queue[k].op = "dropMail"
          PROVE  /\ NotRead(l, id)'
                 /\ Carried(id)' = IF l # 1 /\ queue'[l - 1].op = "dropItems" THEN queue'[l - 1].items ELSE {}
      <4>1. /\ NotRead(k, id)
            /\ Carried(id) = IF k # 1 /\ queue[k - 1].op = "dropItems" THEN queue[k - 1].items ELSE {}
        BY <2>1, <3>1 DEF Dropping
      <4>2. /\ NotRead(l, id)'
            /\ Carried(id)' = IF k = 2 /\ Head(queue).op = "dropItems" THEN {} ELSE Carried(id)
        BY <2>5, <3>1, <4>1 DEF Expiry
      <4>3. CASE l # 1
        BY <1>3, <2>3, <4>1, <4>2, <4>3
      <4>4. CASE l = 1
        BY <1>3, <2>4, <4>1, <4>2, <4>4
      <4> QED BY <4>3, <4>4
    <3>2. queue'[l].op = "dropItems" => l + 1 \in DOMAIN queue' /\ queue'[l + 1].op = "dropMail"
      BY <2>1, <2>2 DEF Dropping
    <3>3. ASSUME NEW id, queue'[l].id = id, queue'[l].op = "dropMail"
          PROVE  /\ NotRead(l, id)'
                 /\ Carried(id)' = IF l # 1 /\ queue'[l - 1].op = "dropItems" THEN queue'[l - 1].items ELSE {}
      <4>1. id \in Id /\ queue[k].id = id /\ queue[k].op = "dropMail"
        BY <2>0, <2>1, <3>3 DEF Expiry
      <4> QED BY <3>1, <4>1
    <3> QED BY <3>2, <3>3 DEF Dropping, NotRead, NoLetter, LoadOf, Carried, Attached
  <2>8. Readdressing(l)'
    <3>1. CASE l = 1
      BY <2>1, <3>1
    <3>2. CASE l # 1
      BY <1>3, <2>1, <2>3, <3>2 DEF Readdressing
    <3> QED BY <3>1, <3>2
  <2> QED BY <2>6, <2>7, <2>8
<1>4. \A l \in DOMAIN queue' : Turning(l)' /\ Readdressing(l)' /\ Dropping(l)'
  <2> SUFFICES ASSUME NEW l \in DOMAIN queue' PROVE Turning(l)' /\ Readdressing(l)' /\ Dropping(l)'
    OBVIOUS
  <2>1. l + 1 \in DOMAIN queue /\ l + 1 # 1 /\ l = (l + 1) - 1
    BY <1>1
  <2> QED BY <1>3, <2>1
<1>5. ASSUME NEW j \in DOMAIN queue', NEW k \in DOMAIN queue', Expiry(j)', Expiry(k)', queue'[j].id = queue'[k].id
      PROVE  j = k
  <2>1. /\ j + 1 \in DOMAIN queue /\ k + 1 \in DOMAIN queue /\ j \in Nat /\ k \in Nat
        /\ queue'[j] = queue[j + 1] /\ queue'[k] = queue[k + 1]
    BY <1>1
  <2>2. j + 1 = k + 1
    BY <1>5, <2>1 DEF Expiries, Expiry
  <2> QED BY <2>1, <2>2
<1> QED BY <1>4, <1>5 DEF Expiries

LEMMA ExecuteIs ==
  ASSUME Base, Execute
  PROVE  /\ queue # <<>> /\ queue' = Tail(queue) /\ UNCHANGED <<online, mem, nextId>>
         /\ Head(queue) = queue[1] /\ 1 \in DOMAIN queue /\ Head(queue) \in Operation /\ db \in Tables
         /\ \A k \in DOMAIN queue' : k + 1 \in DOMAIN queue /\ queue'[k] = queue[k + 1]
         /\ db' = Apply(db, Head(queue)) \/ (Head(queue).op = "save" /\ db' = db)
         /\ Head(queue).op # "load" => loading' = loading
         /\ tainted \subseteq tainted'
<1>1. queue # <<>> /\ queue' = Tail(queue) /\ Types /\ db \in Tables
  BY DEF Execute, Base, Types
<1>2. /\ \A k \in DOMAIN queue' : k + 1 \in DOMAIN queue /\ queue'[k] = queue[k + 1]
      /\ Head(queue) = queue[1] /\ 1 \in DOMAIN queue /\ Head(queue) \in Operation
  BY <1>1, Popped, QueueIs
<1> QED BY <1>1, <1>2 DEF Execute

\* Only after "turn" is a readdressing next.
LEMMA NoReaddress ==
  ASSUME Base, Expiries, Execute, Head(queue).op # "turn"
  PROVE  1 \in DOMAIN queue' => Readdressing(1)'
<1> SUFFICES ASSUME 1 \in DOMAIN queue', queue'[1].op = "readdress" PROVE FALSE
  BY DEF Readdressing
<1>1. 2 \in DOMAIN queue /\ queue[2].op = "readdress" /\ Head(queue) = queue[1]
  BY ExecuteIs
<1>2. Readdressing(2)
  BY <1>1 DEF Expiries
<1> QED BY <1>1, <1>2 DEF Readdressing

\* What was claimed is claimed by less, apart from what is stored now.
LEMMA ExecuteClaims ==
  ASSUME Base, Execute, Head(queue).op # "load", NEW a \in Place, Claim(a)'
  PROVE  StoredAt(db', a) \/ Claim(a)
<1>1. \A k \in DOMAIN queue' : AboutToStore(k, a)' => k + 1 \in DOMAIN queue /\ AboutToStore(k + 1, a)
  BY ExecuteIs DEF AboutToStore
<1> QED BY <1>1, ExecuteIs DEF Claim

\* An expiry behind the first operation does not concern the same mail.
LEMMA OtherExpiry ==
  ASSUME Base, Expiries, queue # <<>>, Expiry(1), NEW k \in DOMAIN queue, k # 1, Expiry(k)
  PROVE  queue[k].id # queue[1].id
BY QueueIs DEF Base, Expiries

LEMMA Reached ==
  ASSUME Addressed, Head(queue).op # "readdress"
  PROVE  \A a \in db.att : \E y \in db.mail : y.id = a.mail /\ y.to = a.to
BY DEF Addressed

LEMMA ExecuteSave ==
  ASSUME Base, Safe, Execute, Head(queue).op = "save"
  PROVE  Safe' /\ Stays
<1> DEFINE o == Head(queue)
<1>1. /\ queue # <<>> /\ queue' = Tail(queue) /\ UNCHANGED <<online, mem, nextId, loading>>
      /\ o = queue[1] /\ 1 \in DOMAIN queue /\ o \in Operation /\ db \in Tables /\ o.op = "save"
  BY ExecuteIs
<1>2. o.who \in Char /\ o.insert \in SUBSET Item /\ o.mails \in SUBSET MailRow
  BY <1>1, OperationIs
<1>3. /\ db'.att = db.att /\ db.bag \subseteq db'.bag
      /\ \A e, i : <<e, i>> \in db'.bag => <<e, i>> \in db.bag \/ (e = o.who /\ i \in o.insert)
      /\ \A x \in db'.mail : \E y \in db.mail : SameMail(x, y)
      /\ \A y \in db.mail : \E x \in db'.mail : SameMail(x, y)
  <2>1. CASE db' = db
    BY <2>1 DEF SameMail
  <2>2. CASE db' = Apply(db, o)
    <3>1. db'.bag = db.bag \cup {<<o.who, i>> : i \in o.insert} /\ db'.att = db.att
          /\ db'.mail = UpdateMails(db.mail, o.mails)
      BY <1>1, <2>2, SaveApplied
    <3>2. db.mail \in SUBSET MailRow
      BY <1>1 DEF Tables
    <3>3. /\ \A x \in db'.mail : \E y \in db.mail : SameMail(x, y)
          /\ \A y \in db.mail : \E x \in db'.mail : SameMail(x, y)
      BY <1>2, <3>1, <3>2, UpdateIs
    <3> QED BY <3>1, <3>3
  <2> QED BY <2>1, <2>2, ExecuteIs
<1> HIDE DEF o
<1>4. ASSUME NEW a \in Place, Claim(a)' PROVE Claim(a)
  <2>1. CASE StoredAt(db', a)
    <3>1. StoredAt(db, a) \/ AboutToStore(1, a)
      BY <1>1, <1>3, <2>1 DEF StoredAt, AboutToStore
    <3> QED BY <1>1, <3>1 DEF Claim
  <2> QED BY <1>1, <1>4, <2>1, ExecuteClaims DEF o
<1>5. OneClaim'
  BY <1>4 DEF Safe, OneClaim
<1>6. Letters'
  BY <1>1, <1>3 DEF Safe, Letters, Backed, SameMail
<1>7. \A id : NoLetter(id)' <=> NoLetter(id)
  BY <1>1 DEF NoLetter
<1>8. \A id : Carried(id)' = Carried(id)
  BY <1>3 DEF Carried, Attached
<1>9. Expiries'
  <2>1. ASSUME NEW k \in DOMAIN queue, NEW id \in Id, NotRead(k, id)
        PROVE  /\ NoLetter(id)'
               /\ \A x \in db'.mail : x.id = id => \E y \in db.mail : SameMail(x, y)
               /\ Carried(id)' = IF k = 2 /\ Head(queue).op = "dropItems" THEN {} ELSE Carried(id)
    BY <1>1, <1>3, <1>7, <1>8, <2>1 DEF NotRead, o
  <2>2. 1 \in DOMAIN queue' => Readdressing(1)'
    BY <1>1, NoReaddress DEF Safe, o
  <2> QED BY <1>1, <2>1, <2>2, ExpiriesShift DEF Safe
<1>10. "torn" \notin tainted' => Addressed'
  <2> SUFFICES ASSUME "torn" \notin tainted', NEW a \in db'.att
               PROVE  \E x \in db'.mail : x.id = a.mail /\ x.to = a.to
    BY DEF Addressed
  <2>1. PICK y \in db.mail : y.id = a.mail /\ y.to = a.to
    <3>1. Addressed /\ Head(queue).op # "readdress" /\ a \in db.att
      BY <1>1, <1>3, ExecuteIs DEF Safe
    <3> QED BY <3>1, Reached
  <2> QED BY <1>3, <2>1 DEF SameMail
<1>11. Stays
  BY <1>3 DEF Stays, StoredAt
<1> QED BY <1>5, <1>6, <1>9, <1>10, <1>11 DEF Safe

LEMMA ExecuteLoad ==
  ASSUME Base, Safe, Execute, Head(queue).op = "load"
  PROVE  Safe' /\ Stays
<1> DEFINE o == Head(queue)
           c == o.who
           p == LoadFromDB(db, c)
<1>1. /\ queue # <<>> /\ queue' = Tail(queue) /\ UNCHANGED <<online, mem, nextId>>
      /\ o = queue[1] /\ 1 \in DOMAIN queue /\ o \in Operation /\ db \in Tables /\ o.op = "load"
      /\ \A k \in DOMAIN queue' : k + 1 \in DOMAIN queue /\ queue'[k] = queue[k + 1]
      /\ DOMAIN queue \subseteq Nat \ {0}
  BY ExecuteIs, QueueIs DEF Base
<1>2. c \in Char /\ db' = db
  BY <1>1, OperationIs, ExecuteIs, DropApplied
<1>3. loading' = [loading EXCEPT ![c] = <<p>>] /\ loading \in [Char -> {<<>>} \cup {<<q>> : q \in Memory}]
  BY <1>1 DEF Execute, Base, Types
<1>4. /\ p \in Memory /\ p.bag = {i \in Item : <<c, i>> \in db.bag}
      /\ \A l \in p.box :
           /\ l.to = c
           /\ \E x \in db.mail : x.to = c /\ x.id = l.id
           /\ \A i : i \in l.items <=> \E a \in db.att : a.mail = l.id /\ a.to = c /\ a.item = i
      /\ \A k, l \in p.box : k.id = l.id => k = l
  BY <1>2, LoadIs
<1>5. LoadOf(1, c)
  BY <1>1 DEF LoadOf
<1> HIDE DEF p, c
<1>6. \A e \in Char : loading'[e] = IF e = c THEN <<p>> ELSE loading[e]
  BY <1>2, <1>3
<1>7. ASSUME NEW a \in Place, Claim(a)' PROVE Claim(a)
  <2>1. \A k \in DOMAIN queue' : AboutToStore(k, a)' => k + 1 \in DOMAIN queue /\ AboutToStore(k + 1, a)
    BY <1>1 DEF AboutToStore
  <2>2. ASSUME Held(p, c, a) PROVE StoredAt(db, a)
    <3>1. CASE a.mail = 0 /\ a.item \in p.bag
      BY <1>4, <2>2, <3>1 DEF Held, StoredAt
    <3>2. CASE \E l \in p.box : l.id = a.mail /\ a.item \in l.items
      <4>1. PICK b \in db.att : b.mail = a.mail /\ b.to = c /\ b.item = a.item
        BY <1>4, <3>2
      <4>2. a = b
        BY <2>2, <4>1, BaseIs, PlaceIsOf DEF Held
      <4> QED BY <4>2 DEF StoredAt
    <3> QED BY <2>2, <3>1, <3>2 DEF Held
  <2>3. ASSUME NEW e \in Char, loading'[e] # <<>>, Held(loading'[e][1], e, a)
        PROVE  StoredAt(db, a) \/ (loading[e] # <<>> /\ Held(loading[e][1], e, a))
    <3>1. CASE e = c
      <4>1. loading'[e] = <<p>>
        BY <1>6, <3>1
      <4> QED BY <2>2, <2>3, <3>1, <4>1
    <3>2. CASE e # c
      BY <1>6, <2>3, <3>2
    <3> QED BY <3>1, <3>2
  <2> QED BY <1>1, <1>2, <1>7, <2>1, <2>3 DEF Claim
<1>8. OneClaim'
  BY <1>7 DEF Safe, OneClaim
<1>9. Letters'
  <2>1. Backed(p, c)
    BY <1>4 DEF Backed
  <2>2. \A e \in Char : loading'[e] # <<>> => Backed(loading'[e][1], e)
    <3> SUFFICES ASSUME NEW e \in Char, loading'[e] # <<>> PROVE Backed(loading'[e][1], e)
      OBVIOUS
    <3>1. CASE e = c
      <4>1. loading'[e] = <<p>>
        BY <1>6, <3>1
      <4> QED BY <2>1, <3>1, <4>1
    <3>2. CASE e # c
      BY <1>6, <3>2 DEF Safe, Letters
    <3> QED BY <3>1, <3>2
  <2> QED BY <1>1, <1>2, <2>2 DEF Safe, Letters, Backed
<1>10. Expiries'
  <2>1. ASSUME NEW k \in DOMAIN queue, NEW id \in Id, k # 1, NotRead(k, id)
        PROVE  /\ NoLetter(id)'
               /\ \A x \in db'.mail : x.id = id => \E y \in db.mail : SameMail(x, y)
               /\ Carried(id)' = IF k = 2 /\ Head(queue).op = "dropItems" THEN {} ELSE Carried(id)
    <3>1. 1 \in 1 .. k - 1
      BY <1>1, <2>1
    <3>2. \A x \in db.mail : x.id = id => x.to # c
      BY <1>5, <2>1, <3>1 DEF NotRead
    <3>3. \A l \in p.box : l.id # id
      BY <1>4, <3>2
    <3>4. ASSUME NEW e \in Char, loading'[e] # <<>> PROVE \A m \in loading'[e][1].box : m.id # id
      <4>1. CASE e = c
        <5>1. loading'[e] = <<p>>
          BY <1>6, <4>1
        <5> QED BY <3>3, <5>1
      <4>2. CASE e # c
        BY <1>6, <2>1, <3>4, <4>2 DEF NotRead, NoLetter
      <4> QED BY <4>1, <4>2
    <3>5. NoLetter(id)'
      BY <1>1, <2>1, <3>4 DEF NotRead, NoLetter
    <3>6. Carried(id)' = Carried(id)
      BY <1>2 DEF Carried, Attached
    <3> QED BY <1>1, <1>2, <3>5, <3>6 DEF SameMail
  <2>2. 1 \in DOMAIN queue' => Readdressing(1)'
    BY <1>1, NoReaddress DEF Safe
  <2> QED BY <1>1, <2>1, <2>2, ExpiriesShift DEF Safe
<1>11. "torn" \notin tainted' => Addressed'
  <2> SUFFICES ASSUME "torn" \notin tainted', NEW a \in db'.att
               PROVE  \E x \in db'.mail : x.id = a.mail /\ x.to = a.to
    BY DEF Addressed
  <2>1. Addressed /\ Head(queue).op # "readdress" /\ a \in db.att
    BY <1>1, <1>2, ExecuteIs DEF Safe
  <2> QED BY <1>2, <2>1, Reached
<1>12. Stays
  BY <1>2 DEF Stays
<1> QED BY <1>8, <1>9, <1>10, <1>11, <1>12 DEF Safe

\* Nobody has the letter that goes back in memory, and its items are what moves next.
LEMMA ExecuteTurn ==
  ASSUME Base, Safe, Execute, Head(queue).op = "turn"
  PROVE  Safe' /\ Stays
<1> DEFINE o == Head(queue)
<1>1. /\ queue # <<>> /\ queue' = Tail(queue) /\ UNCHANGED <<online, mem, nextId, loading>>
      /\ o = queue[1] /\ 1 \in DOMAIN queue /\ o \in Operation /\ db \in Tables /\ o.op = "turn"
      /\ db' = Apply(db, o)
  BY ExecuteIs
<1>2. /\ o.id \in Id /\ o.id < nextId /\ Expiry(1)
  <2>1. o.id \in Id
    BY <1>1, OperationIs
  <2> QED BY <1>1, <2>1 DEF Base, Numbered, Expiry
<1>3. /\ db'.bag = db.bag /\ db'.att = db.att
      /\ \A x \in db'.mail : \E y \in db.mail :
           x.id = y.id /\ (IF y.id = o.id THEN x.from = y.to /\ x.to = y.from ELSE x = y)
      /\ \A y \in db.mail : \E x \in db'.mail :
           x.id = y.id /\ (IF y.id = o.id THEN x.from = y.to /\ x.to = y.from ELSE x = y)
  BY <1>1, TurnApplied
<1>4. /\ 2 \in DOMAIN queue /\ queue[2].op = "readdress" /\ NotRead(1, o.id)
      /\ queue[2].items = Carried(o.id)
      /\ \A x \in db.mail : x.id = o.id => x.from = queue[2].to
  BY <1>1 DEF Safe, Expiries, Turning
<1>5. 1 \in DOMAIN queue' /\ queue'[1] = queue[2] /\ queue' # <<>> /\ Head(queue') = queue[2]
  <2>1. 1 \in DOMAIN queue' /\ queue'[1] = queue[2] /\ (queue' # <<>> => Head(queue') = queue[2])
    BY <1>1, <1>4, Popped DEF Base
  <2> QED BY <2>1, EmptySeq
<1> HIDE DEF o
<1>6. ASSUME NEW a \in Place, Claim(a)' PROVE Claim(a)
  <2>1. Claim(a) \/ StoredAt(db', a)
    BY <1>1, <1>6, ExecuteClaims DEF o
  <2> QED BY <1>3, <2>1 DEF Claim, StoredAt
<1>7. OneClaim'
  BY <1>6 DEF Safe, OneClaim
<1>8. Letters'
  <2>1. ASSUME NEW c \in Char, NEW p, Backed(p, c), \A m \in p.box : m.id # o.id PROVE Backed(p, c)'
    BY <1>3, <2>1 DEF Backed
  <2>2. NoLetter(o.id)
    BY <1>4 DEF NotRead
  <2>3. \A c \in Char : Backed(mem[c], c)' /\ (loading[c] # <<>> => Backed(loading[c][1], c)')
    <3> SUFFICES ASSUME NEW c \in Char PROVE Backed(mem[c], c)' /\ (loading[c] # <<>> => Backed(loading[c][1], c)')
      OBVIOUS
    <3>1. Backed(mem[c], c) /\ (loading[c] # <<>> => Backed(loading[c][1], c))
      BY DEF Safe, Letters
    <3>2. \A m \in mem[c].box : m.id # o.id
      BY <2>2 DEF NoLetter
    <3>3. loading[c] # <<>> => \A m \in loading[c][1].box : m.id # o.id
      BY <2>2 DEF NoLetter
    <3>4. Backed(mem[c], c)'
      BY <1>1, <2>1, <3>1, <3>2 DEF Backed
    <3>5. loading[c] # <<>> => Backed(loading[c][1], c)'
      BY <1>1, <2>1, <3>1, <3>3 DEF Backed
    <3> QED BY <3>4, <3>5
  <2> QED BY <1>1, <2>3 DEF Letters
<1>9. \A id : (NoLetter(id)' <=> NoLetter(id)) /\ Carried(id)' = Carried(id)
  BY <1>1, <1>3 DEF NoLetter, Carried, Attached
<1>10. Expiries'
  <2>1. ASSUME NEW k \in DOMAIN queue, NEW id \in Id, k # 1, Expiry(k), queue[k].id = id, NotRead(k, id)
        PROVE  /\ NoLetter(id)'
               /\ \A x \in db'.mail : x.id = id => \E y \in db.mail : SameMail(x, y)
               /\ Carried(id)' = IF k = 2 /\ Head(queue).op = "dropItems" THEN {} ELSE Carried(id)
    <3>1. id # o.id
      BY <1>1, <1>2, <2>1, OtherExpiry DEF Safe
    <3> QED BY <1>1, <1>3, <1>9, <2>1, <3>1 DEF NotRead, SameMail, o
  <2>2. Readdressing(1)'
    <3>1. /\ NoLetter(o.id) /\ queue'[1].items = Carried(o.id)
          /\ \A x \in db'.mail : x.id = o.id => x.to = queue'[1].to
      BY <1>3, <1>4, <1>5 DEF NotRead
    <3>2. PICK id \in Id : id = o.id
      BY <1>2
    <3>3. /\ id < nextId' /\ NoLetter(id) /\ queue'[1].items = Carried(id)
          /\ \A x \in db'.mail : x.id = id => x.to = queue'[1].to
      BY <1>1, <1>2, <3>1, <3>2
    <3>4. (NoLetter(id)' <=> NoLetter(id)) /\ Carried(id)' = Carried(id)
      BY <1>9
    <3> QED BY <3>3, <3>4 DEF Readdressing
  <2> QED BY <1>1, <2>1, <2>2, ExpiriesShift DEF Safe
<1>11. "torn" \notin tainted' => Addressed'
  <2> SUFFICES ASSUME "torn" \notin tainted', NEW a \in db'.att
               PROVE  \E x \in db'.mail :
                        x.id = a.mail /\ (x.to # a.to => a.item \in Head(queue').items)
    BY <1>4, <1>5 DEF Addressed
  <2>1. PICK y \in db.mail : y.id = a.mail /\ y.to = a.to
    <3>1. Addressed /\ Head(queue).op # "readdress" /\ a \in db.att
      BY <1>1, <1>3, ExecuteIs DEF Safe, o
    <3> QED BY <3>1, Reached
  <2>2. PICK x \in db'.mail : x.id = y.id /\ (y.id # o.id => x = y)
    BY <1>3
  <2>3. ASSUME y.id = o.id PROVE a.item \in Head(queue').items
    <3>1. a \in db.att /\ a.mail = o.id
      BY <1>3, <2>1, <2>3
    <3>2. a.item \in Carried(o.id)
      BY <3>1 DEF Carried, Attached
    <3> QED BY <1>4, <1>5, <3>2
  <2> QED BY <2>1, <2>2, <2>3
<1>12. Stays
  BY <1>3 DEF Stays, StoredAt
<1> QED BY <1>7, <1>8, <1>10, <1>11, <1>12 DEF Safe

LEMMA ExecuteReaddress ==
  ASSUME Base, Safe, Execute, Head(queue).op = "readdress"
  PROVE  Safe' /\ Stays
<1> DEFINE o == Head(queue)
<1>1. /\ queue # <<>> /\ queue' = Tail(queue) /\ UNCHANGED <<online, mem, nextId, loading>>
      /\ o = queue[1] /\ 1 \in DOMAIN queue /\ o \in Operation /\ db \in Tables /\ o.op = "readdress"
      /\ db' = Apply(db, o)
  BY ExecuteIs
<1>2. o.to \in Char
  BY <1>1, OperationIs
<1>3. /\ db'.bag = db.bag /\ db'.mail = db.mail
      /\ \A a \in db'.att : \E b \in db.att :
           a.mail = b.mail /\ a.item = b.item /\ (IF b.item \in o.items THEN a.to = o.to ELSE a = b)
      /\ \A b \in db.att : \E a \in db'.att :
           a.mail = b.mail /\ a.item = b.item /\ (IF b.item \in o.items THEN a.to = o.to ELSE a = b)
  BY <1>1, ReaddressApplied
<1>4. PICK id \in Id :
        /\ NoLetter(id)
        /\ o.items = Carried(id)
        /\ \A a \in db.att : a.item \in o.items => a.mail = id
        /\ \A x \in db.mail : x.id = id => x.to = o.to
  BY <1>1, Readdressed DEF Safe
<1> HIDE DEF o
<1>5. ASSUME NEW a \in Place, Claim(a), a.item \in o.items
      PROVE  a \in db.att /\ a.mail = id
  <2>1. PICK b \in db.att : b.mail = id /\ b.item = a.item
    BY <1>4, <1>5 DEF Carried, Attached
  <2>2. b \in Place /\ Claim(b)
    BY BaseIs DEF Claim, StoredAt
  <2> QED BY <1>5, <2>1, <2>2 DEF Safe, OneClaim
<1>6. ASSUME NEW a \in Place, Claim(a)'
      PROVE  IF a.item \in o.items THEN a.mail = id /\ a.to = o.to ELSE Claim(a)
  <2>1. CASE a \in db'.att
    <3>1. PICK b \in db.att :
            a.mail = b.mail /\ a.item = b.item /\ (IF b.item \in o.items THEN a.to = o.to ELSE a = b)
      BY <1>3, <2>1
    <3> QED BY <1>4, <3>1 DEF Claim, StoredAt
  <2>2. ASSUME Claim(a), a \notin db.att PROVE a.item \notin o.items
    BY <1>5, <2>2
  <2>3. CASE a \notin db'.att
    <3>1. Claim(a)
      <4>1. Claim(a) \/ StoredAt(db', a)
        BY <1>1, <1>6, ExecuteClaims DEF o
      <4>2. StoredAt(db', a) => StoredAt(db, a)
        BY <1>3, <2>3 DEF StoredAt
      <4> QED BY <4>1, <4>2 DEF Claim
    <3>2. CASE a.item \notin o.items
      BY <3>1, <3>2
    <3>3. CASE a.item \in o.items
      <4>1. a \in db.att /\ a.mail = id /\ a.mail # 0
        BY <1>5, <3>1, <3>3, BaseIs
      <4>2. ~\E c \in Char : Held(mem[c], c, a)
        BY <1>4, <4>1 DEF NoLetter, Held
      <4>3. ~\E c \in Char : loading[c] # <<>> /\ Held(loading[c][1], c, a)
        BY <1>4, <4>1 DEF NoLetter, Held
      <4>4. ~StoredAt(db', a)
        BY <2>3, <4>1 DEF StoredAt
      <4>5. \A k \in DOMAIN queue' : ~AboutToStore(k, a)'
        BY <4>1 DEF AboutToStore
      <4> QED BY <1>1, <1>6, <4>2, <4>3, <4>4, <4>5 DEF Claim
    <3> QED BY <3>2, <3>3
  <2> QED BY <2>1, <2>3
<1>7. OneClaim'
  <2> SUFFICES ASSUME NEW a \in Place, NEW b \in Place, Claim(a)', Claim(b)', a.item = b.item PROVE a = b
    BY DEF OneClaim
  <2>1. IF a.item \in o.items THEN a.mail = id /\ a.to = o.to ELSE Claim(a)
    BY <1>6
  <2>2. IF b.item \in o.items THEN b.mail = id /\ b.to = o.to ELSE Claim(b)
    BY <1>6
  <2> QED BY <2>1, <2>2, PlaceIsOf DEF Safe, OneClaim
<1>8. ASSUME NEW a \in db'.att, a.mail # id PROVE a \in db.att
  BY <1>3, <1>4, <1>8
<1>9. Letters'
  <2>1. ASSUME NEW c \in Char, NEW p, Backed(p, c), \A m \in p.box : m.id # id PROVE Backed(p, c)'
    BY <1>3, <1>8, <2>1 DEF Backed
  <2>2. \A c \in Char : Backed(mem[c], c)' /\ (loading[c] # <<>> => Backed(loading[c][1], c)')
    <3> SUFFICES ASSUME NEW c \in Char PROVE Backed(mem[c], c)' /\ (loading[c] # <<>> => Backed(loading[c][1], c)')
      OBVIOUS
    <3>1. Backed(mem[c], c) /\ (loading[c] # <<>> => Backed(loading[c][1], c))
      BY DEF Safe, Letters
    <3>2. \A m \in mem[c].box : m.id # id
      BY <1>4 DEF NoLetter
    <3>3. loading[c] # <<>> => \A m \in loading[c][1].box : m.id # id
      BY <1>4 DEF NoLetter
    <3>4. Backed(mem[c], c)'
      BY <1>1, <2>1, <3>1, <3>2 DEF Backed
    <3>5. loading[c] # <<>> => Backed(loading[c][1], c)'
      BY <1>1, <2>1, <3>1, <3>3 DEF Backed
    <3> QED BY <3>4, <3>5
  <2> QED BY <1>1, <2>2 DEF Letters
<1>10. Expiries'
  <2>1. \A j \in Id : NoLetter(j)' <=> NoLetter(j)
    BY <1>1 DEF NoLetter
  <2>2. ASSUME NEW j \in Id PROVE Carried(j)' = Carried(j)
    <3>1. \A i : i \in Carried(j)' <=> i \in Carried(j)
      BY <1>3 DEF Carried, Attached
    <3> QED BY <3>1
  <2>3. ASSUME NEW k \in DOMAIN queue, NEW j \in Id, NotRead(k, j)
        PROVE  /\ NoLetter(j)'
               /\ \A x \in db'.mail : x.id = j => \E y \in db.mail : SameMail(x, y)
               /\ Carried(j)' = IF k = 2 /\ Head(queue).op = "dropItems" THEN {} ELSE Carried(j)
    BY <1>1, <1>3, <2>1, <2>2, <2>3 DEF NotRead, SameMail, o
  <2>4. 1 \in DOMAIN queue' => Readdressing(1)'
    BY <1>1, NoReaddress DEF Safe, o
  <2> QED BY <1>1, <2>3, <2>4, ExpiriesShift DEF Safe
<1>11. "torn" \notin tainted' => Addressed'
  <2> SUFFICES ASSUME "torn" \notin tainted', NEW a \in db'.att
               PROVE  \E x \in db'.mail : x.id = a.mail /\ x.to = a.to
    BY DEF Addressed
  <2>1. PICK b \in db.att :
          a.mail = b.mail /\ a.item = b.item /\ (IF b.item \in o.items THEN a.to = o.to ELSE a = b)
    BY <1>3
  <2>2. PICK y \in db.mail : y.id = b.mail /\ (y.to # b.to => b.item \in o.items)
    BY <1>1, ExecuteIs DEF Safe, Addressed, o
  <2> QED BY <1>3, <1>4, <2>1, <2>2
<1>12. Stays
  <2> SUFFICES ASSUME NEW b \in Place, StoredAt(db, b)
               PROVE  \E a \in Place : a.item = b.item /\ StoredAt(db', a)
    BY DEF Stays
  <2>1. CASE b \in db.att
    <3>1. PICK a \in db'.att : a.item = b.item
      BY <1>3, <2>1
    <3>2. a \in Attaching
      BY ExecuteTables DEF Tables
    <3>3. a \in Place
      BY <3>2 DEF Attaching, Place
    <3> QED BY <3>1, <3>3 DEF StoredAt
  <2>2. CASE b \notin db.att
    BY <1>3, <2>2 DEF StoredAt
  <2> QED BY <2>1, <2>2
<1> QED BY <1>7, <1>9, <1>10, <1>11, <1>12 DEF Safe

LEMMA ExecuteDropItems ==
  ASSUME Base, Safe, Execute, Head(queue).op = "dropItems"
  PROVE  Safe' /\ Stays
<1> DEFINE o == Head(queue)
<1>1. /\ queue # <<>> /\ queue' = Tail(queue) /\ UNCHANGED <<online, mem, nextId, loading>>
      /\ o = queue[1] /\ 1 \in DOMAIN queue /\ o \in Operation /\ db \in Tables /\ o.op = "dropItems"
      /\ db' = Apply(db, o)
  BY ExecuteIs
<1>2. /\ db'.mail = db.mail
      /\ db'.att = {a \in db.att : a.item \notin o.items}
      /\ db'.bag = {r \in db.bag : r[2] \notin o.items}
  BY <1>1, DropApplied
<1>3. 2 \in DOMAIN queue /\ queue[2].op = "dropMail" /\ Expiry(2)
  BY <1>1 DEF Safe, Expiries, Dropping, Expiry
<1>4. Carried(queue[2].id) = o.items
  BY <1>1, <1>3 DEF Safe, Expiries, Dropping
<1> HIDE DEF o
<1>5. ASSUME NEW a \in Place, Claim(a)' PROVE Claim(a)
  <2>1. Claim(a) \/ StoredAt(db', a)
    BY <1>1, <1>5, ExecuteClaims DEF o
  <2> QED BY <1>2, <2>1 DEF Claim, StoredAt
<1>6. OneClaim'
  BY <1>5 DEF Safe, OneClaim
<1>7. Letters'
  BY <1>1, <1>2 DEF Safe, Letters, Backed
<1>8. ASSUME NEW a \in db.att, a.item \in o.items PROVE a.mail = queue[2].id
  <2>1. PICK b \in db.att : b.mail = queue[2].id /\ b.item = a.item
    BY <1>4, <1>8 DEF Carried, Attached
  <2>2. a \in Place /\ b \in Place /\ Claim(a) /\ Claim(b)
    BY BaseIs DEF Claim, StoredAt
  <2> QED BY <2>1, <2>2, <1>8 DEF Safe, OneClaim
<1>9. Expiries'
  <2>1. \A j \in Id : NoLetter(j)' <=> NoLetter(j)
    BY <1>1 DEF NoLetter
  <2>2. ASSUME NEW k \in DOMAIN queue, NEW j \in Id, k # 1, Expiry(k), queue[k].id = j, NotRead(k, j)
        PROVE  /\ NoLetter(j)'
               /\ \A x \in db'.mail : x.id = j => \E y \in db.mail : SameMail(x, y)
               /\ Carried(j)' = IF k = 2 /\ Head(queue).op = "dropItems" THEN {} ELSE Carried(j)
    <3>1. CASE k = 2
      <4>1. \A a \in db.att : a.mail = j => a.item \in o.items
        BY <1>4, <2>2, <3>1 DEF Carried, Attached
      <4>2. Carried(j)' = {}
        BY <1>2, <4>1 DEF Carried, Attached
      <4> QED BY <1>1, <1>2, <2>1, <2>2, <3>1, <4>2 DEF NotRead, SameMail, o
    <3>2. CASE k # 2
      <4>1. j # queue[2].id
        BY <1>3, <2>2, <3>2 DEF Safe, Expiries
      <4>2. \A a \in db.att : a.mail = j => a \in db'.att
        BY <1>2, <1>8, <4>1
      <4>3. Carried(j)' = Carried(j)
        BY <1>2, <4>2 DEF Carried, Attached
      <4> QED BY <1>2, <2>1, <2>2, <3>2, <4>3 DEF NotRead, SameMail
    <3> QED BY <3>1, <3>2
  <2>3. 1 \in DOMAIN queue' => Readdressing(1)'
    BY <1>1, NoReaddress DEF Safe, o
  <2> QED BY <1>1, <2>2, <2>3, ExpiriesShift DEF Safe
<1>10. "torn" \notin tainted' => Addressed'
  <2> SUFFICES ASSUME "torn" \notin tainted', NEW a \in db'.att
               PROVE  \E x \in db'.mail : x.id = a.mail /\ x.to = a.to
    BY DEF Addressed
  <2>1. Addressed /\ Head(queue).op # "readdress" /\ a \in db.att
    BY <1>1, <1>2, ExecuteIs DEF Safe, o
  <2> QED BY <1>2, <2>1, Reached
<1>11. Stays
  BY <1>1, <1>2 DEF Stays, StoredAt, o
<1> QED BY <1>6, <1>7, <1>9, <1>10, <1>11 DEF Safe

LEMMA ExecuteDropMail ==
  ASSUME Base, Safe, Execute, Head(queue).op = "dropMail"
  PROVE  Safe' /\ Stays
<1> DEFINE o == Head(queue)
<1>1. /\ queue # <<>> /\ queue' = Tail(queue) /\ UNCHANGED <<online, mem, nextId, loading>>
      /\ o = queue[1] /\ 1 \in DOMAIN queue /\ o \in Operation /\ db \in Tables /\ o.op = "dropMail"
      /\ db' = Apply(db, o)
  BY ExecuteIs
<1>2. db'.bag = db.bag /\ db'.att = db.att /\ db'.mail = {x \in db.mail : x.id # o.id}
  BY <1>1, DropApplied
<1>3. NoLetter(o.id) /\ Carried(o.id) = {} /\ Expiry(1)
  BY <1>1 DEF Safe, Expiries, Dropping, NotRead, Expiry
<1> HIDE DEF o
<1>4. ASSUME NEW a \in Place, Claim(a)' PROVE Claim(a)
  <2>1. Claim(a) \/ StoredAt(db', a)
    BY <1>1, <1>4, ExecuteClaims DEF o
  <2> QED BY <1>2, <2>1 DEF Claim, StoredAt
<1>5. OneClaim'
  BY <1>4 DEF Safe, OneClaim
<1>6. Letters'
  <2>1. ASSUME NEW c \in Char, NEW p, Backed(p, c), \A m \in p.box : m.id # o.id PROVE Backed(p, c)'
    BY <1>2, <2>1 DEF Backed
  <2> SUFFICES ASSUME NEW c \in Char PROVE Backed(mem[c], c)' /\ (loading[c] # <<>> => Backed(loading[c][1], c)')
    BY <1>1 DEF Letters
  <2>2. Backed(mem[c], c) /\ (loading[c] # <<>> => Backed(loading[c][1], c))
    BY DEF Safe, Letters
  <2>3. \A m \in mem[c].box : m.id # o.id
    BY <1>3 DEF NoLetter
  <2>4. loading[c] # <<>> => \A m \in loading[c][1].box : m.id # o.id
    BY <1>3 DEF NoLetter
  <2>5. Backed(mem[c], c)'
    BY <1>1, <2>1, <2>2, <2>3 DEF Backed
  <2>6. loading[c] # <<>> => Backed(loading[c][1], c)'
    BY <1>1, <2>1, <2>2, <2>4 DEF Backed
  <2> QED BY <2>5, <2>6
<1>7. Expiries'
  <2>1. \A j \in Id : (NoLetter(j)' <=> NoLetter(j)) /\ Carried(j)' = Carried(j)
    BY <1>1, <1>2 DEF NoLetter, Carried, Attached
  <2>2. ASSUME NEW k \in DOMAIN queue, NEW j \in Id, NotRead(k, j)
        PROVE  /\ NoLetter(j)'
               /\ \A x \in db'.mail : x.id = j => \E y \in db.mail : SameMail(x, y)
               /\ Carried(j)' = IF k = 2 /\ Head(queue).op = "dropItems" THEN {} ELSE Carried(j)
    BY <1>1, <1>2, <2>1, <2>2 DEF NotRead, SameMail, o
  <2>3. 1 \in DOMAIN queue' => Readdressing(1)'
    BY <1>1, NoReaddress DEF Safe, o
  <2> QED BY <1>1, <2>2, <2>3, ExpiriesShift DEF Safe
<1>8. "torn" \notin tainted' => Addressed'
  <2> SUFFICES ASSUME "torn" \notin tainted', NEW a \in db'.att
               PROVE  \E x \in db'.mail : x.id = a.mail /\ x.to = a.to
    BY DEF Addressed
  <2>1. PICK y \in db.mail : y.id = a.mail /\ y.to = a.to
    <3>1. Addressed /\ Head(queue).op # "readdress" /\ a \in db.att
      BY <1>1, <1>2, ExecuteIs DEF Safe, o
    <3> QED BY <3>1, Reached
  <2>2. a.mail # o.id
    BY <1>2, <1>3 DEF Carried, Attached
  <2> QED BY <1>2, <2>1, <2>2
<1>9. Stays
  BY <1>2 DEF Stays, StoredAt
<1> QED BY <1>5, <1>6, <1>7, <1>8, <1>9 DEF Safe

LEMMA ExecuteMaintained ==
  ASSUME Base, Execute
  PROVE  Maintained
<1>1. tainted \subseteq tainted' /\ Head(queue) \in Operation
  BY ExecuteIs
<1>2. Head(queue).op \in {"save", "load", "turn", "dropMail", "readdress", "dropItems"}
  BY <1>1, OperationIs
<1>3. Safe => Safe' /\ Stays
  BY <1>2, ExecuteSave, ExecuteLoad, ExecuteTurn, ExecuteReaddress, ExecuteDropItems, ExecuteDropMail
<1> QED BY <1>1, <1>3, ExecuteBase DEF Maintained

-----------------------------------------------------------------------------
(* The invariant.                                                            *)

LEMMA LetterStep ==
  ASSUME Base, NEW c \in Char, NEW m, OnLetter(c, m)
  PROVE  Maintained
<1>1. \E d : Handled(d)
  BY MarkAsReadIs, MailDeleteIs, ReturnToSenderIs, TakeItemIs, BuyItemIs, TakeMoneyIs DEF OnLetter
<1> QED BY <1>1, HandledIs

LEMMA NextMaintains ==
  ASSUME Base, MailNext
  PROVE  Maintained
<1>1. ASSUME NEW c \in Char, Autosave(c) \/ Logout(c) \/ Login(c) \/ EnterWorld(c) PROVE Maintained
  <2>1. CASE Autosave(c)
    BY <2>1, AutosaveIs, HandledIs
  <2>2. CASE Logout(c)
    <3>1. Handled(c)
      BY <2>2, LogoutIs DEF Logout
    <3> QED BY <3>1, HandledIs
  <2>3. CASE Login(c)
    BY <2>3, LoginIs
  <2>4. CASE EnterWorld(c)
    BY <2>4, EnterWorldIs
  <2> QED BY <1>1, <2>1, <2>2, <2>3, <2>4
<1>2. ASSUME NEW c \in Char, NEW i \in Item, Obtain(c, i) PROVE Maintained
  BY <1>2, ObtainIs
<1>3. ASSUME NEW c \in Char, BuyFromVendor(c) \/ SellToVendor(c) PROVE Maintained
  <2>1. Handled(c)
    BY <1>3, ExchangeIs DEF BuyFromVendor, SellToVendor
  <2> QED BY <2>1, HandledIs
<1>4. ASSUME NEW c \in Char, NEW r \in Char, NEW gold \in Amount, NEW cod \in {0, Price},
             NEW items \in SUBSET Item, SendMail(c, r, gold, cod, items)
      PROVE  Maintained
  <2>1. Handled(c)
    BY <1>4, SendMailIs
  <2> QED BY <2>1, HandledIs
<1>5. ASSUME NEW c \in Char, NEW m \in mem[c].box, OnLetter(c, m) PROVE Maintained
  BY <1>5, LetterStep
<1>6. ASSUME NEW m \in db.mail, Expire(m) PROVE Maintained
  BY <1>6, ExpireIs
<1> QED BY <1>1, <1>2, <1>3, <1>4, <1>5, <1>6, ExecuteMaintained, CrashIs DEF MailNext

LEMMA StepMaintains ==
  ASSUME IInv, [MailNext]_mailVars
  PROVE  /\ IInv'
         /\ UNCHANGED mailVars \/ (ItemsSafe' => Stays)
<1>1. CASE MailNext
  <2>1. Maintained
    BY <1>1, NextMaintains DEF IInv
  <2>2. ItemsSafe' => ItemsSafe
    BY <2>1 DEF Maintained, ItemsSafe
  <2>3. IInv'
    BY <2>1, <2>2 DEF IInv, Maintained
  <2>4. ItemsSafe' => Stays
    BY <2>1, <2>2 DEF IInv, Maintained
  <2> QED BY <2>3, <2>4
<1>2. CASE UNCHANGED mailVars
  <2>1. Base'
    BY <1>2 DEF mailVars, IInv, Base, Types, Owners, Logins, Loading, LoadOf, Numbered, Expiry
  <2>2. ItemsSafe' <=> ItemsSafe
    BY <1>2 DEF mailVars, ItemsSafe
  <2>3. OneClaim => OneClaim'
    BY <1>2 DEF mailVars, OneClaim, Claim, StoredAt, AboutToStore
  <2>4. Letters => Letters'
    BY <1>2 DEF mailVars, Letters, Backed
  <2>5. Expiries => Expiries'
    BY <1>2 DEF mailVars, Expiries, Turning, Readdressing, Dropping, Expiry, NotRead, NoLetter,
                Carried, Attached, LoadOf
  <2>6. ("torn" \notin tainted => Addressed) => ("torn" \notin tainted => Addressed)'
    BY <1>2 DEF mailVars, Addressed
  <2> QED BY <1>2, <2>1, <2>2, <2>3, <2>4, <2>5, <2>6 DEF IInv, Safe
<1> QED BY <1>1, <1>2

LEMMA Initial ==
  ASSUME MailInit
  PROVE  IInv
<1>1. /\ queue = <<>> /\ online = {} /\ mem = [c \in Char |-> Offline] /\ loading = [c \in Char |-> <<>>]
      /\ nextId = 1 /\ burnt = 0 /\ tainted = {}
      /\ db.mail = {} /\ db.att = {} /\ \A r, s \in db.bag : r[2] = s[2] => r = s
  BY DEF MailInit
<1>2. db \in Tables
  <2>1. PICK gold \in [Char -> Amount], bag \in SUBSET (Char \X Item) :
          db = [money |-> gold, goods |-> [c \in Char |-> 0], bag |-> bag, mail |-> {}, att |-> {}]
    BY DEF MailInit
  <2>2. gold \in [Char -> Nat]
    BY MailAssumption DEF Amount
  <2> QED BY <2>1, <2>2 DEF Tables
<1>3. DOMAIN queue = {} /\ queue \in Seq(Operation)
  BY <1>1, EmptySeq
<1>4. /\ \A c \in Char : mem[c] = Offline /\ loading[c] = <<>>
      /\ mem \in [Char -> Memory] /\ loading \in [Char -> {<<>>} \cup {<<p>> : p \in Memory}]
  BY <1>1, OfflineIs
<1>5. Base
  <2>1. Types
    BY <1>1, <1>2, <1>3, <1>4, MailAssumption DEF Types
  <2>2. Owners
    BY <1>4, OfflineIs DEF Owners, Owned
  <2>3. Logins /\ Numbered
    BY <1>1, <1>3 DEF Logins, Numbered
  <2> QED BY <2>1, <2>2, <2>3 DEF Base
<1>6. OneClaim
  <2> SUFFICES ASSUME NEW a \in Place, NEW b \in Place, Claim(a), Claim(b), a.item = b.item PROVE a = b
    BY DEF OneClaim
  <2>1. ASSUME NEW d \in Place, Claim(d) PROVE d.mail = 0 /\ <<d.to, d.item>> \in db.bag
    <3>1. ~\E c \in Char : Held(mem[c], c, d)
      BY <1>4, OfflineIs DEF Held
    <3> QED BY <1>1, <1>3, <1>4, <2>1, <3>1 DEF Claim, StoredAt
  <2>2. <<a.to, a.item>> = <<b.to, b.item>>
    BY <1>1, <2>1
  <2> QED BY <2>1, <2>2, PlaceIsOf
<1>7. Letters /\ Expiries /\ Addressed
  BY <1>1, <1>3, <1>4, OfflineIs DEF Letters, Backed, Expiries, Addressed
<1> QED BY <1>5, <1>6, <1>7 DEF IInv, Safe

\* Every reachable state satisfies the invariant: the tables and memory have their types,
\* and until a hazard is met that the items do not survive, no two claims on an item differ
\* and no letter of an expiry under way is in anybody's hands.
THEOREM MailInvariant == MailSpec => []IInv
<1>1. MailInit => IInv
  BY Initial
<1>2. IInv /\ [MailNext]_mailVars => IInv'
  BY StepMaintains
<1> QED BY <1>1, <1>2, PTL DEF MailSpec

-----------------------------------------------------------------------------
(* What it says of the tables.                                               *)

LEMMA TypesGive ==
  ASSUME IInv
  PROVE  MailTypeOK
<1> USE DEF IInv, Base
<1>1. ASSUME NEW c \in Char
      PROVE  /\ mem[c].fresh \subseteq mem[c].bag /\ mem[c].bag \subseteq Item
             /\ c \in online \/ mem[c] = Offline
             /\ Len(loading[c]) <= 1
  <2>1. mem[c] \in Memory /\ loading[c] \in {<<>>} \cup {<<p>> : p \in Memory}
    BY DEF Types
  <2>2. Len(loading[c]) <= 1
    <3>1. CASE loading[c] = <<>>
      <4>1. Len(loading[c]) = Len(<<>>)
        BY <3>1
      <4> QED BY <4>1
    <3>2. CASE loading[c] # <<>>
      <4>1. PICK p \in Memory : loading[c] = <<p>>
        BY <2>1, <3>2
      <4> QED BY <4>1
    <3> QED BY <3>1, <3>2
  <2> QED BY <2>1, <2>2 DEF Owners, Owned, Memory
<1>2. ASSUME NEW c \in Char, NEW m \in mem[c].box
      PROVE  RowOf(m) \in MailRow /\ m.to = c /\ m.items \subseteq Item
  <2>1. m \in LetterRow
    BY DEF Types, Memory
  <2>2. m.to = c
    BY DEF Owners, Owned
  <2>3. m.items \subseteq Item
    BY <2>1 DEF LetterRow
  <2> QED BY <2>1, <2>2, <2>3, RowIs
<1>3. /\ db \in [money : [Char -> Nat], goods : [Char -> Nat], bag : SUBSET (Char \X Item),
                 mail : SUBSET MailRow, att : SUBSET [mail : Id, item : Item, to : Char]]
      /\ online \subseteq Char
      /\ nextId \in 1 .. MaxMail + 1
      /\ burnt \in Nat
  BY DEF Types, Tables, Attaching
<1> QED BY <1>1, <1>2, <1>3 DEF MailTypeOK

\* The places of an item are the places where it is stored.
LEMMA PlacesAre ==
  ASSUME Types, NEW i \in Item, NEW a
  PROVE  a \in Places(i) <=> a \in Place /\ a.item = i /\ StoredAt(db, a)
<1>1. db.att \subseteq Attaching /\ db.bag \subseteq Char \X Item
  BY DEF Types, Tables
<1>2. ASSUME a \in Places(i) PROVE a \in Place /\ a.item = i /\ StoredAt(db, a)
  <2>1. CASE a \in db.att /\ a.item = i
    BY <1>1, <2>1 DEF Place, Attaching, StoredAt
  <2>2. CASE \E c \in Char : <<c, i>> \in db.bag /\ a = Attachment(0, i, c)
    BY <2>2 DEF Place, Attachment, StoredAt
  <2> QED BY <1>2, <2>1, <2>2 DEF Places
<1>3. ASSUME a \in Place, a.item = i, StoredAt(db, a) PROVE a \in Places(i)
  <2>1. a = Attachment(a.mail, a.item, a.to) /\ a.to \in Char
    BY <1>3, PlaceIsOf DEF Place
  <2> QED BY <1>3, <2>1 DEF StoredAt, Places
<1> QED BY <1>2, <1>3

LEMMA OnePlace ==
  ASSUME IInv
  PROVE  ItemsInOnePlace
<1> SUFFICES ASSUME ItemsSafe, NEW i \in Item PROVE Cardinality(Places(i)) <= 1
  BY DEF ItemsInOnePlace
<1>1. ASSUME NEW a \in Places(i), NEW b \in Places(i) PROVE a = b
  <2>1. Types /\ OneClaim
    BY DEF IInv, Base, Safe
  <2>2. /\ a \in Place /\ a.item = i /\ Claim(a)
        /\ b \in Place /\ b.item = i /\ Claim(b)
    BY <2>1, PlacesAre DEF Claim
  <2> QED BY <2>1, <2>2 DEF OneClaim
<1>2. Places(i) = {} \/ \E a : Places(i) = {a}
  BY <1>1
<1> QED BY <1>2, FS_EmptySet, FS_Singleton

LEMMA Reachable ==
  ASSUME IInv
  PROVE  ItemsReachable
<1> SUFFICES ASSUME ItemsSafe, "torn" \notin tainted, \A k \in DOMAIN queue : queue[k].op # "readdress",
                    NEW a \in db.att
             PROVE  \E m \in db.mail : m.id = a.mail /\ m.to = a.to
  BY DEF ItemsReachable
<1>1. Types /\ Addressed
  BY DEF IInv, Base, Safe
<1>2. ~(queue # <<>> /\ Head(queue).op = "readdress")
  BY <1>1, QueueIs
<1> QED BY <1>1, <1>2 DEF Addressed

\* The same after a step.
LEMMA PlacesNext ==
  ASSUME Types', NEW i \in Item, NEW a
  PROVE  a \in Places(i)' <=> a \in Place /\ a.item = i /\ StoredAt(db', a)
<1>1. db'.att \subseteq Attaching /\ db'.bag \subseteq Char \X Item
  BY DEF Types, Tables
<1>2. ASSUME a \in Places(i)' PROVE a \in Place /\ a.item = i /\ StoredAt(db', a)
  <2>1. CASE a \in db'.att /\ a.item = i
    BY <1>1, <2>1 DEF Place, Attaching, StoredAt
  <2>2. CASE \E c \in Char : <<c, i>> \in db'.bag /\ a = Attachment(0, i, c)
    BY <2>2 DEF Place, Attachment, StoredAt
  <2> QED BY <1>2, <2>1, <2>2 DEF Places
<1>3. ASSUME a \in Place, a.item = i, StoredAt(db', a) PROVE a \in Places(i)'
  <2>1. a = Attachment(a.mail, a.item, a.to) /\ a.to \in Char
    BY <1>3, PlaceIsOf DEF Place
  <2> QED BY <1>3, <2>1 DEF StoredAt, Places
<1> QED BY <1>2, <1>3

LEMMA StepStays ==
  ASSUME IInv, [MailNext]_mailVars, UNCHANGED mailVars \/ (ItemsSafe' => Stays), IInv'
  PROVE  [\A i \in Item :
            Places(i) # {} /\ ItemsSafe' =>
              \/ Places(i)' # {}
              \/ /\ queue # <<>> /\ Head(queue).op = "dropItems"
                 /\ i \in Head(queue).items]_mailVars
<1> SUFFICES ASSUME ~UNCHANGED mailVars, NEW i \in Item, Places(i) # {}, ItemsSafe'
             PROVE  \/ Places(i)' # {}
                    \/ /\ queue # <<>> /\ Head(queue).op = "dropItems"
                       /\ i \in Head(queue).items
  OBVIOUS
<1>1. Types /\ Types' /\ Stays
  BY DEF IInv, Base
<1>2. PICK a \in Place : a.item = i /\ StoredAt(db, a)
  BY <1>1, PlacesAre
<1>3. CASE \E b \in Place : b.item = a.item /\ StoredAt(db', b)
  BY <1>1, <1>2, <1>3, PlacesNext
<1> QED BY <1>1, <1>2, <1>3 DEF Stays

-----------------------------------------------------------------------------
(* The theorems.                                                             *)

\* Types, and that memory belongs to characters in the world, whatever commits and saves
\* fail and wherever the server dies.
THEOREM MailTypes == MailSpec => []MailTypeOK
<1>1. IInv => MailTypeOK
  BY TypesGive
<1> QED BY <1>1, MailInvariant, PTL

\* No handler, save, expiry or crash makes a second row of an item.
THEOREM ItemsInOnePlaceHolds == MailSpec => []ItemsInOnePlace
<1>1. IInv => ItemsInOnePlace
  BY OnePlace
<1> QED BY <1>1, MailInvariant, PTL

\* A login finds every attached item once the expiries under way are through.
THEOREM ItemsReachableHolds == MailSpec => []ItemsReachable
<1>1. IInv => ItemsReachable
  BY Reachable
<1> QED BY <1>1, MailInvariant, PTL

\* A stored item stays stored until a mail that nobody collected expires with it.
THEOREM ItemsStayHolds == MailSpec => ItemsStay
<1>1. IInv /\ [MailNext]_mailVars =>
        [\A i \in Item :
            Places(i) # {} /\ ItemsSafe' =>
              \/ Places(i)' # {}
              \/ /\ queue # <<>> /\ Head(queue).op = "dropItems"
                 /\ i \in Head(queue).items]_mailVars
  BY StepMaintains, StepStays
<1> QED BY <1>1, MailInvariant, PTL DEF MailSpec, ItemsStay

-----------------------------------------------------------------------------
(* Sums: induction over numbers and finite sets, and what folds are.         *)

\* Numbers and finite sets, by a least counterexample.
LEMMA LeastOf ==
  ASSUME NEW T \in SUBSET Nat, T # {}
  PROVE  \E n \in T : \A k \in T : n <= k
<1> DEFINE R == {ss \in Nat \X Nat : ss[1] < ss[2]}
<1>1. IsWellFoundedOn(R, Nat)
  BY NatLessThanWellFounded DEF OpToRel
<1>2. \A x, y \in Nat : y < x => <<y, x>> \in R
  OBVIOUS
<1> HIDE DEF R
<1>3. PICK x \in T : \A y \in T : ~ (<<y, x>> \in R)
  BY <1>1, WFMin
<1>4. \A y \in T : ~(y < x)
  BY <1>2, <1>3
<1> QED BY <1>4

LEMMA NatSet ==
  ASSUME NEW G, 0 \in G, \A n \in Nat : n \in G => n + 1 \in G
  PROVE  Nat \subseteq G
<1> SUFFICES ASSUME Nat \ G # {} PROVE FALSE
  OBVIOUS
<1>1. PICK x \in Nat \ G : \A y \in Nat \ G : x <= y
  BY LeastOf
<1>2. x # 0 /\ x - 1 \in Nat /\ x - 1 < x
  BY <1>1
<1>3. x - 1 \in G
  BY <1>1, <1>2
<1>4. (x - 1) + 1 \in G
  BY <1>2, <1>3
<1> QED BY <1>1, <1>4

LEMMA SubsetsOf ==
  ASSUME NEW S, IsFiniteSet(S), NEW G,
         ASSUME NEW s \in SUBSET S, \A x \in s : s \ {x} \in G PROVE s \in G
  PROVE  SUBSET S \subseteq G
<1> SUFFICES ASSUME NEW t \in SUBSET S, t \notin G PROVE FALSE
  OBVIOUS
<1> DEFINE bad == {s \in SUBSET S : s \notin G}
           T == {Cardinality(s) : s \in bad}
<1>1. \A s \in SUBSET S : IsFiniteSet(s) /\ Cardinality(s) \in Nat
  BY FS_Subset, FS_CardinalityType
<1>2. PICK n \in T : \A k \in T : n <= k
  <2>1. T \in SUBSET Nat /\ T # {}
    BY <1>1
  <2> HIDE DEF T
  <2> QED BY <2>1, LeastOf
<1>3. PICK s \in bad : Cardinality(s) = n
  BY <1>2
<1>4. ASSUME NEW x \in s PROVE s \ {x} \in G
  <2>1. Cardinality(s \ {x}) = Cardinality(s) - 1
    BY <1>1, FS_RemoveElement
  <2>2. ~(n <= Cardinality(s \ {x}))
    BY <1>1, <1>3, <2>1
  <2> QED BY <1>2, <2>2
<1>5. s \in G
  BY <1>4
<1> QED BY <1>5

\* A function on the subsets of S that is defined from one element less.
Iterated(S, base, step, pick, g) ==
  \A s \in SUBSET S :
    g[s] = IF s = {} THEN base ELSE step[<<pick[s], g[s \ {pick[s]}]>>]

Picks(S, pick) == \A s \in SUBSET S : s # {} => pick[s] \in s

LEMMA Iterates ==
  ASSUME NEW S, IsFiniteSet(S), NEW V, NEW base \in V, NEW step \in [S \X V -> V],
         NEW pick, Picks(S, pick)
  PROVE  \E g \in [SUBSET S -> V] : Iterated(S, base, step, pick, g)
<1> USE DEF Picks
<1> DEFINE Good(g, n) == \A s \in SUBSET S :
             Cardinality(s) <= n =>
               g[s] = IF s = {} THEN base ELSE step[<<pick[s], g[s \ {pick[s]}]>>]
           G == {n \in Nat : \E g \in [SUBSET S -> V] : Good(g, n)}
<1>1. \A s \in SUBSET S : IsFiniteSet(s) /\ Cardinality(s) \in Nat
  BY FS_Subset, FS_CardinalityType
<1>2. \A s \in SUBSET S : s # {} => /\ s \ {pick[s]} \in SUBSET S
                                     /\ Cardinality(s \ {pick[s]}) = Cardinality(s) - 1
  BY <1>1, FS_RemoveElement
<1>3. \A s \in SUBSET S : Cardinality(s) = 0 <=> s = {}
  BY <1>1, FS_EmptySet
<1>4. 0 \in G
  <2>1. [s \in SUBSET S |-> base] \in [SUBSET S -> V]
    OBVIOUS
  <2>2. Good([s \in SUBSET S |-> base], 0)
    BY <1>1, <1>3
  <2> QED BY <2>1, <2>2
<1>5. ASSUME NEW n \in Nat, n \in G PROVE n + 1 \in G
  <2>1. PICK g \in [SUBSET S -> V] : Good(g, n)
    BY <1>5
  <2> DEFINE h == [s \in SUBSET S |->
                    IF s = {} THEN base ELSE step[<<pick[s], g[s \ {pick[s]}]>>]]
  <2>2. h \in [SUBSET S -> V]
    BY <1>2
  <2>3. \A s \in SUBSET S : Cardinality(s) <= n => h[s] = g[s]
    BY <2>1
  <2>4. Good(h, n + 1)
    <3> SUFFICES ASSUME NEW s \in SUBSET S, Cardinality(s) <= n + 1, s # {}
                 PROVE  h[s] = step[<<pick[s], h[s \ {pick[s]}]>>]
      OBVIOUS
    <3>1. s \ {pick[s]} \in SUBSET S /\ Cardinality(s \ {pick[s]}) <= n
      BY <1>1, <1>2
    <3>2. h[s] = step[<<pick[s], g[s \ {pick[s]}]>>]
      OBVIOUS
    <3> HIDE DEF h
    <3> QED BY <2>3, <3>1, <3>2
  <2> HIDE DEF h, Good
  <2>5. \E gg \in [SUBSET S -> V] : Good(gg, n + 1)
    BY <2>2, <2>4
  <2> QED BY <2>5
<1>6. Cardinality(S) \in G
  <2> HIDE DEF G
  <2>1. Nat \subseteq G
    BY <1>4, <1>5, NatSet
  <2> QED BY <1>1, <2>1
<1>7. PICK g \in [SUBSET S -> V] : Good(g, Cardinality(S))
  BY <1>6
<1>8. \A s \in SUBSET S : Cardinality(s) <= Cardinality(S)
  BY FS_Subset
<1> QED BY <1>7, <1>8 DEF Iterated

\* The sum of f over the subsets of its domain: that it exists, and that any element can be
\* taken out of it first.
Adds(f, S, g) ==
  /\ g \in [SUBSET S -> Int]
  /\ g[{}] = 0
  /\ \A s \in SUBSET S : \A x \in s : g[s] = f[x] + g[s \ {x}]

\* Whichever element is taken out first, if one way is how the sum was defined.
LEMMA AddsAll ==
  ASSUME NEW S, IsFiniteSet(S), NEW f \in [S -> Int], NEW g,
         g = [s \in SUBSET S |-> g[s]], g[{}] = 0,
         \A s \in SUBSET S : s # {} =>
           g[s] = f[CHOOSE x \in s : TRUE] + g[s \ {CHOOSE x \in s : TRUE}]
  PROVE  Adds(f, S, g)
<1> DEFINE Typed == {s \in SUBSET S : g[s] \in Int}
           First == {s \in SUBSET S : \A x \in s : g[s] = f[x] + g[s \ {x}]}
<1>6. SUBSET S \subseteq Typed
  <2>1. ASSUME NEW s \in SUBSET S, \A x \in s : s \ {x} \in Typed PROVE s \in Typed
    <3>1. CASE s = {}
      BY <3>1
    <3>2. CASE s # {}
      <4>1. PICK x \in s : x = CHOOSE y \in s : TRUE
        BY <3>2
      <4>2. g[s] = f[x] + g[s \ {x}] /\ g[s \ {x}] \in Int /\ f[x] \in Int
        BY <2>1, <3>2, <4>1
      <4> QED BY <4>2
    <3> QED BY <3>1, <3>2
  <2> HIDE DEF Typed
  <2> QED BY <2>1, SubsetsOf
<1>7. \A s \in SUBSET S : g[s] \in Int
  BY <1>6
<1>8. SUBSET S \subseteq First
  <2>1. ASSUME NEW s \in SUBSET S, \A x \in s : s \ {x} \in First PROVE s \in First
    <3> SUFFICES ASSUME NEW x \in s PROVE g[s] = f[x] + g[s \ {x}]
      OBVIOUS
    <3>1. PICK y \in s : y = CHOOSE z \in s : TRUE
      OBVIOUS
    <3>2. g[s] = f[y] + g[s \ {y}]
      BY <3>1
    <3>3. CASE x # y
      <4>1. g[s \ {y}] = f[x] + g[(s \ {y}) \ {x}]
        BY <2>1, <3>3
      <4>2. g[s \ {x}] = f[y] + g[(s \ {x}) \ {y}]
        BY <2>1, <3>3
      <4>3. (s \ {x}) \ {y} = (s \ {y}) \ {x}
        OBVIOUS
      <4> DEFINE rest == g[(s \ {y}) \ {x}]
      <4>4. f[x] \in Int /\ f[y] \in Int /\ rest \in Int
        BY <1>7
      <4>5. g[s \ {y}] = f[x] + rest /\ g[s \ {x}] = f[y] + rest
        BY <4>1, <4>2, <4>3
      <4> HIDE DEF rest
      <4> QED BY <3>2, <4>4, <4>5
    <3> QED BY <3>2, <3>3
  <2> HIDE DEF First
  <2> QED BY <2>1, SubsetsOf
<1> QED BY <1>7, <1>8 DEF Adds

SumStep(f, S, g) ==
  g = [s \in SUBSET S |->
        IF s = {} THEN 0 ELSE f[CHOOSE x \in s : TRUE] + g[s \ {CHOOSE x \in s : TRUE}]]

LEMMA AddsExist ==
  ASSUME NEW S, IsFiniteSet(S), NEW f \in [S -> Int]
  PROVE  \E g : SumStep(f, S, g)
<1> DEFINE pick == [s \in SUBSET S |-> CHOOSE x \in s : TRUE]
           step == [z \in S \X Int |-> f[z[1]] + z[2]]
<1>1. \E g : SumStep(f, S, g)
  <2>1. /\ step \in [S \X Int -> Int] /\ \A s \in SUBSET S : s # {} => pick[s] \in s
        /\ \A x \in S : \A k \in Int : step[<<x, k>>] = f[x] + k
    OBVIOUS
  <2>2. \A s \in SUBSET S : pick[s] = CHOOSE x \in s : TRUE
    OBVIOUS
  <2>a. 0 \in Int
    OBVIOUS
  <2>b. step \in [S \X Int -> Int]
    BY <2>1
  <2>c. Picks(S, pick)
    BY <2>1 DEF Picks
  <2> HIDE DEF pick, step
  <2>d. \E g \in [SUBSET S -> Int] : Iterated(S, 0, step, pick, g)
    BY <2>a, <2>b, <2>c, Iterates
  <2>3. PICK g \in [SUBSET S -> Int] :
          \A s \in SUBSET S : g[s] = IF s = {} THEN 0 ELSE step[<<pick[s], g[s \ {pick[s]}]>>]
    BY <2>d DEF Iterated
  <2>4. ASSUME NEW s \in SUBSET S, s # {}
        PROVE  g[s] = f[CHOOSE x \in s : TRUE] + g[s \ {CHOOSE x \in s : TRUE}]
    <3>1. pick[s] \in S /\ g[s \ {pick[s]}] \in Int
      BY <2>1, <2>4
    <3>2. g[s] = f[pick[s]] + g[s \ {pick[s]}]
      BY <2>1, <2>3, <2>4, <3>1
    <3> QED BY <2>2, <3>2
  <2>5. g[{}] = 0
    BY <2>3
  <2>6. g = [s \in SUBSET S |->
               IF s = {} THEN 0 ELSE f[CHOOSE x \in s : TRUE] + g[s \ {CHOOSE x \in s : TRUE}]]
    BY <2>4, <2>5
  <2>7. SumStep(f, S, g)
    BY <2>6 DEF SumStep
  <2> QED BY <2>7
<1> QED BY <1>1

LEMMA SumIs ==
  ASSUME NEW S, IsFiniteSet(S), NEW f \in [S -> Int]
  PROVE  \E g : Adds(f, S, g) /\ SumFunction(f) = g[S]
<1>1. \E g : SumStep(f, S, g)
  BY AddsExist
<1> DEFINE g == CHOOSE g : SumStep(f, S, g)
<1>2. SumStep(f, S, g)
  BY <1>1
<1>3. SumFunction(f) = g[S]
  BY DEF SumStep, SumFunction, SumFunctionOnSet, FoldFunctionOnSet, MapThenFoldSet
<1>4. /\ g[{}] = 0 /\ DOMAIN g = SUBSET S
      /\ \A s \in SUBSET S : s # {} =>
           g[s] = f[CHOOSE x \in s : TRUE] + g[s \ {CHOOSE x \in s : TRUE}]
  BY <1>2 DEF SumStep
<1>5. g = [s \in SUBSET S |-> g[s]]
  BY <1>2 DEF SumStep
<1> HIDE DEF g
<1>6. Adds(f, S, g)
  BY <1>4, <1>5, AddsAll
<1> QED BY <1>3, <1>6

\* The sum of a function changes by what changes at one point.
LEMMA SumChange ==
  ASSUME NEW S, IsFiniteSet(S), NEW f \in [S -> Int], NEW h \in [S -> Int], NEW k \in S,
         \A x \in S : x # k => h[x] = f[x]
  PROVE  /\ SumFunction(f) \in Int /\ SumFunction(h) \in Int
         /\ SumFunction(h) = SumFunction(f) - f[k] + h[k]
<1>1. PICK v : Adds(f, S, v) /\ SumFunction(f) = v[S]
  BY SumIs
<1>2. PICK w : Adds(h, S, w) /\ SumFunction(h) = w[S]
  BY SumIs
<1>0. PICK R : R = S \ {k}
  OBVIOUS
<1>3. IsFiniteSet(R)
  BY <1>0, FS_Subset
<1> DEFINE Same == {s \in SUBSET R : v[s] = w[s]}
<1>4. ASSUME NEW s \in SUBSET R, \A x \in s : s \ {x} \in Same PROVE s \in Same
  <2>1. CASE s = {}
    <3>1. v[{}] = 0 /\ w[{}] = 0
      BY <1>1, <1>2 DEF Adds
    <3> QED BY <2>1, <3>1
  <2>2. CASE s # {}
    <3>1. PICK x \in s : TRUE
      BY <2>2
    <3>a. s \in SUBSET S /\ x # k
      BY <1>0, <3>1
    <3>2. v[s] = f[x] + v[s \ {x}]
      BY <1>1, <3>1, <3>a DEF Adds
    <3>3. w[s] = h[x] + w[s \ {x}]
      BY <1>2, <3>1, <3>a DEF Adds
    <3> QED BY <1>4, <3>1, <3>a, <3>2, <3>3
  <2> QED BY <2>1, <2>2
<1>5. SUBSET R \subseteq Same
  <2> HIDE DEF Same
  <2> QED BY <1>3, <1>4, SubsetsOf
<1>6. v[S \ {k}] = w[S \ {k}]
  BY <1>0, <1>5
<1>7. v[S] = f[k] + v[S \ {k}] /\ v[S \ {k}] \in Int /\ v[S] \in Int
  BY <1>1 DEF Adds
<1>8. w[S] = h[k] + w[S \ {k}] /\ w[S] \in Int
  BY <1>2 DEF Adds
<1>9. f[k] \in Int /\ h[k] \in Int
  OBVIOUS
<1> QED BY <1>1, <1>2, <1>6, <1>7, <1>8, <1>9
\* No change, no difference; and a function that is zero everywhere.
LEMMA SumType ==
  ASSUME NEW S, IsFiniteSet(S), NEW f \in [S -> Int]
  PROVE  SumFunction(f) \in Int
<1>1. PICK g : Adds(f, S, g) /\ SumFunction(f) = g[S]
  BY SumIs
<1> QED BY <1>1 DEF Adds

LEMMA SumZero ==
  ASSUME NEW S, IsFiniteSet(S), NEW f \in [S -> Int], \A x \in S : f[x] = 0
  PROVE  SumFunction(f) = 0
<1>1. PICK g : Adds(f, S, g) /\ SumFunction(f) = g[S]
  BY SumIs
<1> DEFINE Null == {s \in SUBSET S : g[s] = 0}
<1>2. ASSUME NEW s \in SUBSET S, \A x \in s : s \ {x} \in Null PROVE s \in Null
  <2>1. g[{}] = 0 /\ \A x \in s : g[s] = f[x] + g[s \ {x}]
    BY <1>1 DEF Adds
  <2>2. CASE s = {}
    BY <2>1, <2>2
  <2>3. CASE s # {}
    <3>1. PICK x \in s : TRUE
      BY <2>3
    <3>2. f[x] = 0 /\ g[s \ {x}] = 0
      BY <1>2, <3>1
    <3> QED BY <2>1, <3>1, <3>2
  <2> QED BY <2>2, <2>3
<1>3. SUBSET S \subseteq Null
  <2> HIDE DEF Null
  <2> QED BY <1>2, SubsetsOf
<1>4. g[S] = 0
  BY <1>3
<1> QED BY <1>1, <1>4

-----------------------------------------------------------------------------
(* The money of the mails, by their numbers.                                 *)

Single(rows) == \A x, y \in rows : x.id = y.id => x = y

LEMMA FewMails ==
  ASSUME NEW rows \in SUBSET MailRow, Single(rows)
  PROVE  IsFiniteSet(rows)
<1> DEFINE number == [x \in rows |-> x.id]
<1>1. number \in Injection(rows, Id)
  BY DEF Injection, IsInjective, MailRow, Single
<1>2. IsFiniteSet(Id)
  BY FS_Interval, MailAssumption DEF Id
<1> HIDE DEF number
<1> QED BY <1>1, <1>2, FS_Injection

LEMMA MailSumIs ==
  ASSUME NEW rows \in SUBSET MailRow, Single(rows)
  PROVE  \E g : /\ Adds([x \in rows |-> x.money], rows, g)
                /\ MapThenSumSet(LAMBDA m : m.money, rows) = g[rows]
<1> DEFINE f == [x \in rows |-> x.money]
           Def(g) == g = [s \in SUBSET rows |->
             IF s = {} THEN 0 ELSE (CHOOSE x \in s : TRUE).money + g[s \ {CHOOSE x \in s : TRUE}]]
<1>1. IsFiniteSet(rows) /\ f \in [rows -> Int]
  BY FewMails DEF MailRow
<1>2. \A x \in rows : f[x] = x.money
  OBVIOUS
<1>3. \A s \in SUBSET rows : s # {} => f[CHOOSE x \in s : TRUE] = (CHOOSE x \in s : TRUE).money
  BY <1>2
<1> HIDE DEF f
<1>4. PICK h : SumStep(f, rows, h)
  BY <1>1, AddsExist
<1>5. Def(h)
  BY <1>3, <1>4 DEF SumStep
<1> DEFINE g == CHOOSE g : Def(g)
<1>6. Def(g)
  <2> HIDE DEF Def
  <2> QED BY <1>5
<1>7. MapThenSumSet(LAMBDA m : m.money, rows) = g[rows]
  BY DEF MapThenSumSet, MapThenFoldSet
<1>8. /\ g = [s \in SUBSET rows |-> g[s]] /\ g[{}] = 0
      /\ \A s \in SUBSET rows : s # {} =>
           g[s] = (CHOOSE x \in s : TRUE).money + g[s \ {CHOOSE x \in s : TRUE}]
  BY <1>6
<1> HIDE DEF g
<1>9. Adds(f, rows, g)
  <2>1. \A s \in SUBSET rows : s # {} =>
          g[s] = f[CHOOSE x \in s : TRUE] + g[s \ {CHOOSE x \in s : TRUE}]
    BY <1>3, <1>8
  <2> QED BY <1>1, <1>8, <2>1, AddsAll
<1> QED BY <1>7, <1>9 DEF f

Worths(rows) ==
  [id \in Id |-> IF \E m \in rows : m.id = id THEN (CHOOSE m \in rows : m.id = id).money ELSE 0]

LEMMA WorthsAre ==
  ASSUME NEW rows \in SUBSET MailRow, Single(rows)
  PROVE  /\ Worths(rows) \in [Id -> Nat]
         /\ \A x \in rows : x.id \in Id /\ Worths(rows)[x.id] = x.money
         /\ \A id \in Id : (\A x \in rows : x.id # id) => Worths(rows)[id] = 0
<1>1. \A x \in rows : x.id \in Id /\ x.money \in Nat
  BY DEF MailRow
<1>2. ASSUME NEW id \in Id, \E m \in rows : m.id = id
      PROVE  (CHOOSE m \in rows : m.id = id) \in rows /\ (CHOOSE m \in rows : m.id = id).id = id
  BY <1>2
<1>3. Worths(rows) \in [Id -> Nat]
  <2>1. ASSUME NEW id \in Id PROVE Worths(rows)[id] \in Nat
    BY <1>1, <1>2 DEF Worths
  <2> QED BY <2>1 DEF Worths
<1>4. ASSUME NEW x \in rows PROVE Worths(rows)[x.id] = x.money
  <2>1. (CHOOSE m \in rows : m.id = x.id) = x
    BY <1>1, <1>2 DEF Single
  <2> QED BY <1>1, <2>1 DEF Worths
<1>5. \A id \in Id : (\A x \in rows : x.id # id) => Worths(rows)[id] = 0
  BY DEF Worths
<1> QED BY <1>1, <1>3, <1>4, <1>5

LEMMA MailSum ==
  ASSUME NEW rows \in SUBSET MailRow, Single(rows)
  PROVE  MapThenSumSet(LAMBDA m : m.money, rows) = SumFunction(Worths(rows))
<1>1. PICK g : /\ Adds([x \in rows |-> x.money], rows, g)
               /\ MapThenSumSet(LAMBDA m : m.money, rows) = g[rows]
  BY MailSumIs
<1>2. IsFiniteSet(Id) /\ Worths(rows) \in [Id -> Int]
  BY WorthsAre, FS_Interval, MailAssumption DEF Id
<1>3. PICK h : Adds(Worths(rows), Id, h) /\ SumFunction(Worths(rows)) = h[Id]
  BY <1>2, SumIs
<1> DEFINE Of(ids) == {x \in rows : x.id \in ids}
           Equal == {ids \in SUBSET Id : h[ids] = g[Of(ids)]}
<1>4. ASSUME NEW ids \in SUBSET Id, \A id \in ids : ids \ {id} \in Equal PROVE ids \in Equal
  <2>1. CASE ids = {}
    <3>1. h[{}] = 0 /\ g[{}] = 0 /\ Of(ids) = {}
      BY <1>1, <1>3, <2>1 DEF Adds
    <3> QED BY <2>1, <3>1
  <2>2. CASE ids # {}
    <3>1. PICK id \in ids : TRUE
      BY <2>2
    <3>2. h[ids] = Worths(rows)[id] + h[ids \ {id}]
      BY <1>3, <3>1 DEF Adds
    <3>3. h[ids \ {id}] = g[Of(ids \ {id})]
      BY <1>4, <3>1
    <3>4. CASE \E x \in rows : x.id = id
      <4>1. PICK x \in rows : x.id = id
        BY <3>4
      <4>2. Worths(rows)[id] = x.money
        BY <4>1, WorthsAre
      <4>3. x \in Of(ids) /\ Of(ids) \in SUBSET rows /\ Of(ids) \ {x} = Of(ids \ {id})
        BY <3>1, <4>1 DEF Single
      <4> HIDE DEF Of
      <4>4. g[Of(ids)] = [y \in rows |-> y.money][x] + g[Of(ids) \ {x}]
        BY <1>1, <4>3 DEF Adds
      <4>5. [y \in rows |-> y.money][x] = x.money
        OBVIOUS
      <4> QED BY <3>2, <3>3, <4>2, <4>3, <4>4, <4>5
    <3>5. CASE ~\E x \in rows : x.id = id
      <4>1. Worths(rows)[id] = 0
        BY <3>1, <3>5, WorthsAre
      <4>2. Of(ids) = Of(ids \ {id}) /\ Of(ids \ {id}) \in SUBSET rows
        BY <3>5
      <4> HIDE DEF Of
      <4>3. g[Of(ids \ {id})] \in Int
        BY <1>1, <4>2 DEF Adds
      <4> QED BY <3>2, <3>3, <4>1, <4>2, <4>3
    <3> QED BY <3>4, <3>5
  <2> QED BY <2>1, <2>2
<1>5. SUBSET Id \subseteq Equal
  <2> HIDE DEF Equal
  <2> QED BY <1>2, <1>4, SubsetsOf
<1>6. Of(Id) = rows
  BY DEF MailRow
<1>7. h[Id] = g[Of(Id)]
  BY <1>5
<1> QED BY <1>1, <1>3, <1>6, <1>7

-----------------------------------------------------------------------------
(* Balances: where the saves that are queued for c lead.                     *)

Saving(q, k, c) == q[k].op = "save" /\ q[k].who = c

Idle(q, c) == \A k \in DOMAIN q : ~Saving(q, k, c)

\* f says what c's balance is after each operation, b before the first. A save moves
\* it by what it takes or brings of goods, and never beyond c's fortune w.
Course(q, b, w, c, f) ==
  /\ f \in [0 .. Len(q) -> Nat] /\ f[0] = b
  /\ \A k \in 1 .. Len(q) :
       /\ Saving(q, k, c) => f[k] = q[k].money /\ q[k].goods = f[k - 1] - f[k] /\ f[k] <= w
       /\ ~Saving(q, k, c) => f[k] = f[k - 1]

Fortune(d, c) == d.money[c] + d.goods[c]

\* A player in the world has that fortune, and what is not saved yet is the rest of the way.
Balanced(d, q, here, p, c) ==
  \E f : /\ Course(q, d.money[c], Fortune(d, c), c, f)
         /\ here => p.money + p.goods = Fortune(d, c) /\ p.money + p.unsaved = f[Len(q)]

LEMMA SeqIs ==
  ASSUME NEW q \in Seq(Operation)
  PROVE  Len(q) \in Nat /\ DOMAIN q = 1 .. Len(q) /\ \A k \in 1 .. Len(q) : q[k] \in Operation
BY LenProperties

LEMMA FortuneIs ==
  ASSUME NEW d \in Tables, NEW c \in Char
  PROVE  d.money[c] \in Nat /\ d.goods[c] \in Nat /\ Fortune(d, c) \in Nat
BY DEF Tables, Fortune

\* q2 goes on where q ends, with no save of c.
GoesOn(q, q2, c) ==
  /\ Len(q) <= Len(q2)
  /\ \A k \in 1 .. Len(q) : q2[k] = q[k]
  /\ \A k \in Len(q) + 1 .. Len(q2) : ~Saving(q2, k, c)

LEMMA CourseGoesOn ==
  ASSUME NEW q \in Seq(Operation), NEW q2 \in Seq(Operation), NEW c, NEW b, NEW w, NEW f,
         GoesOn(q, q2, c), Course(q, b, w, c, f)
  PROVE  \E g : Course(q2, b, w, c, g) /\ g[Len(q2)] = f[Len(q)]
<1> DEFINE g == [k \in 0 .. Len(q2) |-> IF k <= Len(q) THEN f[k] ELSE f[Len(q)]]
<1>1. Len(q) \in Nat /\ Len(q2) \in Nat /\ Len(q) <= Len(q2)
  BY SeqIs DEF GoesOn
<1>2. f \in [0 .. Len(q) -> Nat] /\ f[0] = b /\ f[Len(q)] \in Nat
  BY <1>1 DEF Course
<1>3. g \in [0 .. Len(q2) -> Nat] /\ g[0] = b /\ g[Len(q2)] = f[Len(q)]
  BY <1>1, <1>2
<1>4. ASSUME NEW k \in 1 .. Len(q2)
      PROVE  /\ Saving(q2, k, c) => /\ g[k] = q2[k].money /\ q2[k].goods = g[k - 1] - g[k]
                                    /\ g[k] <= w
             /\ ~Saving(q2, k, c) => g[k] = g[k - 1]
  <2>1. CASE k <= Len(q)
    <3>1. k \in 1 .. Len(q) /\ g[k] = f[k] /\ g[k - 1] = f[k - 1] /\ q2[k] = q[k]
      BY <1>1, <2>1 DEF GoesOn
    <3>2. Saving(q2, k, c) <=> Saving(q, k, c)
      BY <3>1 DEF Saving
    <3> HIDE DEF g
    <3> QED BY <3>1, <3>2 DEF Course
  <2>2. CASE ~(k <= Len(q))
    <3>1. ~Saving(q2, k, c)
      BY <1>1, <2>2 DEF GoesOn
    <3>2. g[k] = f[Len(q)] /\ g[k - 1] = f[Len(q)]
      BY <1>1, <2>2
    <3> QED BY <3>1, <3>2
  <2> QED BY <2>1, <2>2
<1> HIDE DEF g
<1>5. Course(q2, b, w, c, g)
  BY <1>3, <1>4 DEF Course
<1> QED BY <1>3, <1>5

LEMMA CourseSaves ==
  ASSUME NEW q \in Seq(Operation), NEW o \in Operation, NEW c, NEW b, NEW w, NEW f,
         o.op = "save", o.who = c, Course(q, b, w, c, f),
         o.money + o.goods = f[Len(q)], o.money <= w
  PROVE  \E g : Course(Append(q, o), b, w, c, g) /\ g[Len(Append(q, o))] = o.money
<1> DEFINE q2 == Append(q, o)
           g == [k \in 0 .. Len(q) + 1 |-> IF k <= Len(q) THEN f[k] ELSE o.money]
<1>1. /\ Len(q) \in Nat /\ Len(q2) = Len(q) + 1 /\ q2[Len(q) + 1] = o
      /\ \A k \in 1 .. Len(q) : q2[k] = q[k]
  BY SeqIs, AppendProperties
<1> HIDE DEF q2
<1>2. f \in [0 .. Len(q) -> Nat] /\ f[0] = b /\ f[Len(q)] \in Nat
  BY <1>1 DEF Course
<1>3. o.money \in Nat /\ o.goods \in Int
  BY OperationIs
<1>4. g \in [0 .. Len(q2) -> Nat] /\ g[0] = b /\ g[Len(q2)] = o.money
  BY <1>1, <1>2, <1>3
<1>5. ASSUME NEW k \in 1 .. Len(q2)
      PROVE  /\ Saving(q2, k, c) => /\ g[k] = q2[k].money /\ q2[k].goods = g[k - 1] - g[k]
                                    /\ g[k] <= w
             /\ ~Saving(q2, k, c) => g[k] = g[k - 1]
  <2>1. CASE k <= Len(q)
    <3>1. k \in 1 .. Len(q) /\ g[k] = f[k] /\ g[k - 1] = f[k - 1] /\ q2[k] = q[k]
      BY <1>1, <2>1
    <3>2. Saving(q2, k, c) <=> Saving(q, k, c)
      BY <3>1 DEF Saving
    <3> HIDE DEF g
    <3> QED BY <3>1, <3>2 DEF Course
  <2>2. CASE ~(k <= Len(q))
    <3>1. k = Len(q) + 1 /\ q2[k] = o
      BY <1>1, <2>2
    <3>2. Saving(q2, k, c)
      BY <3>1 DEF Saving
    <3>3. g[k] = o.money /\ g[k - 1] = f[Len(q)]
      BY <1>1, <3>1
    <3>4. o.goods = f[Len(q)] - o.money
      BY <1>2, <1>3
    <3> HIDE DEF g
    <3> QED BY <3>1, <3>2, <3>3, <3>4
  <2> QED BY <2>1, <2>2
<1> HIDE DEF g
<1>6. Course(q2, b, w, c, g)
  BY <1>4, <1>5 DEF Course
<1> QED BY <1>4, <1>6 DEF q2

LEMMA CourseShifts ==
  ASSUME NEW q \in Seq(Operation), q # <<>>, NEW c, NEW b, NEW w, NEW f, Course(q, b, w, c, f)
  PROVE  \E g : Course(Tail(q), f[1], w, c, g) /\ g[Len(Tail(q))] = f[Len(q)]
<1> DEFINE t == Tail(q)
           g == [k \in 0 .. Len(q) - 1 |-> f[k + 1]]
<1>1. /\ Len(q) \in Nat \ {0} /\ Len(t) = Len(q) - 1
      /\ \A k \in 1 .. Len(t) : t[k] = q[k + 1]
  BY SeqIs, EmptySeq, HeadTailProperties
<1> HIDE DEF t
<1>2. f \in [0 .. Len(q) -> Nat]
  BY DEF Course
<1>3. g \in [0 .. Len(t) -> Nat] /\ g[0] = f[1] /\ g[Len(t)] = f[Len(q)]
  BY <1>1, <1>2
<1>4. ASSUME NEW k \in 1 .. Len(t)
      PROVE  /\ Saving(t, k, c) => /\ g[k] = t[k].money /\ t[k].goods = g[k - 1] - g[k]
                                   /\ g[k] <= w
             /\ ~Saving(t, k, c) => g[k] = g[k - 1]
  <2>1. k + 1 \in 1 .. Len(q) /\ (k + 1) - 1 = k /\ g[k] = f[k + 1] /\ g[k - 1] = f[k] /\ t[k] = q[k + 1]
    BY <1>1
  <2>2. Saving(t, k, c) <=> Saving(q, k + 1, c)
    BY <2>1 DEF Saving
  <2> HIDE DEF g
  <2>3. /\ Saving(q, k + 1, c) => /\ f[k + 1] = q[k + 1].money /\ f[k + 1] <= w
                                  /\ q[k + 1].goods = f[(k + 1) - 1] - f[k + 1]
        /\ ~Saving(q, k + 1, c) => f[k + 1] = f[(k + 1) - 1]
    BY <2>1 DEF Course
  <2> QED BY <2>1, <2>2, <2>3
<1> HIDE DEF g
<1>5. Course(t, f[1], w, c, g)
  BY <1>3, <1>4 DEF Course
<1> QED BY <1>3, <1>5 DEF t

LEMMA IdleEnds ==
  ASSUME NEW q \in Seq(Operation), NEW c, Idle(q, c),
         NEW b, NEW w, NEW f, Course(q, b, w, c, f)
  PROVE  f[Len(q)] = b
<1>1. Len(q) \in Nat /\ DOMAIN q = 1 .. Len(q)
  BY SeqIs
<1> DEFINE G == {n \in Nat : n <= Len(q) => f[n] = b}
<1>2. 0 \in G
  BY DEF Course
<1>3. ASSUME NEW n \in Nat, n \in G PROVE n + 1 \in G
  <2> SUFFICES ASSUME n + 1 <= Len(q) PROVE f[n + 1] = b
    OBVIOUS
  <2>1. n + 1 \in 1 .. Len(q) /\ f[n] = b /\ (n + 1) - 1 = n
    BY <1>1, <1>3
  <2>2. f[n + 1] = f[(n + 1) - 1]
    BY <1>1, <2>1 DEF Course, Idle
  <2> QED BY <2>1, <2>2
<1>4. Nat \subseteq G
  <2> HIDE DEF G
  <2> QED BY <1>2, <1>3, NatSet
<1> QED BY <1>1, <1>4

LEMMA IdleCourse ==
  ASSUME NEW q \in Seq(Operation), NEW c, Idle(q, c),
         NEW b \in Nat, NEW w
  PROVE  \E g : Course(q, b, w, c, g) /\ g[Len(q)] = b
<1> DEFINE f == [k \in 0 .. Len(q) |-> b]
<1>1. Len(q) \in Nat /\ DOMAIN q = 1 .. Len(q)
  BY SeqIs
<1>2. Course(q, b, w, c, f) /\ f[Len(q)] = b
  BY <1>1 DEF Course, Idle
<1> HIDE DEF f
<1> QED BY <1>2

-----------------------------------------------------------------------------
(* The invariant of the books.                                               *)

SameWorth(x, y) == x.money = y.money /\ x.cod = y.cod

\* Letters carry the money and the price of their rows.
Priced(rows, box) == \A m \in box, x \in rows : x.id = m.id => SameWorth(x, m)

\* A login finds no save of the character behind it.
Fetched(d, q, l, c) ==
  /\ l # <<>> =>
       /\ l[1].money = d.money[c] /\ l[1].goods = d.goods[c] /\ l[1].unsaved = 0
       /\ Idle(q, c)
  /\ \A j, k \in DOMAIN q : q[j].op = "load" /\ q[j].who = c /\ Saving(q, k, c) => k < j

\* A save rewrites the mails it carries with what they hold already.
Rewrites(rows, q, n) ==
  \A k \in DOMAIN q : q[k].op = "save" => \A u \in q[k].mails :
    /\ u.id < n
    /\ \A x \in rows : x.id = u.id => x.to = q[k].who /\ SameWorth(x, u)
    /\ \A j \in DOMAIN q : j < k => ~(q[j].op = "turn" /\ q[j].id = u.id)

Balances == \A c \in Char : Balanced(db, queue, c \in online, mem[c], c)
Answers == \A c \in Char : Fetched(db, queue, loading[c], c)
Prices ==
  \A c \in Char :
    /\ Priced(db.mail, mem[c].box)
    /\ loading[c] # <<>> => Priced(db.mail, loading[c][1].box)
Rewriting == Rewrites(db.mail, queue, nextId)
Sum == Total(db) + burnt = Gold

Books == Balances /\ Answers /\ Prices /\ Rewriting /\ Sum

GoldInv == IInv /\ (MoneySafe => Books)

LEMMA OtherBalanced ==
  ASSUME NEW d \in Tables, NEW d2 \in Tables, NEW q \in Seq(Operation), NEW q2 \in Seq(Operation),
         NEW c \in Char, NEW here, NEW here2, NEW p, NEW p2,
         Balanced(d, q, here, p, c), GoesOn(q, q2, c),
         d2.money[c] = d.money[c], Fortune(d2, c) = Fortune(d, c),
         here2 => here /\ p2.money + p2.goods = p.money + p.goods
                       /\ p2.money + p2.unsaved = p.money + p.unsaved
  PROVE  Balanced(d2, q2, here2, p2, c)
<1>1. PICK f : /\ Course(q, d.money[c], Fortune(d, c), c, f)
               /\ here => p.money + p.goods = Fortune(d, c) /\ p.money + p.unsaved = f[Len(q)]
  BY DEF Balanced
<1>2. PICK g : Course(q2, d.money[c], Fortune(d, c), c, g) /\ g[Len(q2)] = f[Len(q)]
  BY <1>1, CourseGoesOn
<1> QED BY <1>1, <1>2 DEF Balanced

LEMMA IdleBalanced ==
  ASSUME NEW d \in Tables, NEW q \in Seq(Operation), NEW c \in Char, NEW here, NEW p,
         Idle(q, c),
         here => p.money + p.goods = Fortune(d, c) /\ p.money + p.unsaved = d.money[c]
  PROVE  Balanced(d, q, here, p, c)
<1>1. PICK b \in Nat : b = d.money[c]
  BY FortuneIs
<1>2. PICK w : w = Fortune(d, c)
  OBVIOUS
<1>3. \E f : Course(q, b, w, c, f) /\ f[Len(q)] = b
  BY IdleCourse
<1> QED BY <1>1, <1>2, <1>3 DEF Balanced

\* Nothing is queued of c: its balance is the one that is stored.
LEMMA IdleIs ==
  ASSUME NEW d \in Tables, NEW q \in Seq(Operation), NEW c \in Char, NEW p,
         Idle(q, c), Balanced(d, q, TRUE, p, c)
  PROVE  p.money + p.goods = Fortune(d, c) /\ p.money + p.unsaved = d.money[c]
<1>1. PICK f : /\ Course(q, d.money[c], Fortune(d, c), c, f)
               /\ p.money + p.goods = Fortune(d, c) /\ p.money + p.unsaved = f[Len(q)]
  BY DEF Balanced
<1>2. f[Len(q)] = d.money[c]
  BY <1>1, IdleEnds
<1> QED BY <1>1, <1>2

\* A save of c is queued that leads on from where c is.
LEMMA SaveBalanced ==
  ASSUME NEW d \in Tables, NEW q \in Seq(Operation), NEW c \in Char, NEW p, NEW here, NEW p2,
         NEW o \in Operation, o.op = "save", o.who = c,
         Balanced(d, q, TRUE, p, c),
         o.money + o.goods = p.money + p.unsaved, o.money <= Fortune(d, c),
         here => p2.money + p2.goods = Fortune(d, c) /\ p2.money + p2.unsaved = o.money
  PROVE  Balanced(d, Append(q, o), here, p2, c)
<1>1. PICK f : /\ Course(q, d.money[c], Fortune(d, c), c, f)
               /\ p.money + p.goods = Fortune(d, c) /\ p.money + p.unsaved = f[Len(q)]
  BY DEF Balanced
<1>2. PICK g : /\ Course(Append(q, o), d.money[c], Fortune(d, c), c, g)
               /\ g[Len(Append(q, o))] = o.money
  BY <1>1, CourseSaves
<1> QED BY <1>2 DEF Balanced

-----------------------------------------------------------------------------
(* The total.                                                                *)

LEMMA TotalIs ==
  ASSUME NEW d \in Tables, Single(d.mail)
  PROVE  /\ Total(d) = SumFunction(d.money) + SumFunction(d.goods) + SumFunction(Worths(d.mail))
         /\ SumFunction(d.money) \in Int /\ SumFunction(d.goods) \in Int
         /\ SumFunction(Worths(d.mail)) \in Int
<1>1. /\ d.money \in [Char -> Int] /\ d.goods \in [Char -> Int] /\ d.mail \in SUBSET MailRow
      /\ IsFiniteSet(Char) /\ IsFiniteSet(Id)
  BY FS_Interval, MailAssumption DEF Tables, Id
<1>2. Worths(d.mail) \in [Id -> Int]
  BY <1>1, WorthsAre
<1>3. MapThenSumSet(LAMBDA m : m.money, d.mail) = SumFunction(Worths(d.mail))
  BY <1>1, MailSum
<1>4. /\ SumFunction(d.money) \in Int /\ SumFunction(d.goods) \in Int
      /\ SumFunction(Worths(d.mail)) \in Int
  BY <1>1, <1>2, SumType
<1>5. Total(d) = SumFunction(d.money) + SumFunction(d.goods) + SumFunction(Worths(d.mail))
  BY <1>3 DEF Total
<1> QED BY <1>4, <1>5

\* What c has changes, and with it the total, if the mails hold what they held.
SameWorths(rows, rows2) == Worths(rows2) = Worths(rows)

OnlyOf(c, d, d2) ==
  \A e \in Char : e # c => d2.money[e] = d.money[e] /\ d2.goods[e] = d.goods[e]

LEMMA FortuneMoves ==
  ASSUME NEW d \in Tables, NEW d2 \in Tables, NEW c \in Char, OnlyOf(c, d, d2)
  PROVE  /\ SumFunction(d2.money) = SumFunction(d.money) - d.money[c] + d2.money[c]
         /\ SumFunction(d2.goods) = SumFunction(d.goods) - d.goods[c] + d2.goods[c]
<1>1. /\ IsFiniteSet(Char)
      /\ d.money \in [Char -> Int] /\ d.goods \in [Char -> Int]
      /\ d2.money \in [Char -> Int] /\ d2.goods \in [Char -> Int]
  BY MailAssumption DEF Tables
<1>2. \A e \in Char : e # c => d2.money[e] = d.money[e]
  BY DEF OnlyOf
<1>3. \A e \in Char : e # c => d2.goods[e] = d.goods[e]
  BY DEF OnlyOf
<1>4. SumFunction(d2.money) = SumFunction(d.money) - d.money[c] + d2.money[c]
  BY <1>1, <1>2, SumChange
<1>5. SumFunction(d2.goods) = SumFunction(d.goods) - d.goods[c] + d2.goods[c]
  BY <1>1, <1>3, SumChange
<1> QED BY <1>4, <1>5

LEMMA WorthMoves ==
  ASSUME NEW rows \in SUBSET MailRow, NEW rows2 \in SUBSET MailRow, Single(rows), Single(rows2),
         NEW i \in Id, \A id \in Id : id # i => Worths(rows2)[id] = Worths(rows)[id]
  PROVE  SumFunction(Worths(rows2)) = SumFunction(Worths(rows)) - Worths(rows)[i] + Worths(rows2)[i]
<1>1. IsFiniteSet(Id)
  BY FS_Interval, MailAssumption DEF Id
<1>2. Worths(rows) \in [Id -> Nat] /\ Worths(rows2) \in [Id -> Nat]
  BY WorthsAre
<1>3. Worths(rows) \in [Id -> Int] /\ Worths(rows2) \in [Id -> Int]
  BY <1>2
<1> QED BY <1>1, <1>3, SumChange

LEMMA TotalSame ==
  ASSUME NEW d \in Tables, NEW d2 \in Tables, Single(d.mail), Single(d2.mail),
         NEW c \in Char, OnlyOf(c, d, d2), SameWorths(d.mail, d2.mail)
  PROVE  Total(d) \in Int /\ Total(d2) = Total(d) - Fortune(d, c) + Fortune(d2, c)
<1>1. /\ SumFunction(d2.money) = SumFunction(d.money) - d.money[c] + d2.money[c]
      /\ SumFunction(d2.goods) = SumFunction(d.goods) - d.goods[c] + d2.goods[c]
  BY FortuneMoves
<1>2. /\ Total(d) = SumFunction(d.money) + SumFunction(d.goods) + SumFunction(Worths(d.mail))
      /\ SumFunction(d.money) \in Int /\ SumFunction(d.goods) \in Int
      /\ SumFunction(Worths(d.mail)) \in Int
  BY TotalIs
<1>3. Total(d2) = SumFunction(d2.money) + SumFunction(d2.goods) + SumFunction(Worths(d.mail))
  BY TotalIs DEF SameWorths
<1>4. d.money[c] \in Nat /\ d.goods[c] \in Nat /\ d2.money[c] \in Nat /\ d2.goods[c] \in Nat
  BY FortuneIs
<1> QED BY <1>1, <1>2, <1>3, <1>4 DEF Fortune

\* ... or one mail, too, holds something else.
OtherWorth(rows, rows2, i) == \A id \in Id : id # i => Worths(rows2)[id] = Worths(rows)[id]

LEMMA TotalMoves ==
  ASSUME NEW d \in Tables, NEW d2 \in Tables, Single(d.mail), Single(d2.mail),
         NEW c \in Char, OnlyOf(c, d, d2), NEW i \in Id, OtherWorth(d.mail, d2.mail, i)
  PROVE  /\ Total(d) \in Int
         /\ Total(d2) = Total(d) - Fortune(d, c) + Fortune(d2, c)
                                 - Worths(d.mail)[i] + Worths(d2.mail)[i]
<1>1. /\ SumFunction(d2.money) = SumFunction(d.money) - d.money[c] + d2.money[c]
      /\ SumFunction(d2.goods) = SumFunction(d.goods) - d.goods[c] + d2.goods[c]
  BY FortuneMoves
<1>2. /\ Total(d) = SumFunction(d.money) + SumFunction(d.goods) + SumFunction(Worths(d.mail))
      /\ SumFunction(d.money) \in Int /\ SumFunction(d.goods) \in Int
      /\ SumFunction(Worths(d.mail)) \in Int
  BY TotalIs
<1>3. Total(d2) = SumFunction(d2.money) + SumFunction(d2.goods) + SumFunction(Worths(d2.mail))
  BY TotalIs
<1>4. d.money[c] \in Nat /\ d.goods[c] \in Nat /\ d2.money[c] \in Nat /\ d2.goods[c] \in Nat
  BY FortuneIs
<1>5. d.mail \in SUBSET MailRow /\ d2.mail \in SUBSET MailRow
  BY DEF Tables
<1>6. SumFunction(Worths(d2.mail)) = SumFunction(Worths(d.mail)) - Worths(d.mail)[i] + Worths(d2.mail)[i]
  BY <1>5, WorthMoves DEF OtherWorth
<1>7. Worths(d.mail)[i] \in Nat /\ Worths(d2.mail)[i] \in Nat
  BY <1>5, WorthsAre
<1> QED BY <1>1, <1>2, <1>3, <1>4, <1>6, <1>7 DEF Fortune

\* What a change of the rows does to what the mails hold: nothing, or only to mail i.
OnlyMail(rows, rows2, i) ==
  /\ \A x \in rows2 : x.id = i \/ \E y \in rows : y.id = x.id /\ y.money = x.money
  /\ \A y \in rows : y.id = i \/ y.money = 0 \/ \E x \in rows2 : x.id = y.id

LEMMA OnlyMailIs ==
  ASSUME NEW rows \in SUBSET MailRow, NEW rows2 \in SUBSET MailRow, Single(rows), Single(rows2),
         NEW i, OnlyMail(rows, rows2, i)
  PROVE  OtherWorth(rows, rows2, i) /\ (i \notin Id => SameWorths(rows, rows2))
<1>1. ASSUME NEW id \in Id, id # i PROVE Worths(rows2)[id] = Worths(rows)[id]
  <2>1. CASE \E x \in rows2 : x.id = id
    <3>1. PICK x \in rows2 : x.id = id
      BY <2>1
    <3>2. PICK y \in rows : y.id = id /\ y.money = x.money
      BY <1>1, <3>1 DEF OnlyMail
    <3> QED BY <3>1, <3>2, WorthsAre
  <2>2. CASE ~\E x \in rows2 : x.id = id
    <3>1. Worths(rows2)[id] = 0
      BY <2>2, WorthsAre
    <3>2. \A y \in rows : y.id = id => y.money = 0
      BY <1>1, <2>2 DEF OnlyMail
    <3>3. CASE \E y \in rows : y.id = id
      BY <3>1, <3>2, <3>3, WorthsAre
    <3>4. CASE ~\E y \in rows : y.id = id
      BY <3>1, <3>4, WorthsAre
    <3> QED BY <3>3, <3>4
  <2> QED BY <2>1, <2>2
<1>2. OtherWorth(rows, rows2, i)
  BY <1>1 DEF OtherWorth
<1>3. ASSUME i \notin Id PROVE SameWorths(rows, rows2)
  <2>1. \A id \in Id : Worths(rows2)[id] = Worths(rows)[id]
    BY <1>1, <1>3
  <2>2. Worths(rows) \in [Id -> Nat] /\ Worths(rows2) \in [Id -> Nat]
    BY WorthsAre
  <2> QED BY <2>1, <2>2 DEF SameWorths
<1> QED BY <1>2, <1>3

-----------------------------------------------------------------------------
(* The handlers of a client: what becomes of money and prices.               *)

\* A letter has one row, its receiver's, with its worth.
LEMMA LetterRows ==
  ASSUME Base, Letters, Prices, NEW e \in Char, NEW m \in mem[e].box
  PROVE  /\ \E x \in db.mail : x.id = m.id /\ x.to = e
         /\ \A x \in db.mail : x.id = m.id => x.to = e /\ SameWorth(x, m)
         /\ m.id \in Id /\ m.id < nextId
<1>1. PICK y \in db.mail : y.id = m.id /\ y.to = e
  BY DEF Letters, Backed
<1>2. \A x \in db.mail : x.id = m.id => x = y
  BY <1>1 DEF Base, Numbered
<1>3. \A x \in db.mail : x.id = m.id => SameWorth(x, m)
  BY DEF Prices, Priced
<1>4. m.id \in Id /\ m.id < nextId
  BY <1>1, BaseIs DEF Base, Numbered
<1> QED BY <1>1, <1>2, <1>3, <1>4

\* Mail id of c is given the worth of v, the next mail that of "new"; and the save that c
\* leaves carries no other worth than letters had.
Rows(c, id, v, new) ==
  \A x \in db'.mail :
    \/ nextId' # nextId /\ x.id = nextId /\ SameWorth(x, new)
    \/ \E y \in db.mail :
         SameMail(x, y) /\ IF y.id = id /\ y.to = c THEN SameWorth(x, v) ELSE SameWorth(x, y)

Boxes(c, id, v, new) ==
  \A e \in Char : \A n \in mem'[e].box :
    \/ nextId' # nextId /\ n.id = nextId /\ SameWorth(n, new)
    \/ \E m \in mem[e].box :
         m.id = n.id /\ IF m.id = id /\ e = c THEN SameWorth(n, v) ELSE SameWorth(n, m)

Carries(o, c, id) ==
  /\ o \in Operation /\ o.op = "save" /\ o.who = c
  /\ \A u \in o.mails : \E m \in mem[c].box : u.id = m.id /\ m.id # id /\ SameWorth(u, m)

Repriced(c, id, v, new) ==
  /\ Rows(c, id, v, new)
  /\ Boxes(c, id, v, new)
  /\ queue' = queue \/ \E o : Carries(o, c, id) /\ queue' = Append(queue, o)
  /\ id # 0 => Idle(queue, c)
  /\ nextId' = nextId \/ nextId' = nextId + 1

Moved(c) ==
  /\ OnlyOf(c, db, db')
  /\ \A e \in Char : e # c => /\ mem'[e].money = mem[e].money /\ mem'[e].goods = mem[e].goods
                              /\ mem'[e].unsaved = mem[e].unsaved
  /\ Balanced(db', queue', c \in online', mem'[c], c)
  /\ Total(db') + burnt' = Gold

LEMMA RepricedPrices ==
  ASSUME Base, Base', Letters, Prices, NEW c \in online, UNCHANGED loading, online' \subseteq online,
         NEW id, NEW v, NEW new, Repriced(c, id, v, new)
  PROVE  Prices'
<1>1. c \in Char /\ nextId \in Nat /\ \A x \in db.mail : x.id < nextId /\ x.id \in Nat
  BY BaseIs DEF Base, Types, Numbered, Id
<1>2. ASSUME NEW e \in Char, NEW n \in mem'[e].box, NEW x \in db'.mail, x.id = n.id
      PROVE  SameWorth(x, n)
  <2>1. CASE nextId' # nextId /\ x.id = nextId /\ SameWorth(x, new)
    <3>1. ASSUME NEW m \in mem[e].box, m.id = n.id PROVE FALSE
      <4>1. m.id < nextId /\ m.id \in Id
        BY LetterRows
      <4>2. m.id = nextId
        BY <1>2, <2>1, <3>1
      <4> QED BY <1>1, <4>1, <4>2 DEF Id
    <3>2. SameWorth(n, new)
      BY <3>1 DEF Repriced, Boxes
    <3> QED BY <2>1, <3>2 DEF SameWorth
  <2>2. ASSUME NEW y \in db.mail, SameMail(x, y),
               IF y.id = id /\ y.to = c THEN SameWorth(x, v) ELSE SameWorth(x, y)
        PROVE  SameWorth(x, n)
    <3>1. n.id = y.id /\ n.id # nextId
      BY <1>1, <1>2, <2>2 DEF SameMail
    <3>2. PICK m \in mem[e].box :
            m.id = n.id /\ IF m.id = id /\ e = c THEN SameWorth(n, v) ELSE SameWorth(n, m)
      BY <3>1 DEF Repriced, Boxes
    <3>3. y.to = e /\ SameWorth(y, m)
      BY <3>1, <3>2, LetterRows
    <3> QED BY <2>2, <3>1, <3>2, <3>3 DEF SameWorth
  <2> QED BY <2>1, <2>2 DEF Repriced, Rows
<1>3. ASSUME NEW e \in Char, loading[e] # <<>>, NEW n \in loading[e][1].box, NEW x \in db'.mail, x.id = n.id
      PROVE  SameWorth(x, n)
  <2>1. e # c
    BY <1>3, BaseIs
  <2>2. PICK z \in db.mail : z.id = n.id /\ z.to = e
    BY <1>3 DEF Letters, Backed
  <2>3. PICK y \in db.mail :
          SameMail(x, y) /\ IF y.id = id /\ y.to = c THEN SameWorth(x, v) ELSE SameWorth(x, y)
    <3>1. x.id # nextId
      BY <1>1, <1>3, <2>2
    <3> QED BY <3>1 DEF Repriced, Rows
  <2>4. y = z
    BY <1>3, <2>2, <2>3 DEF Base, Numbered, SameMail
  <2>5. SameWorth(z, n)
    BY <1>3, <2>2 DEF Prices, Priced
  <2> QED BY <2>1, <2>2, <2>3, <2>4, <2>5 DEF SameWorth
<1> QED BY <1>2, <1>3 DEF Prices, Priced

LEMMA RepricedRewriting ==
  ASSUME Base, Base', Letters, Expiries, Prices, Rewriting, NEW c \in online,
         NEW id, NEW v, NEW new, Repriced(c, id, v, new)
  PROVE  Rewriting'
<1>1. /\ c \in Char /\ Types /\ nextId \in Nat /\ nextId' \in Nat /\ nextId <= nextId'
      /\ \A x \in db.mail : x.id < nextId /\ x.id \in Nat \ {0}
  BY BaseIs DEF Base, Types, Numbered, Id, Repriced
<1>2. /\ Len(queue) \in Nat /\ DOMAIN queue = 1 .. Len(queue)
      /\ \A k \in DOMAIN queue : queue[k] \in Operation
  BY <1>1, QueueIs
<1>3. ASSUME NEW k \in DOMAIN queue, queue'[k] = queue[k], queue[k].op = "save", NEW u \in queue[k].mails
      PROVE  /\ u.id < nextId'
             /\ \A x \in db'.mail : x.id = u.id => x.to = queue[k].who /\ SameWorth(x, u)
             /\ \A j \in DOMAIN queue : j < k => ~(queue[j].op = "turn" /\ queue[j].id = u.id)
  <2>1. /\ u.id < nextId
        /\ \A y \in db.mail : y.id = u.id => y.to = queue[k].who /\ SameWorth(y, u)
        /\ \A j \in DOMAIN queue : j < k => ~(queue[j].op = "turn" /\ queue[j].id = u.id)
    BY <1>3 DEF Rewriting, Rewrites
  <2>2. u.id \in Nat
    <3>1. u \in MailRow
      BY <1>2, <1>3, OperationIs
    <3> QED BY <3>1 DEF MailRow, Id
  <2>3. ASSUME NEW x \in db'.mail, x.id = u.id PROVE x.to = queue[k].who /\ SameWorth(x, u)
    <3>1. x.id # nextId
      BY <1>1, <2>1, <2>2, <2>3
    <3>2. PICK y \in db.mail :
            SameMail(x, y) /\ IF y.id = id /\ y.to = c THEN SameWorth(x, v) ELSE SameWorth(x, y)
      BY <3>1 DEF Repriced, Rows
    <3>3. y.id = u.id /\ y.to = x.to /\ y.to = queue[k].who /\ SameWorth(y, u)
      BY <2>1, <2>3, <3>2 DEF SameMail
    <3>4. ~(y.id = id /\ y.to = c)
      <4> SUFFICES ASSUME y.id = id, y.to = c PROVE FALSE
        OBVIOUS
      <4>1. Idle(queue, c)
        BY <1>1 DEF Repriced
      <4> QED BY <1>3, <3>3, <4>1 DEF Idle, Saving
    <3> QED BY <3>2, <3>3, <3>4 DEF SameWorth
  <2> QED BY <1>1, <2>1, <2>2, <2>3
<1>4. ASSUME NEW o, Carries(o, c, id), NEW u \in o.mails
      PROVE  /\ u.id < nextId'
             /\ \A x \in db'.mail : x.id = u.id => x.to = c /\ SameWorth(x, u)
             /\ \A j \in DOMAIN queue : ~(queue[j].op = "turn" /\ queue[j].id = u.id)
  <2>1. PICK m \in mem[c].box : u.id = m.id /\ m.id # id /\ SameWorth(u, m)
    BY <1>4 DEF Carries
  <2>2. m.id \in Id /\ m.id < nextId /\ \A y \in db.mail : y.id = m.id => y.to = c /\ SameWorth(y, m)
    BY <1>1, LetterRows
  <2>3. m.id \in Nat /\ m.id < nextId'
    BY <1>1, <2>2 DEF Id
  <2>4. ASSUME NEW x \in db'.mail, x.id = u.id PROVE x.to = c /\ SameWorth(x, u)
    <3>1. x.id # nextId
      BY <1>1, <2>1, <2>2, <2>3, <2>4
    <3>2. PICK y \in db.mail :
            SameMail(x, y) /\ IF y.id = id /\ y.to = c THEN SameWorth(x, v) ELSE SameWorth(x, y)
      BY <3>1 DEF Repriced, Rows
    <3>3. y.id = m.id /\ x.to = y.to /\ y.to = c /\ SameWorth(y, m)
      BY <2>1, <2>2, <2>4, <3>2 DEF SameMail
    <3> QED BY <2>1, <3>2, <3>3 DEF SameWorth
  <2>5. ASSUME NEW j \in DOMAIN queue, queue[j].op = "turn", queue[j].id = u.id PROVE FALSE
    <3>1. NoLetter(queue[j].id)
      BY <2>5 DEF Expiries, Turning, NotRead
    <3> QED BY <1>1, <2>1, <2>5, <3>1 DEF NoLetter
  <2> QED BY <2>1, <2>3, <2>4, <2>5
<1>5. CASE queue' = queue
  BY <1>3, <1>5 DEF Rewriting, Rewrites
<1>6. ASSUME NEW o, Carries(o, c, id), queue' = Append(queue, o)
      PROVE  Rewriting'
  <2>1. o \in Operation /\ o.who = c
    BY <1>6 DEF Carries
  <2>2. /\ DOMAIN queue' = 1 .. Len(queue) + 1 /\ queue'[Len(queue) + 1] = o
        /\ \A k \in DOMAIN queue : queue'[k] = queue[k]
    BY <1>1, <1>6, <2>1, Appended
  <2> SUFFICES ASSUME NEW k \in DOMAIN queue', queue'[k].op = "save", NEW u \in queue'[k].mails
               PROVE  /\ u.id < nextId'
                      /\ \A x \in db'.mail : x.id = u.id => x.to = queue'[k].who /\ SameWorth(x, u)
                      /\ \A j \in DOMAIN queue' : j < k => ~(queue'[j].op = "turn" /\ queue'[j].id = u.id)
    BY DEF Rewriting, Rewrites
  <2>3. \A j \in DOMAIN queue' : j < k => j \in DOMAIN queue /\ queue'[j] = queue[j]
    BY <1>2, <2>2
  <2>4. CASE k \in DOMAIN queue
    BY <1>3, <2>2, <2>3, <2>4
  <2>5. CASE k \notin DOMAIN queue
    <3>1. queue'[k] = o
      BY <1>2, <2>2, <2>5
    <3> QED BY <1>4, <1>6, <2>1, <2>3, <3>1
  <2> QED BY <2>4, <2>5
<1> QED BY <1>5, <1>6 DEF Repriced

LEMMA HandlerBooks ==
  ASSUME Base, Base', Safe, Books, NEW c \in online, Outcome(c), UNCHANGED loading,
         NEW id, NEW v, NEW new, Repriced(c, id, v, new), Moved(c)
  PROVE  Books'
<1>1. /\ c \in Char /\ Types /\ Letters /\ Expiries /\ db \in Tables /\ db' \in Tables
      /\ queue \in Seq(Operation) /\ queue' \in Seq(Operation) /\ online' \subseteq online
  BY OutcomeTypes DEF Base, Types, Safe
<1>2. Prices'
  BY <1>1, RepricedPrices DEF Books
<1>3. Rewriting'
  BY <1>1, RepricedRewriting DEF Books
<1>4. Sum'
  BY DEF Moved, Sum
<1>5. /\ Len(queue) \in Nat /\ DOMAIN queue = 1 .. Len(queue) /\ DOMAIN queue \subseteq DOMAIN queue'
      /\ \A k \in DOMAIN queue : queue'[k] = queue[k]
      /\ \A k \in DOMAIN queue' : k \notin DOMAIN queue => Saving(queue', k, c)
      /\ DOMAIN queue' = 1 .. Len(queue') /\ Len(queue) <= Len(queue') /\ Len(queue') \in Nat
  <2>1. CASE queue' = queue
    BY <1>1, <2>1, SeqIs
  <2>2. ASSUME NEW o, Carries(o, c, id), queue' = Append(queue, o)
        PROVE  /\ DOMAIN queue \subseteq DOMAIN queue' /\ Len(queue) <= Len(queue')
               /\ \A k \in DOMAIN queue : queue'[k] = queue[k]
               /\ \A k \in DOMAIN queue' : k \notin DOMAIN queue => Saving(queue', k, c)
    <3>1. o \in Operation /\ o.op = "save" /\ o.who = c
      BY <2>2 DEF Carries
    <3>2. /\ DOMAIN queue' = 1 .. Len(queue) + 1
          /\ DOMAIN queue \subseteq DOMAIN queue'
          /\ \A k \in DOMAIN queue' : k \notin DOMAIN queue => k = Len(queue) + 1
          /\ \A k \in DOMAIN queue : queue'[k] = queue[k]
          /\ queue'[Len(queue) + 1] = o
      BY <1>1, <2>2, <3>1, Appended
    <3>3. Len(queue') = Len(queue) + 1
      BY <1>1, <2>2, <3>1, AppendProperties
    <3>4. Len(queue) \in Nat
      BY <1>1, SeqIs
    <3> QED BY <3>1, <3>2, <3>3, <3>4 DEF Saving
  <2> QED BY <1>1, <2>1, <2>2, SeqIs DEF Repriced
<1>6. ASSUME NEW e \in Char, e # c
      PROVE  Balanced(db', queue', e \in online', mem'[e], e) /\ Fetched(db', queue', loading'[e], e)
  <2>1. Balanced(db, queue, e \in online, mem[e], e) /\ Fetched(db, queue, loading[e], e)
    BY DEF Books, Balances, Answers
  <2>2. db'.money[e] = db.money[e] /\ db'.goods[e] = db.goods[e]
    BY <1>6 DEF Moved, OnlyOf
  <2>3. \A k \in DOMAIN queue' : k \notin DOMAIN queue => ~Saving(queue', k, e) /\ queue'[k].op # "load"
    BY <1>5, <1>6 DEF Saving
  <2>4. GoesOn(queue, queue', e)
    BY <1>5, <2>3 DEF GoesOn
  <2>5. Balanced(db', queue', e \in online', mem'[e], e)
    <3>1. mem'[e].money = mem[e].money /\ mem'[e].goods = mem[e].goods /\ mem'[e].unsaved = mem[e].unsaved
      BY <1>6 DEF Moved
    <3>2. Fortune(db', e) = Fortune(db, e)
      BY <2>2 DEF Fortune
    <3>3. e \in online' => /\ e \in online /\ mem'[e].money + mem'[e].goods = mem[e].money + mem[e].goods
                           /\ mem'[e].money + mem'[e].unsaved = mem[e].money + mem[e].unsaved
      BY <1>1, <3>1
    <3> QED BY <1>1, <2>1, <2>2, <2>4, <3>2, <3>3, OtherBalanced
  <2>6. Fetched(db', queue', loading'[e], e)
    <3>1. \A k \in DOMAIN queue' : Saving(queue', k, e) => k \in DOMAIN queue /\ Saving(queue, k, e)
      BY <1>5, <2>3 DEF Saving
    <3>2. \A k \in DOMAIN queue' : queue'[k].op = "load" => k \in DOMAIN queue /\ queue'[k] = queue[k]
      BY <1>5, <2>3
    <3> QED BY <2>1, <2>2, <3>1, <3>2 DEF Fetched, Idle
  <2> QED BY <2>5, <2>6
<1>7. Fetched(db', queue', loading'[c], c)
  <2>1. loading'[c] = <<>> /\ \A k \in DOMAIN queue : ~(queue[k].op = "load" /\ queue[k].who = c)
    BY <1>1 DEF Base, Logins, Loading
  <2>2. \A k \in DOMAIN queue' : ~(queue'[k].op = "load" /\ queue'[k].who = c)
    BY <1>5, <2>1 DEF Saving
  <2> QED BY <2>1, <2>2 DEF Fetched
<1>8. Balances' /\ Answers'
  BY <1>6, <1>7 DEF Balances, Answers, Moved
<1> QED BY <1>2, <1>3, <1>4, <1>8 DEF Books

-----------------------------------------------------------------------------
(* The handlers one by one.                                                  *)

\* What a save may carry of the letters.
Faithful(p, c, id) ==
  \A u \in ChangedRows(p) : \E m \in mem[c].box : u.id = m.id /\ m.id # id /\ SameWorth(u, m)

\* r stands for where c is when the save is queued.
LeavesFrom(c, id, r) ==
  \/ LogoutUnsaved(c)
  \/ \E p \in Memory :
       /\ LogoutWith(c, p)
       /\ p.money + p.unsaved = r.money + r.unsaved /\ p.money <= Fortune(db', c)
       /\ Faithful(p, c, id)

LEMMA LeavingBooks ==
  ASSUME Base, Base', Safe, Books, NEW c \in online, UNCHANGED loading,
         NEW id, NEW v, NEW new, Rows(c, id, v, new), id # 0 => Idle(queue, c),
         nextId' = nextId \/ nextId' = nextId + 1,
         OnlyOf(c, db, db'), Total(db') + burnt' = Gold,
         NEW r, Balanced(db', queue, TRUE, r, c), LeavesFrom(c, id, r)
  PROVE  Books'
<1>1. /\ c \in Char /\ mem \in [Char -> Memory] /\ db' \in Tables /\ queue \in Seq(Operation)
  BY DEF Base, Types
<1>2. mem' = [mem EXCEPT ![c] = Offline] /\ online' = online \ {c}
  BY DEF LeavesFrom, LogoutWith, LogoutUnsaved
<1>3. mem'[c] = Offline /\ \A e \in Char : e # c => mem'[e] = mem[e]
  BY <1>1, <1>2
<1>4. Outcome(c)
  BY DEF LeavesFrom, Outcome
<1>5. Boxes(c, id, v, new)
  BY <1>3, OfflineIs DEF Boxes, SameWorth
<1>6. CASE LogoutUnsaved(c)
  <2>1. queue' = queue
    BY <1>6 DEF LogoutUnsaved
  <2>2. PICK f : Course(queue, db'.money[c], Fortune(db', c), c, f)
    BY DEF Balanced
  <2>3. Balanced(db', queue', c \in online', mem'[c], c)
    BY <1>2, <2>1, <2>2 DEF Balanced
  <2>4. Repriced(c, id, v, new) /\ Moved(c)
    BY <1>3, <1>5, <2>1, <2>3 DEF Repriced, Moved
  <2> QED BY <1>4, <2>4, HandlerBooks
<1>7. ASSUME NEW p \in Memory, LogoutWith(c, p),
             p.money + p.unsaved = r.money + r.unsaved, p.money <= Fortune(db', c),
             Faithful(p, c, id)
      PROVE  Books'
  <2> DEFINE o == SaveOf(c, p)
  <2>1. /\ o \in Operation /\ o.op = "save" /\ o.who = c /\ queue' = Append(queue, o)
        /\ o.money = p.money /\ o.goods = p.unsaved /\ o.mails = ChangedRows(p)
    BY <1>1, <1>7, SaveOfIs DEF LogoutWith, SaveOf
  <2> HIDE DEF o
  <2>2. Carries(o, c, id)
    BY <1>7, <2>1 DEF Faithful, Carries
  <2>3. ~(c \in online')
    BY <1>2
  <2>4. Balanced(db', Append(queue, o), FALSE, Offline, c)
    <3>1. o.money + o.goods = r.money + r.unsaved /\ o.money <= Fortune(db', c)
      BY <1>7, <2>1
    <3>2. FALSE => /\ Offline.money + Offline.goods = Fortune(db', c)
                   /\ Offline.money + Offline.unsaved = o.money
      OBVIOUS
    <3> QED BY <1>1, <2>1, <3>1, <3>2, SaveBalanced
  <2>5. Balanced(db', queue', c \in online', mem'[c], c)
    BY <1>3, <2>1, <2>3, <2>4 DEF Balanced
  <2>6. Repriced(c, id, v, new) /\ Moved(c)
    BY <1>3, <1>5, <2>1, <2>2, <2>5 DEF Repriced, Moved
  <2> QED BY <1>4, <2>6, HandlerBooks
<1> QED BY <1>6, <1>7 DEF LeavesFrom

\* Nothing is stored.
LEMMA UnchangedRows ==
  ASSUME Base, db' = db
  PROVE  \A c \in Char : /\ Rows(c, 0, 0, 0) /\ OnlyOf(c, db, db')
<1>1. \A x \in db.mail : x.id # 0
  BY BaseIs
<1> QED BY <1>1 DEF Rows, SameMail, SameWorth, OnlyOf

LEMMA FaithfulIs ==
  ASSUME Base, NEW c \in Char, NEW p \in Memory, p.box \subseteq mem[c].box
  PROVE  Faithful(p, c, 0)
<1>1. ASSUME NEW u \in ChangedRows(p)
      PROVE  \E m \in mem[c].box : u.id = m.id /\ m.id # 0 /\ SameWorth(u, m)
  <2>1. PICK m \in p.box : u = RowOf(m)
    BY DEF ChangedRows
  <2>2. m \in mem[c].box /\ m.id # 0
    BY BaseIs
  <2> QED BY <2>1, <2>2 DEF RowOf, SameWorth
<1> QED BY <1>1 DEF Faithful

\* The player is logged out, after a commit that was rolled back or none at all.
LEMMA RolledBackBooks ==
  ASSUME Base, Base', Safe, Books, NEW c \in online, UNCHANGED <<loading, burnt>>, db' = db,
         nextId' = nextId \/ nextId' = nextId + 1,
         LogoutUnsaved(c) \/ \E p \in Memory :
           /\ LogoutWith(c, p)
           /\ p.money + p.unsaved = mem[c].money + mem[c].unsaved
           /\ p.money <= mem[c].money + mem[c].goods
           /\ Faithful(p, c, 0)
  PROVE  Books'
<1>1. c \in Char
  BY DEF Base, Types
<1>2. Rows(c, 0, 0, 0) /\ OnlyOf(c, db, db')
  BY <1>1, UnchangedRows
<1>3. Balanced(db', queue, TRUE, mem[c], c)
  BY <1>1 DEF Books, Balances, Balanced
<1>4. mem[c].money + mem[c].goods = Fortune(db', c)
  BY <1>3 DEF Balanced
<1>5. LeavesFrom(c, 0, mem[c])
  BY <1>4 DEF LeavesFrom
<1>6. Total(db') + burnt' = Gold
  BY DEF Books, Sum
<1> QED BY <1>1, <1>2, <1>3, <1>5, <1>6, LeavingBooks

LEMMA LogoutBooks ==
  ASSUME Base, Base', Safe, Books, NEW c \in online, UNCHANGED <<loading, burnt>>, db' = db,
         nextId' = nextId \/ nextId' = nextId + 1, LogoutWith(c, mem[c])
  PROVE  Books'
<1>1. c \in Char /\ mem[c] \in Memory
  BY DEF Base, Types
<1>2. mem[c].money \in Nat /\ mem[c].goods \in Nat /\ Faithful(mem[c], c, 0)
  BY <1>1, FaithfulIs DEF Memory
<1>3. mem[c].money <= mem[c].money + mem[c].goods
  BY <1>2
<1> QED BY <1>1, <1>2, <1>3, RolledBackBooks

LEMMA StayingBooks ==
  ASSUME Base, Base', Safe, Books, NEW c \in online, Outcome(c),
         UNCHANGED <<queue, online, loading>>,
         NEW id, NEW v, NEW new, Rows(c, id, v, new), Boxes(c, id, v, new), id # 0 => Idle(queue, c),
         nextId' = nextId \/ nextId' = nextId + 1,
         OnlyOf(c, db, db'), Total(db') + burnt' = Gold,
         \A e \in Char : e # c => /\ mem'[e].money = mem[e].money /\ mem'[e].goods = mem[e].goods
                                  /\ mem'[e].unsaved = mem[e].unsaved,
         Balanced(db', queue, TRUE, mem'[c], c)
  PROVE  Books'
<1>1. Balanced(db', queue', c \in online', mem'[c], c)
  BY DEF Balanced
<1>2. Repriced(c, id, v, new) /\ Moved(c)
  BY <1>1 DEF Repriced, Moved
<1> QED BY <1>2, HandlerBooks

LEMMA SavedHas ==
  ASSUME NEW p \in Memory
  PROVE  /\ Saved(p).money = p.money /\ Saved(p).goods = p.goods /\ Saved(p).unsaved = 0
         /\ Saved(p).box = p.box /\ Saved(p).changed = {}
BY DEF Saved, Memory

LEMMA AutosaveBooks ==
  ASSUME Base, Base', Safe, Books, NEW c \in Char, Autosave(c)
  PROVE  Books'
<1> DEFINE p == mem[c]
           o == SaveOf(c, p)
<1>1. /\ c \in online /\ p \in Memory /\ mem \in [Char -> Memory] /\ db \in Tables /\ queue \in Seq(Operation)
      /\ UNCHANGED <<db, online, loading, nextId, burnt>>
  BY DEF Autosave, Base, Types
<1>2. Outcome(c)
  BY AutosaveIs DEF Handled
<1>3. /\ mem'[c] = Saved(p) /\ \A e \in Char : e # c => mem'[e] = mem[e]
  BY <1>1 DEF Autosave
<1>4. /\ o \in Operation /\ o.op = "save" /\ o.who = c /\ queue' = Append(queue, o)
      /\ o.money = p.money /\ o.goods = p.unsaved /\ o.mails = ChangedRows(p)
  BY <1>1, SaveOfIs DEF Autosave, SaveOf
<1>5. Faithful(p, c, 0)
  BY <1>1, FaithfulIs
<1> HIDE DEF o
<1>6. Carries(o, c, 0)
  BY <1>4, <1>5 DEF Faithful, Carries
<1>7. Rows(c, 0, 0, 0) /\ OnlyOf(c, db, db')
  BY <1>1, UnchangedRows
<1>8. Boxes(c, 0, 0, 0)
  <2>1. ASSUME NEW e \in Char, NEW n \in mem'[e].box PROVE n \in mem[e].box /\ n.id # 0
    <3>1. n \in mem[e].box
      BY <1>1, <1>3, <2>1, SavedHas
    <3> QED BY <3>1, BaseIs
  <2> QED BY <2>1 DEF Boxes, SameWorth
<1>9. Balanced(db', queue', c \in online', mem'[c], c)
  <2>1. Balanced(db, queue, TRUE, p, c)
    BY <1>1 DEF Books, Balances, Balanced
  <2>2. p.money + p.goods = Fortune(db, c)
    BY <2>1 DEF Balanced
  <2>3. p.money \in Nat /\ p.goods \in Nat /\ p.unsaved \in Int
    BY <1>1 DEF Memory
  <2>4. o.money + o.goods = p.money + p.unsaved /\ o.money <= Fortune(db, c)
    BY <1>4, <2>2, <2>3
  <2>5. TRUE => /\ Saved(p).money + Saved(p).goods = Fortune(db, c)
                /\ Saved(p).money + Saved(p).unsaved = o.money
    BY <1>1, <1>4, <2>2, <2>3, SavedHas
  <2>6. Balanced(db, Append(queue, o), TRUE, Saved(p), c)
    BY <1>1, <1>4, <2>1, <2>4, <2>5, SaveBalanced
  <2> QED BY <1>1, <1>3, <1>4, <2>6 DEF Balanced
<1>10. Total(db') + burnt' = Gold
  BY <1>1 DEF Books, Sum
<1>11. \A e \in Char : e # c => /\ mem'[e].money = mem[e].money /\ mem'[e].goods = mem[e].goods
                                /\ mem'[e].unsaved = mem[e].unsaved
  BY <1>3
<1>12. Repriced(c, 0, 0, 0) /\ Moved(c)
  BY <1>1, <1>4, <1>6, <1>7, <1>8, <1>9, <1>10, <1>11 DEF Repriced, Moved
<1> QED BY <1>1, <1>2, <1>12, HandlerBooks

LEMMA ExchangeBooks ==
  ASSUME Base, Base', Safe, Books, NEW c \in Char, NEW n \in {-1, 1}, Exchange(c, n)
  PROVE  Books'
<1>1. /\ c \in online /\ mem[c] \in Memory /\ mem \in [Char -> Memory] /\ db \in Tables
      /\ UNCHANGED <<db, queue, online, loading, nextId, burnt>>
  BY DEF Exchange, Base, Types
<1>2. Outcome(c)
  BY ExchangeIs DEF Handled
<1>3. /\ mem'[c] = [mem[c] EXCEPT !.money = @ - n, !.goods = @ + n, !.unsaved = @ + n]
      /\ \A e \in Char : e # c => mem'[e] = mem[e]
  BY <1>1 DEF Exchange
<1>4. /\ mem'[c].money = mem[c].money - n /\ mem'[c].goods = mem[c].goods + n
      /\ mem'[c].unsaved = mem[c].unsaved + n /\ mem'[c].box = mem[c].box
      /\ mem[c].money \in Nat /\ mem[c].goods \in Nat /\ mem[c].unsaved \in Int
  BY <1>1, <1>3 DEF Memory
<1>5. Rows(c, 0, 0, 0) /\ OnlyOf(c, db, db')
  BY <1>1, UnchangedRows
<1>6. Boxes(c, 0, 0, 0)
  <2>1. ASSUME NEW e \in Char, NEW l \in mem'[e].box PROVE l \in mem[e].box /\ l.id # 0
    <3>1. l \in mem[e].box
      BY <1>3, <1>4, <2>1
    <3> QED BY <3>1, BaseIs
  <2> QED BY <2>1 DEF Boxes, SameWorth
<1>7. Balanced(db', queue, TRUE, mem'[c], c)
  <2>1. PICK f : /\ Course(queue, db.money[c], Fortune(db, c), c, f)
                 /\ mem[c].money + mem[c].goods = Fortune(db, c)
                 /\ mem[c].money + mem[c].unsaved = f[Len(queue)]
    BY <1>1 DEF Books, Balances, Balanced
  <2>2. /\ mem'[c].money + mem'[c].goods = mem[c].money + mem[c].goods
        /\ mem'[c].money + mem'[c].unsaved = mem[c].money + mem[c].unsaved
    BY <1>4
  <2> QED BY <1>1, <2>1, <2>2 DEF Balanced
<1>8. Total(db') + burnt' = Gold
  BY <1>1 DEF Books, Sum
<1> QED BY <1>1, <1>2, <1>3, <1>5, <1>6, <1>7, <1>8, StayingBooks

LEMMA MarkAsReadBooks ==
  ASSUME Base, Base', Safe, Books, NEW c \in Char, NEW m, MarkAsRead(c, m)
  PROVE  Books'
<1>1. /\ c \in online /\ mem[c] \in Memory /\ mem \in [Char -> Memory] /\ db \in Tables
      /\ m \in mem[c].box /\ m \in LetterRow
      /\ UNCHANGED <<db, queue, online, loading, nextId, burnt>>
  BY BaseIs DEF MarkAsRead, Base, Types
<1>2. Outcome(c)
  BY MarkAsReadIs DEF Handled
<1> DEFINE n == [m EXCEPT !.read = TRUE]
<1>3. n.id = m.id /\ SameWorth(n, m)
  BY <1>1 DEF LetterRow, SameWorth
<1>4. /\ mem'[c] = [mem[c] EXCEPT !.box = (@ \ {m}) \cup {n}, !.changed = @ \cup {m.id}]
      /\ \A e \in Char : e # c => mem'[e] = mem[e]
  BY <1>1 DEF MarkAsRead
<1> HIDE DEF n
<1>5. /\ mem'[c].money = mem[c].money /\ mem'[c].goods = mem[c].goods
      /\ mem'[c].unsaved = mem[c].unsaved /\ mem'[c].box = (mem[c].box \ {m}) \cup {n}
  BY <1>1, <1>4 DEF Memory
<1>6. Rows(c, 0, 0, 0) /\ OnlyOf(c, db, db')
  BY <1>1, UnchangedRows
<1>7. Boxes(c, 0, 0, 0)
  <2>1. ASSUME NEW e \in Char, NEW l \in mem'[e].box
        PROVE  \E k \in mem[e].box : k.id = l.id /\ k.id # 0 /\ SameWorth(l, k)
    <3>1. \E k \in mem[e].box : k.id = l.id /\ SameWorth(l, k)
      BY <1>1, <1>3, <1>4, <1>5, <2>1 DEF SameWorth
    <3> QED BY <3>1, BaseIs
  <2> QED BY <2>1 DEF Boxes
<1>8. Balanced(db', queue, TRUE, mem'[c], c)
  BY <1>1, <1>5 DEF Books, Balances, Balanced
<1>9. Total(db') + burnt' = Gold
  BY <1>1 DEF Books, Sum
<1> QED BY <1>1, <1>2, <1>4, <1>6, <1>7, <1>8, <1>9, StayingBooks

\* A commit that no hazard taints finds no save of the character in the queue.
LEMMA UntaintedIs ==
  ASSUME MoneySafe', NEW c \in Char, NEW t \in {"overtaken", "overtakenSale"},
         Overtaking(c, t) \subseteq tainted'
  PROVE  Idle(queue, c)
BY DEF MoneySafe, Overtaking, SaveQueued, Idle, Saving

LEMMA WholeIs ==
  ASSUME MoneySafe', NEW c, Splitting(c) \subseteq tainted'
  PROVE  mem[c].unsaved = 0
BY DEF MoneySafe, Splitting

\* Where nothing is queued and nothing unsaved, memory and tables are the same.
LEMMA IdleStored ==
  ASSUME Base, Balances, NEW c \in online, Idle(queue, c)
  PROVE  /\ mem[c].money + mem[c].goods = db.money[c] + db.goods[c]
         /\ mem[c].money + mem[c].unsaved = db.money[c]
         /\ db.money[c] \in Nat /\ db.goods[c] \in Nat
         /\ mem[c].money \in Nat /\ mem[c].goods \in Nat /\ mem[c].unsaved \in Int
<1>1. c \in Char /\ db \in Tables /\ queue \in Seq(Operation) /\ mem[c] \in Memory
  BY DEF Base, Types
<1>2. Balanced(db, queue, TRUE, mem[c], c)
  BY <1>1 DEF Balances, Balanced
<1>3. mem[c].money + mem[c].goods = Fortune(db, c) /\ mem[c].money + mem[c].unsaved = db.money[c]
  <2>1. PICK p : p = mem[c]
    OBVIOUS
  <2>2. c \in Char /\ db \in Tables /\ queue \in Seq(Operation) /\ Balanced(db, queue, TRUE, p, c)
    BY <1>1, <1>2, <2>1
  <2>3. p.money + p.goods = Fortune(db, c) /\ p.money + p.unsaved = db.money[c]
    BY <2>2, IdleIs
  <2> QED BY <2>1, <2>3
<1> QED BY <1>1, <1>3, FortuneIs DEF Fortune, Memory

\* A commit that leaves the fortune of c as it is stored leaves the balance.
LEMMA SameBalance ==
  ASSUME Base, Base', Balances, NEW c \in online, db'.money[c] = db.money[c], db'.goods[c] = db.goods[c]
  PROVE  Balanced(db', queue, TRUE, mem[c], c) /\ Fortune(db', c) = Fortune(db, c)
<1>1. c \in Char /\ db \in Tables /\ db' \in Tables
  BY DEF Base, Types
<1>2. Balanced(db, queue, TRUE, mem[c], c)
  BY <1>1 DEF Balances, Balanced
<1> QED BY <1>2 DEF Balanced, Fortune

LEMMA SingleIs ==
  ASSUME Base
  PROVE  db \in Tables /\ db.mail \in SUBSET MailRow /\ Single(db.mail)
BY DEF Base, Types, Tables, Numbered, Single

LEMMA WithoutHas ==
  ASSUME NEW d \in Tables, NEW c \in Char, NEW m
  PROVE  WithoutMail(d, c, m).money = d.money /\ WithoutMail(d, c, m).goods = d.goods
BY DEF WithoutMail, Tables

\* What the rows of a letter hold is what the letter holds.
LEMMA LetterWorth ==
  ASSUME Base, Letters, Prices, NEW c \in Char, NEW m \in mem[c].box
  PROVE  m.id \in Id /\ Worths(db.mail)[m.id] = m.money /\ m.money \in Nat
<1>1. PICK x \in db.mail : x.id = m.id /\ x.to = c
  BY LetterRows
<1>2. SameWorth(x, m) /\ m.id \in Id
  BY <1>1, LetterRows
<1>3. Worths(db.mail)[x.id] = x.money
  BY SingleIs, WorthsAre
<1>4. m.money \in Nat
  BY BaseIs DEF LetterRow
<1> QED BY <1>1, <1>2, <1>3, <1>4 DEF SameWorth

LEMMA MailDeleteBooks ==
  ASSUME Base, Base', Safe, Books, MoneySafe', NEW c \in Char, NEW m, MailDelete(c, m)
  PROVE  Books'
<1> DEFINE d == WithoutMail(db, c, m)
<1>1. /\ c \in online /\ mem[c] \in Memory /\ mem \in [Char -> Memory] /\ db \in Tables
      /\ m \in mem[c].box /\ m.money = 0 /\ Letters /\ Prices /\ Balances
      /\ UNCHANGED <<loading, nextId, burnt>>
  BY DEF MailDelete, Base, Types, Safe, Books
<1>2. \/ db' = d /\ mem' = Discarded(mem, c, m) /\ UNCHANGED <<queue, online>>
      \/ db' = db /\ LogoutWith(c, mem[c])
      \/ db' = d /\ LogoutWith(c, mem[c])
  BY DEF MailDelete, Commits, RolledBack
<1>3. Outcome(c)
  BY MailDeleteIs DEF Handled
<1>4. /\ d \in Tables /\ d.money = db.money /\ d.goods = db.goods
      /\ d.mail = {x \in db.mail : ~(x.id = m.id /\ x.to = c)}
  BY <1>1, WithoutIs, WithoutHas
<1> HIDE DEF d
<1>5. ASSUME db' = d
      PROVE  /\ Rows(c, 0, 0, 0) /\ OnlyOf(c, db, db') /\ Balanced(db', queue, TRUE, mem[c], c)
             /\ Total(db') + burnt' = Gold
  <2>1. Rows(c, 0, 0, 0)
    <3>1. \A x \in db'.mail : x \in db.mail /\ x.id # 0
      BY <1>4, <1>5, BaseIs
    <3> QED BY <3>1 DEF Rows, SameMail, SameWorth
  <2>2. OnlyOf(c, db, db') /\ Fortune(db', c) = Fortune(db, c)
    BY <1>4, <1>5 DEF OnlyOf, Fortune
  <2>3. Balanced(db', queue, TRUE, mem[c], c)
    BY <1>1, <1>4, <1>5, SameBalance
  <2>4. OnlyMail(db.mail, db'.mail, 0)
    <3>1. \A y \in db.mail : y.id = m.id => y.money = 0
      BY <1>1, LetterRows DEF SameWorth
    <3> QED BY <1>4, <1>5, <3>1 DEF OnlyMail
  <2>5. SameWorths(db.mail, db'.mail)
    <3>1. 0 \notin Id
      BY BaseIs
    <3>2. db.mail \in SUBSET MailRow /\ Single(db.mail) /\ db'.mail \in SUBSET MailRow /\ Single(db'.mail)
      BY SingleIs DEF Base, Types, Tables, Numbered, Single
    <3> QED BY <2>4, <3>1, <3>2, OnlyMailIs
  <2>6. Total(db) \in Int /\ Total(db') = Total(db) - Fortune(db, c) + Fortune(db', c)
    <3>1. Single(db.mail) /\ Single(db'.mail) /\ db' \in Tables
      BY SingleIs DEF Base, Types, Tables, Numbered, Single
    <3> QED BY <1>1, <2>2, <2>5, <3>1, TotalSame
  <2>7. Fortune(db, c) \in Nat
    BY <1>1, FortuneIs
  <2>8. Total(db') = Total(db)
    BY <2>2, <2>6, <2>7
  <2> QED BY <1>1, <2>1, <2>2, <2>3, <2>8 DEF Books, Sum
<1>6. CASE db' = d /\ mem' = Discarded(mem, c, m) /\ UNCHANGED <<queue, online>>
  <2>1. /\ \A e \in Char : e # c => mem'[e] = mem[e]
        /\ mem'[c].money = mem[c].money /\ mem'[c].goods = mem[c].goods
        /\ mem'[c].unsaved = mem[c].unsaved /\ mem'[c].box = mem[c].box \ {m}
    BY <1>1, <1>6 DEF Discarded, Memory
  <2>2. Boxes(c, 0, 0, 0)
    <3>1. ASSUME NEW e \in Char, NEW n \in mem'[e].box PROVE n \in mem[e].box /\ n.id # 0
      <4>1. n \in mem[e].box
        BY <2>1, <3>1
      <4> QED BY <4>1, BaseIs
    <3> QED BY <3>1 DEF Boxes, SameWorth
  <2>3. Balanced(db', queue, TRUE, mem'[c], c)
    BY <1>5, <1>6, <2>1 DEF Balanced
  <2> QED BY <1>1, <1>3, <1>5, <1>6, <2>1, <2>2, <2>3, StayingBooks
<1>7. CASE db' = db /\ LogoutWith(c, mem[c])
  BY <1>1, <1>7, LogoutBooks
<1>8. CASE db' = d /\ LogoutWith(c, mem[c])
  <2>1. Faithful(mem[c], c, 0)
    BY <1>1, FaithfulIs
  <2>2. mem[c].money + mem[c].goods = Fortune(db', c)
    BY <1>5, <1>8 DEF Balanced
  <2>3. mem[c].money <= Fortune(db', c)
    BY <1>1, <2>2 DEF Memory
  <2>4. LeavesFrom(c, 0, mem[c])
    BY <1>1, <1>8, <2>1, <2>3 DEF LeavesFrom
  <2> QED BY <1>1, <1>5, <1>8, <2>4, LeavingBooks
<1> QED BY <1>2, <1>6, <1>7, <1>8

\* Two tables of mails that Base is true of.
LEMMA SinglesAre ==
  ASSUME Base, Base'
  PROVE  /\ db \in Tables /\ db.mail \in SUBSET MailRow /\ Single(db.mail)
         /\ db' \in Tables /\ db'.mail \in SUBSET MailRow /\ Single(db'.mail)
         /\ 0 \notin Id
BY SingleIs, BaseIs DEF Base, Types, Tables, Numbered, Single

\* Memory and tables are even with each other when nothing is queued or unsaved.
LEMMA EvenStored ==
  ASSUME Base, Balances, NEW c \in online, Idle(queue, c), mem[c].unsaved = 0
  PROVE  /\ mem[c].money = db.money[c] /\ mem[c].goods = db.goods[c]
         /\ db.money[c] \in Nat /\ db.goods[c] \in Nat
BY IdleStored

LEMMA TakeMoneyBooks ==
  ASSUME Base, Base', Safe, Books, MoneySafe', NEW c \in Char, NEW m, TakeMoney(c, m)
  PROVE  Books'
<1> DEFINE f(x) == IF x.id = m.id /\ x.to = c THEN [x EXCEPT !.money = 0] ELSE x
           rows == {f(x) : x \in db.mail}
           d == [db EXCEPT !.money[c] = mem[c].money + m.money, !.mail = {f(x) : x \in @}]
           n == [m EXCEPT !.money = 0]
           v == [money |-> 0, cod |-> m.cod]
<1>1. /\ c \in online /\ mem[c] \in Memory /\ mem \in [Char -> Memory] /\ db \in Tables
      /\ m \in mem[c].box /\ m \in LetterRow /\ m.id \in Id /\ Letters /\ Prices /\ Balances
      /\ UNCHANGED <<loading, nextId, burnt>> /\ queue \in Seq(Operation)
  BY BaseIs DEF TakeMoney, Base, Types, Safe, Books
<1>2. \/ /\ db' = d /\ UNCHANGED <<queue, online>>
         /\ mem' = [mem EXCEPT ![c].money = @ + m.money,
                               ![c].box = (@ \ {m}) \cup {n},
                               ![c].changed = @ \cup {m.id}]
         /\ tainted' = tainted \cup Overtaking(c, "overtaken") \cup Splitting(c)
      \/ db' = db /\ LogoutWith(c, mem[c])
      \/ "unsure" \in tainted'
  BY DEF TakeMoney, RolledBack
<1>3. Outcome(c)
  BY TakeMoneyIs DEF Handled
<1>4. CASE /\ db' = d /\ UNCHANGED <<queue, online>>
           /\ mem' = [mem EXCEPT ![c].money = @ + m.money,
                                 ![c].box = (@ \ {m}) \cup {n},
                                 ![c].changed = @ \cup {m.id}]
           /\ tainted' = tainted \cup Overtaking(c, "overtaken") \cup Splitting(c)
  <2>1. Idle(queue, c) /\ mem[c].unsaved = 0
    BY <1>4, UntaintedIs, WholeIs
  <2>2. /\ mem[c].money = db.money[c] /\ mem[c].goods = db.goods[c]
        /\ db.money[c] \in Nat /\ db.goods[c] \in Nat /\ m.money \in Nat
    BY <1>1, <2>1, EvenStored DEF LetterRow
  <2>3. /\ db'.mail = rows /\ db'.goods = db.goods
        /\ db'.money = [db.money EXCEPT ![c] = mem[c].money + m.money]
    BY <1>1, <1>4 DEF Tables
  <2>4. /\ db'.money[c] = db.money[c] + m.money /\ OnlyOf(c, db, db')
        /\ Fortune(db', c) = Fortune(db, c) + m.money /\ Fortune(db, c) \in Nat
    <3>1. db'.money[c] = db.money[c] + m.money /\ OnlyOf(c, db, db')
      BY <1>1, <2>2, <2>3 DEF OnlyOf, Tables
    <3>2. db'.goods[c] = db.goods[c]
      BY <2>3
    <3> QED BY <2>2, <3>1, <3>2 DEF Fortune
  <2>5. n.id = m.id /\ n.money = 0 /\ n.cod = m.cod
    BY <1>1 DEF LetterRow
  <2>6. /\ \A e \in Char : e # c => mem'[e] = mem[e]
        /\ mem'[c].money = mem[c].money + m.money /\ mem'[c].goods = mem[c].goods
        /\ mem'[c].unsaved = mem[c].unsaved /\ mem'[c].box = (mem[c].box \ {m}) \cup {n}
    <3> HIDE DEF n
    <3> QED BY <1>1, <1>4 DEF Memory
  <2>7. \A x \in db.mail : x.id = m.id => x.to = c /\ SameWorth(x, m)
    BY <1>1, LetterRows
  <2>8. ASSUME NEW x \in db.mail
        PROVE  /\ SameMail(f(x), x) /\ (x.id # m.id => f(x) = x)
               /\ x.id = m.id => f(x).money = 0 /\ f(x).cod = m.cod
    <3>1. x \in MailRow
      BY <1>1 DEF Tables
    <3>2. CASE x.id = m.id /\ x.to = c
      <4>1. f(x) = [x EXCEPT !.money = 0]
        BY <3>2
      <4> HIDE DEF f
      <4>2. x.cod = m.cod
        BY <2>7, <3>2 DEF SameWorth
      <4> QED BY <3>1, <3>2, <4>1, <4>2 DEF MailRow, SameMail
    <3>3. CASE ~(x.id = m.id /\ x.to = c)
      BY <2>7, <3>3 DEF SameMail
    <3> QED BY <3>2, <3>3
  <2>9. \A x \in db'.mail : \E y \in db.mail : x = f(y)
    BY <2>3
  <2>10. \A y \in db.mail : f(y) \in db'.mail
    BY <2>3
  <2> HIDE DEF f, d, rows, n
  <2>11. Rows(c, m.id, v, 0)
    <3>1. ASSUME NEW x \in db'.mail
          PROVE  \E y \in db.mail :
                   SameMail(x, y) /\ IF y.id = m.id /\ y.to = c THEN SameWorth(x, v) ELSE SameWorth(x, y)
      <4>1. PICK y \in db.mail : x = f(y)
        BY <2>9
      <4>2. CASE y.id = m.id
        BY <2>7, <2>8, <4>1, <4>2 DEF SameWorth
      <4>3. CASE y.id # m.id
        BY <2>8, <4>1, <4>3 DEF SameWorth
      <4> QED BY <4>2, <4>3
    <3> HIDE DEF v
    <3> QED BY <3>1 DEF Rows
  <2>12. Boxes(c, m.id, v, 0)
    <3>1. ASSUME NEW e \in Char, NEW l \in mem'[e].box
          PROVE  \E k \in mem[e].box :
                   k.id = l.id /\ IF k.id = m.id /\ e = c THEN SameWorth(l, v) ELSE SameWorth(l, k)
      <4>1. CASE e # c
        BY <2>6, <4>1 DEF SameWorth
      <4>2. CASE e = c /\ l = n
        BY <1>1, <2>5, <4>2 DEF SameWorth
      <4>3. CASE e = c /\ l \in mem[c].box \ {m}
        <5>1. l.id # m.id
          BY <1>1, <4>3 DEF Letters, Backed
        <5> QED BY <4>3, <5>1 DEF SameWorth
      <4> QED BY <2>6, <4>1, <4>2, <4>3
    <3> HIDE DEF v
    <3> QED BY <3>1 DEF Boxes
  <2>13. OnlyMail(db.mail, db'.mail, m.id)
    <3>1. \A x \in db'.mail : x.id = m.id \/ \E y \in db.mail : y.id = x.id /\ y.money = x.money
      BY <2>8, <2>9 DEF SameMail
    <3>2. \A y \in db.mail : \E x \in db'.mail : x.id = y.id
      BY <2>8, <2>10 DEF SameMail
    <3> QED BY <3>1, <3>2 DEF OnlyMail
  <2>14. OtherWorth(db.mail, db'.mail, m.id)
    BY <2>13, SinglesAre, OnlyMailIs
  <2>15. Worths(db.mail)[m.id] = m.money
    BY <1>1, LetterWorth
  <2>16. Worths(db'.mail)[m.id] = 0
    <3>1. PICK y \in db.mail : y.id = m.id
      BY <1>1, LetterRows
    <3>2. f(y) \in db'.mail /\ f(y).id = m.id /\ f(y).money = 0
      BY <2>8, <2>10, <3>1 DEF SameMail
    <3> QED BY <3>2, SinglesAre, WorthsAre
  <2>17. /\ Total(db) \in Int
         /\ Total(db') = Total(db) - Fortune(db, c) + Fortune(db', c)
                                   - Worths(db.mail)[m.id] + Worths(db'.mail)[m.id]
    BY <1>1, <2>4, <2>14, SinglesAre, TotalMoves
  <2>18. Total(db') = Total(db)
    BY <2>2, <2>4, <2>15, <2>16, <2>17
  <2>19. Total(db') + burnt' = Gold
    BY <1>1, <2>18 DEF Books, Sum
  <2>20. Balanced(db', queue, TRUE, mem'[c], c)
    <3>1. /\ mem'[c].money + mem'[c].goods = Fortune(db', c)
          /\ mem'[c].money + mem'[c].unsaved = db'.money[c]
      BY <2>1, <2>2, <2>3, <2>4, <2>6 DEF Fortune
    <3> QED BY <2>1, <3>1, SinglesAre, <1>1, IdleBalanced
  <2>21. \A e \in Char : e # c => /\ mem'[e].money = mem[e].money /\ mem'[e].goods = mem[e].goods
                                  /\ mem'[e].unsaved = mem[e].unsaved
    BY <2>6
  <2> HIDE DEF v
  <2> QED BY <1>1, <1>3, <1>4, <2>1, <2>4, <2>11, <2>12, <2>19, <2>20, <2>21, StayingBooks
<1>5. CASE db' = db /\ LogoutWith(c, mem[c])
  BY <1>1, <1>5, LogoutBooks
<1>6. CASE "unsure" \in tainted'
  BY <1>6 DEF MoneySafe
<1> QED BY <1>2, <1>4, <1>5, <1>6

\* A mail is delivered: no balance changes, and the letter is worth what the mail is.
LEMMA DeliveredWorth ==
  ASSUME NEW players \in [Char -> Memory], NEW m \in MailRow, NEW items \in SUBSET Item, NEW e \in Char
  PROVE  LET p == Delivered(players, m, items)[e]
         IN  /\ p.money = players[e].money /\ p.goods = players[e].goods
             /\ p.unsaved = players[e].unsaved
             /\ \A n \in p.box : n \in players[e].box \/ (n.id = m.id /\ SameWorth(n, m))
<1>1. m.to \in Char /\ players[e] \in Memory
  BY DEF MailRow
<1>2. Letter(m, items).id = m.id /\ SameWorth(Letter(m, items), m)
  BY DEF Letter, SameWorth
<1>3. CASE m.to \in online /\ e = m.to
  <2>1. Delivered(players, m, items)[e] = [players[e] EXCEPT !.box = @ \cup {Letter(m, items)}]
    BY <1>1, <1>3 DEF Delivered
  <2> QED BY <1>1, <1>2, <2>1 DEF Memory
<1>4. CASE ~(m.to \in online /\ e = m.to)
  <2>1. Delivered(players, m, items)[e] = players[e]
    BY <1>1, <1>4 DEF Delivered
  <2> QED BY <2>1
<1> QED BY <1>3, <1>4

\* The tables d2 are d, one mail more, with the fortunes of others as they were.
Posting(d, d2, c, new) ==
  /\ d \in Tables /\ d2 \in Tables /\ Single(d.mail) /\ Single(d2.mail)
  /\ c \in Char /\ OnlyOf(c, d, d2)
  /\ new \in MailRow /\ (\A x \in d.mail : x.id # new.id) /\ d2.mail = d.mail \cup {new}

\* A new mail adds what it holds.
LEMMA PostedTotal ==
  ASSUME NEW d, NEW d2, NEW c, NEW new, Posting(d, d2, c, new)
  PROVE  /\ Total(d) \in Int /\ new.money \in Nat
         /\ Total(d2) = Total(d) - Fortune(d, c) + Fortune(d2, c) + new.money
<1>0. /\ d \in Tables /\ d2 \in Tables /\ Single(d.mail) /\ Single(d2.mail)
      /\ c \in Char /\ OnlyOf(c, d, d2)
      /\ new \in MailRow /\ (\A x \in d.mail : x.id # new.id) /\ d2.mail = d.mail \cup {new}
  BY DEF Posting
<1>1. d.mail \in SUBSET MailRow /\ d2.mail \in SUBSET MailRow /\ new.id \in Id /\ new.money \in Nat
  BY <1>0 DEF Tables, MailRow
<1>2. OnlyMail(d.mail, d2.mail, new.id)
  BY <1>0 DEF OnlyMail
<1>3. OtherWorth(d.mail, d2.mail, new.id)
  BY <1>0, <1>1, <1>2, OnlyMailIs
<1>4. Worths(d.mail)[new.id] = 0
  BY <1>0, <1>1, WorthsAre
<1>5. Worths(d2.mail)[new.id] = new.money
  BY <1>0, <1>1, WorthsAre
<1>6. /\ Total(d) \in Int
      /\ Total(d2) = Total(d) - Fortune(d, c) + Fortune(d2, c)
                              - Worths(d.mail)[new.id] + Worths(d2.mail)[new.id]
  <2>1. PICK i \in Id : i = new.id
    BY <1>1
  <2>2. OtherWorth(d.mail, d2.mail, i)
    BY <1>3, <2>1
  <2>3. /\ Total(d) \in Int
        /\ Total(d2) = Total(d) - Fortune(d, c) + Fortune(d2, c)
                                - Worths(d.mail)[i] + Worths(d2.mail)[i]
    BY <1>0, <2>2, TotalMoves, ZenonT(30)
  <2> QED BY <2>1, <2>3
<1>7. Fortune(d, c) \in Nat /\ Fortune(d2, c) \in Nat
  BY <1>0, FortuneIs
<1> QED BY <1>1, <1>4, <1>5, <1>6, <1>7

LEMMA SendMailBooks ==
  ASSUME Base, Base', Safe, Books, MoneySafe', NEW c \in Char, NEW r \in Char,
         NEW gold \in Amount, NEW cod \in {0, Price}, NEW items \in SUBSET Item,
         SendMail(c, r, gold, cod, items)
  PROVE  Books'
<1> DEFINE m == [id |-> nextId, from |-> c, to |-> r, money |-> gold, cod |-> cod,
                 kind |-> "normal", read |-> FALSE]
           w == [db EXCEPT !.money[c] = mem[c].money - gold,
                           !.bag = @ \ {<<c, i>> : i \in items}]
           d == Staged(w, m, Existing(c, items))
           players == [mem EXCEPT ![c].money = @ - gold, ![c].bag = @ \ items, ![c].fresh = @ \ items]
           kept == [mem[c] EXCEPT !.fresh = @ \ items]
<1>1. /\ c \in online /\ mem[c] \in Memory /\ mem \in [Char -> Memory] /\ db \in Tables
      /\ Letters /\ Prices /\ Balances /\ queue \in Seq(Operation)
      /\ UNCHANGED <<loading, burnt>> /\ nextId \in 1 .. MaxMail + 1
      /\ nextId <= MaxMail /\ nextId' = nextId + 1 /\ gold <= mem[c].money
  BY BaseIs DEF SendMail, Base, Types, Safe, Books
<1>2. /\ gold \in Nat /\ mem[c].money \in Nat /\ mem[c].money - gold \in Nat
      /\ mem[c].goods \in Nat /\ mem[c].unsaved \in Int
  BY <1>1, MailAssumption DEF Amount, Memory
<1>3. \/ /\ db' = d /\ mem' = Delivered(players, m, items) /\ UNCHANGED <<queue, online>>
         /\ tainted' = tainted \cup Overtaking(c, "overtaken") \cup Splitting(c)
      \/ db' = db /\ LogoutWith(c, kept)
      \/ /\ db' = d /\ LogoutWith(c, kept)
         /\ tainted' = tainted \cup Overtaking(c, "overtaken") \cup Splitting(c)
                               \cup (IF gold > 0 THEN {"unsure"} ELSE {})
  BY DEF SendMail, RolledBack
<1>4. Outcome(c)
  BY SendMailIs DEF Handled
<1>5. m \in MailRow /\ m.id = nextId /\ m.money = gold /\ nextId \in Id
  <2>1. nextId \in Id
    BY <1>1, MailAssumption DEF Id
  <2> QED BY <1>2, <2>1 DEF MailRow, Kind
<1> HIDE DEF m
<1>6. players \in [Char -> Memory] /\ \A e \in Char : e # c => players[e] = mem[e]
  <2>1. players = [mem EXCEPT ![c] = [mem[c] EXCEPT !.money = @ - gold, !.bag = @ \ items, !.fresh = @ \ items]]
    BY <1>1 DEF Memory
  <2>2. [mem[c] EXCEPT !.money = @ - gold, !.bag = @ \ items, !.fresh = @ \ items] \in Memory
    BY <1>1, <1>2 DEF Memory
  <2> QED BY <1>1, <2>1, <2>2
<1>7. /\ players[c].money = mem[c].money - gold /\ players[c].goods = mem[c].goods
      /\ players[c].unsaved = mem[c].unsaved /\ players[c].box = mem[c].box
  BY <1>1 DEF Memory
<1>8. /\ kept \in Memory /\ kept.money = mem[c].money /\ kept.unsaved = mem[c].unsaved
      /\ kept.box = mem[c].box
  BY <1>1 DEF Memory
<1>9. Faithful(kept, c, 0)
  BY <1>1, <1>8, FaithfulIs
<1> HIDE DEF players, kept
<1>10. /\ w \in Tables /\ w.mail = db.mail /\ w.goods = db.goods
       /\ w.money = [db.money EXCEPT ![c] = mem[c].money - gold]
  BY <1>1, <1>2 DEF Tables
<1> HIDE DEF w
<1>11. Existing(c, items) \in SUBSET Item
  BY DEF Existing
<1>12. d.money = w.money /\ d.mail = db.mail \cup {m} /\ d.goods = db.goods /\ d \in Tables
  <2>1. d.money = w.money /\ d.mail = w.mail \cup {m} /\ d \in Tables
    BY <1>5, <1>10, <1>11, StagedIs
  <2>2. d.goods = w.goods
    BY <1>10 DEF Staged, Tables
  <2> QED BY <1>10, <2>1, <2>2
<1> HIDE DEF d
<1>13. ASSUME db' = d, Idle(queue, c), mem[c].unsaved = 0
       PROVE  /\ Rows(c, 0, 0, m) /\ OnlyOf(c, db, db')
              /\ Total(db') + burnt' = Gold
              /\ db'.money[c] = db.money[c] - gold /\ db'.goods[c] = db.goods[c]
              /\ mem[c].money = db.money[c] /\ mem[c].goods = db.goods[c]
              /\ db.money[c] \in Nat /\ db.goods[c] \in Nat
  <2>1. /\ mem[c].money = db.money[c] /\ mem[c].goods = db.goods[c]
        /\ db.money[c] \in Nat /\ db.goods[c] \in Nat
    BY <1>1, <1>13, EvenStored
  <2>2. db'.money[c] = db.money[c] - gold /\ db'.goods[c] = db.goods[c] /\ OnlyOf(c, db, db')
    BY <1>1, <1>10, <1>12, <1>13, <2>1 DEF OnlyOf, Tables
  <2>3. Rows(c, 0, 0, m)
    <3>1. ASSUME NEW x \in db'.mail
          PROVE  \/ nextId' # nextId /\ x.id = nextId /\ SameWorth(x, m)
                 \/ x \in db.mail /\ SameMail(x, x) /\ x.id # 0 /\ SameWorth(x, x)
      BY <1>1, <1>5, <1>12, <1>13, BaseIs DEF SameMail, SameWorth
    <3> QED BY <3>1 DEF Rows
  <2>4. \A x \in db.mail : x.id # m.id
    BY <1>5, BaseIs
  <2>5. /\ Total(db) \in Int
        /\ Total(db') = Total(db) - Fortune(db, c) + Fortune(db', c) + m.money
    <3>1. Posting(db, db', c, m)
      BY <1>5, <1>12, <1>13, <2>2, <2>4, SinglesAre DEF Posting
    <3> QED BY <3>1, PostedTotal
  <2>6. Total(db') = Total(db)
    BY <1>2, <1>5, <2>1, <2>2, <2>5 DEF Fortune
  <2> QED BY <1>1, <2>1, <2>2, <2>3, <2>6 DEF Books, Sum
<1>14. CASE /\ db' = d /\ mem' = Delivered(players, m, items) /\ UNCHANGED <<queue, online>>
            /\ tainted' = tainted \cup Overtaking(c, "overtaken") \cup Splitting(c)
  <2>1. Idle(queue, c) /\ mem[c].unsaved = 0
    BY <1>14, UntaintedIs, WholeIs
  <2>2. /\ Rows(c, 0, 0, m) /\ OnlyOf(c, db, db') /\ Total(db') + burnt' = Gold
        /\ db'.money[c] = db.money[c] - gold /\ db'.goods[c] = db.goods[c]
        /\ mem[c].money = db.money[c] /\ mem[c].goods = db.goods[c]
        /\ db.money[c] \in Nat /\ db.goods[c] \in Nat
    BY <1>13, <1>14, <2>1
  <2>3. ASSUME NEW e \in Char
        PROVE  /\ mem'[e].money = players[e].money /\ mem'[e].goods = players[e].goods
               /\ mem'[e].unsaved = players[e].unsaved
               /\ \A n \in mem'[e].box : n \in players[e].box \/ (n.id = m.id /\ SameWorth(n, m))
    BY <1>5, <1>6, <1>14, DeliveredWorth
  <2>4. Boxes(c, 0, 0, m)
    <3>1. ASSUME NEW e \in Char, NEW n \in mem'[e].box
          PROVE  \/ nextId' # nextId /\ n.id = nextId /\ SameWorth(n, m)
                 \/ n \in mem[e].box /\ n.id # 0 /\ SameWorth(n, n)
      <4>1. players[e].box = mem[e].box
        BY <1>6, <1>7
      <4> QED BY <1>1, <1>5, <2>3, <4>1, BaseIs DEF SameWorth
    <3> QED BY <3>1 DEF Boxes
  <2>5. Balanced(db', queue, TRUE, mem'[c], c)
    <3>1. /\ mem'[c].money + mem'[c].goods = Fortune(db', c)
          /\ mem'[c].money + mem'[c].unsaved = db'.money[c]
      BY <1>2, <1>7, <2>1, <2>2, <2>3 DEF Fortune
    <3> QED BY <1>1, <2>1, <3>1, SinglesAre, IdleBalanced
  <2>6. \A e \in Char : e # c => /\ mem'[e].money = mem[e].money /\ mem'[e].goods = mem[e].goods
                                 /\ mem'[e].unsaved = mem[e].unsaved
    BY <1>6, <2>3
  <2> QED BY <1>1, <1>4, <1>14, <2>2, <2>4, <2>5, <2>6, StayingBooks
<1>15. CASE db' = db /\ LogoutWith(c, kept)
  <2>1. /\ kept.money + kept.unsaved = mem[c].money + mem[c].unsaved
        /\ kept.money <= mem[c].money + mem[c].goods
    BY <1>2, <1>8
  <2> QED BY <1>1, <1>8, <1>9, <1>15, <2>1, RolledBackBooks
<1>16. CASE /\ db' = d /\ LogoutWith(c, kept)
            /\ tainted' = tainted \cup Overtaking(c, "overtaken") \cup Splitting(c)
                                  \cup (IF gold > 0 THEN {"unsure"} ELSE {})
  <2>1. Idle(queue, c) /\ mem[c].unsaved = 0
    BY <1>16, UntaintedIs, WholeIs
  <2>2. gold = 0
    BY <1>2, <1>16 DEF MoneySafe
  <2>3. /\ Rows(c, 0, 0, m) /\ OnlyOf(c, db, db') /\ Total(db') + burnt' = Gold
        /\ db'.money[c] = db.money[c] /\ db'.goods[c] = db.goods[c]
        /\ mem[c].money = db.money[c] /\ db.money[c] \in Nat /\ db.goods[c] \in Nat
    BY <1>13, <1>16, <2>1, <2>2
  <2>4. Balanced(db', queue, TRUE, mem[c], c)
    BY <1>1, <2>3, SameBalance
  <2>5. kept.money + kept.unsaved = mem[c].money + mem[c].unsaved /\ kept.money <= Fortune(db', c)
    BY <1>8, <2>3 DEF Fortune
  <2>6. LeavesFrom(c, 0, mem[c])
    BY <1>8, <1>9, <1>16, <2>5 DEF LeavesFrom
  <2> QED BY <1>1, <2>3, <2>4, <2>6, LeavingBooks
<1> QED BY <1>3, <1>14, <1>15, <1>16

LEMMA DiscardedHas ==
  ASSUME mem \in [Char -> Memory], NEW c \in Char, NEW m \in mem[c].box
  PROVE  LET p == Discarded(mem, c, m)[c]
         IN  /\ p.money = mem[c].money /\ p.goods = mem[c].goods
             /\ p.unsaved = mem[c].unsaved /\ p.box = mem[c].box \ {m}
BY DEF Discarded, Memory

\* A letter's row is deleted, and what it holds is no longer in the tables.
LEMMA WithoutTotal ==
  ASSUME Base, Letters, Prices, NEW c \in Char, NEW m \in mem[c].box,
         NEW d, d = WithoutMail(db, c, m)
  PROVE  /\ d \in Tables /\ Single(d.mail) /\ OnlyOf(c, db, d) /\ Fortune(d, c) = Fortune(db, c)
         /\ Total(db) \in Int /\ Total(d) = Total(db) - m.money /\ m.money \in Nat
<1>1. /\ d \in Tables /\ d.money = db.money /\ d.goods = db.goods
      /\ d.mail = {x \in db.mail : ~(x.id = m.id /\ x.to = c)} /\ d.mail \in SUBSET MailRow
  <2>1. db \in Tables
    BY SingleIs
  <2>2. d \in Tables /\ d.mail = {x \in db.mail : ~(x.id = m.id /\ x.to = c)}
    BY <2>1, WithoutIs
  <2>3. d.money = db.money /\ d.goods = db.goods
    BY <2>1, WithoutHas
  <2>4. d.mail \in SUBSET MailRow
    BY <2>2 DEF Tables
  <2> QED BY <2>2, <2>3, <2>4
<1>2. Single(d.mail) /\ OnlyOf(c, db, d) /\ Fortune(d, c) = Fortune(db, c)
  BY <1>1, SingleIs DEF Single, OnlyOf, Fortune
<1>3. m.id \in Id /\ Worths(db.mail)[m.id] = m.money /\ m.money \in Nat
  BY LetterWorth
<1>4. OtherWorth(db.mail, d.mail, m.id)
  <2>1. OnlyMail(db.mail, d.mail, m.id)
    BY <1>1 DEF OnlyMail
  <2> QED BY <1>1, <1>2, <2>1, SingleIs, OnlyMailIs
<1>5. Worths(d.mail)[m.id] = 0
  <2>1. \A x \in d.mail : x.id # m.id
    BY <1>1, LetterRows
  <2> QED BY <1>1, <1>2, <1>3, <2>1, WorthsAre
<1>6. PICK i \in Id : i = m.id
  BY <1>3
<1>7. OtherWorth(db.mail, d.mail, i)
  BY <1>4, <1>6
<1>8. /\ Total(db) \in Int
      /\ Total(d) = Total(db) - Fortune(db, c) + Fortune(d, c) - Worths(db.mail)[i] + Worths(d.mail)[i]
  BY <1>1, <1>2, <1>7, SingleIs, TotalMoves
<1>9. Fortune(db, c) \in Nat
  BY SingleIs, FortuneIs
<1> QED BY <1>1, <1>2, <1>3, <1>5, <1>6, <1>8, <1>9

LEMMA ReturnToSenderBooks ==
  ASSUME Base, Base', Safe, Books, MoneySafe', NEW c \in Char, NEW m, ReturnToSender(c, m)
  PROVE  Books'
<1> DEFINE back == [id |-> nextId, from |-> c, to |-> m.from, money |-> m.money, cod |-> 0,
                    kind |-> "returned", read |-> FALSE]
           w == WithoutMail(db, c, m)
           d == Staged(w, back, Existing(c, m.items))
           players == Discarded(mem, c, m)
<1>1. /\ c \in online /\ mem[c] \in Memory /\ mem \in [Char -> Memory] /\ db \in Tables
      /\ m \in mem[c].box /\ m \in LetterRow /\ Letters /\ Prices /\ Balances
      /\ UNCHANGED <<loading, burnt>> /\ nextId \in 1 .. MaxMail + 1
      /\ nextId <= MaxMail /\ nextId' = nextId + 1
  BY BaseIs DEF ReturnToSender, Base, Types, Safe, Books
<1>2. \/ db' = d /\ mem' = Delivered(players, back, m.items) /\ UNCHANGED <<queue, online>>
      \/ db' = db /\ LogoutWith(c, mem[c])
      \/ db' = d /\ LogoutWith(c, mem[c])
  BY DEF ReturnToSender, Commits, RolledBack
<1>3. Outcome(c)
  BY ReturnToSenderIs DEF Handled
<1>4. /\ back \in MailRow /\ back.id = nextId /\ back.money = m.money /\ nextId \in Id
      /\ m.items \in SUBSET Item
  <2>1. nextId \in Id
    BY <1>1, MailAssumption DEF Id
  <2> QED BY <1>1, <2>1 DEF MailRow, LetterRow, Kind
<1> HIDE DEF back
<1>5. /\ w \in Tables /\ Single(w.mail) /\ OnlyOf(c, db, w) /\ Fortune(w, c) = Fortune(db, c)
      /\ Total(db) \in Int /\ Total(w) = Total(db) - m.money /\ m.money \in Nat
  BY <1>1, WithoutTotal
<1>6. /\ w.mail = {x \in db.mail : ~(x.id = m.id /\ x.to = c)}
      /\ w.money = db.money /\ w.goods = db.goods
  BY <1>1, WithoutIs, WithoutHas
<1> HIDE DEF w
<1>7. Existing(c, m.items) \in SUBSET Item
  BY <1>4 DEF Existing
<1>8. d.money = db.money /\ d.goods = db.goods /\ d.mail = w.mail \cup {back} /\ d \in Tables
  <2>1. d.money = w.money /\ d.mail = w.mail \cup {back} /\ d \in Tables
    BY <1>4, <1>5, <1>7, StagedIs
  <2>2. d.goods = w.goods
    BY <1>5 DEF Staged, Tables
  <2> QED BY <1>6, <2>1, <2>2
<1> HIDE DEF d
<1>9. ASSUME db' = d
      PROVE  /\ Rows(c, 0, 0, back) /\ OnlyOf(c, db, db')
             /\ Total(db') + burnt' = Gold
             /\ Balanced(db', queue, TRUE, mem[c], c)
  <2>1. OnlyOf(c, db, db') /\ OnlyOf(c, w, db') /\ Fortune(db', c) = Fortune(db, c)
    BY <1>6, <1>8, <1>9 DEF OnlyOf, Fortune
  <2>2. Rows(c, 0, 0, back)
    <3>1. ASSUME NEW x \in db'.mail
          PROVE  \/ nextId' # nextId /\ x.id = nextId /\ SameWorth(x, back)
                 \/ x \in db.mail /\ SameMail(x, x) /\ x.id # 0 /\ SameWorth(x, x)
      BY <1>1, <1>4, <1>6, <1>8, <1>9, BaseIs DEF SameMail, SameWorth
    <3> QED BY <3>1 DEF Rows
  <2>3. \A x \in w.mail : x.id # back.id
    BY <1>4, <1>6, BaseIs
  <2>4. /\ Total(w) \in Int
        /\ Total(db') = Total(w) - Fortune(w, c) + Fortune(db', c) + back.money
    <3>1. Posting(w, db', c, back)
      BY <1>4, <1>5, <1>8, <1>9, <2>1, <2>3, SinglesAre DEF Posting
    <3> QED BY <3>1, PostedTotal
  <2>5. Total(db') = Total(db)
    <3>1. Fortune(db, c) \in Nat
      BY SingleIs, FortuneIs
    <3> QED BY <1>4, <1>5, <2>1, <2>4, <3>1
  <2>6. Balanced(db', queue, TRUE, mem[c], c)
    BY <1>1, <1>8, <1>9, SameBalance
  <2> QED BY <1>1, <2>1, <2>2, <2>5, <2>6 DEF Books, Sum
<1>10. CASE db' = d /\ mem' = Delivered(players, back, m.items) /\ UNCHANGED <<queue, online>>
  <2>1. players \in [Char -> Memory] /\ \A e \in Char : e # c => players[e] = mem[e]
    BY <1>1, DiscardedIs
  <2>2. /\ players[c].money = mem[c].money /\ players[c].goods = mem[c].goods
        /\ players[c].unsaved = mem[c].unsaved /\ players[c].box = mem[c].box \ {m}
    BY <1>1, DiscardedHas
  <2> HIDE DEF players
  <2>3. ASSUME NEW e \in Char
        PROVE  /\ mem'[e].money = players[e].money /\ mem'[e].goods = players[e].goods
               /\ mem'[e].unsaved = players[e].unsaved
               /\ \A n \in mem'[e].box : n \in players[e].box \/ (n.id = back.id /\ SameWorth(n, back))
    BY <1>4, <1>10, <2>1, DeliveredWorth
  <2>4. Boxes(c, 0, 0, back)
    <3>1. ASSUME NEW e \in Char, NEW n \in mem'[e].box
          PROVE  \/ nextId' # nextId /\ n.id = nextId /\ SameWorth(n, back)
                 \/ n \in mem[e].box /\ n.id # 0 /\ SameWorth(n, n)
      <4>1. players[e].box \subseteq mem[e].box
        BY <2>1, <2>2
      <4> QED BY <1>1, <1>4, <2>3, <4>1, BaseIs DEF SameWorth
    <3> QED BY <3>1 DEF Boxes
  <2>5. Balanced(db', queue, TRUE, mem'[c], c)
    BY <1>9, <1>10, <2>2, <2>3 DEF Balanced
  <2>6. \A e \in Char : e # c => /\ mem'[e].money = mem[e].money /\ mem'[e].goods = mem[e].goods
                                 /\ mem'[e].unsaved = mem[e].unsaved
    BY <2>1, <2>3
  <2> QED BY <1>1, <1>3, <1>9, <1>10, <2>4, <2>5, <2>6, StayingBooks
<1>11. CASE db' = db /\ LogoutWith(c, mem[c])
  BY <1>1, <1>11, LogoutBooks
<1>12. CASE db' = d /\ LogoutWith(c, mem[c])
  <2>1. Faithful(mem[c], c, 0)
    BY <1>1, FaithfulIs
  <2>2. mem[c].money <= Fortune(db', c)
    <3>1. mem[c].money + mem[c].goods = Fortune(db', c)
      BY <1>9, <1>12 DEF Balanced
    <3> QED BY <1>1, <3>1 DEF Memory
  <2>3. LeavesFrom(c, 0, mem[c])
    BY <1>1, <1>12, <2>1, <2>2 DEF LeavesFrom
  <2> QED BY <1>1, <1>9, <1>12, <2>3, LeavingBooks
<1> QED BY <1>2, <1>10, <1>11, <1>12

\* What a save makes of the worth of the mails.
LEMMA UpdateWorth ==
  ASSUME NEW rows \in SUBSET MailRow, NEW updates \in SUBSET MailRow
  PROVE  /\ \A x \in UpdateMails(rows, updates) : \E y \in rows :
              /\ SameMail(x, y)
              /\ \/ SameWorth(x, y) /\ \A u \in updates : u.id # y.id
                 \/ \E u \in updates : u.id = y.id /\ SameWorth(x, u)
         /\ \A y \in rows : \E x \in UpdateMails(rows, updates) : SameMail(x, y)
<1> DEFINE f(y) == IF \E u \in updates : u.id = y.id
                   THEN Rewritten(y, CHOOSE u \in updates : u.id = y.id) ELSE y
           Good(x, y) ==
             /\ SameMail(x, y)
             /\ \/ SameWorth(x, y) /\ \A u \in updates : u.id # y.id
                \/ \E u \in updates : u.id = y.id /\ SameWorth(x, u)
<1>1. ASSUME NEW y \in rows PROVE Good(f(y), y)
  <2>1. y \in MailRow
    OBVIOUS
  <2>2. CASE \E u \in updates : u.id = y.id
    <3>1. PICK u \in updates : u = CHOOSE z \in updates : z.id = y.id
      BY <2>2
    <3>2. u.id = y.id
      BY <2>2, <3>1
    <3>3. f(y) = Rewritten(y, u)
      BY <2>2, <3>1
    <3>4. SameMail(Rewritten(y, u), y) /\ SameWorth(Rewritten(y, u), u)
      BY <2>1 DEF Rewritten, SameMail, SameWorth, MailRow
    <3> QED BY <3>2, <3>3, <3>4
  <2>3. CASE ~\E u \in updates : u.id = y.id
    BY <2>3 DEF SameMail, SameWorth
  <2> QED BY <2>2, <2>3
<1>2. UpdateMails(rows, updates) = {f(y) : y \in rows}
  BY DEF UpdateMails
<1> HIDE DEF f
<1>3. \A x \in UpdateMails(rows, updates) : \E y \in rows : Good(x, y)
  BY <1>1, <1>2
<1> QED BY <1>3, UpdateIs

LEMMA TakenHas ==
  ASSUME NEW p \in Memory, NEW m \in p.box, NEW i \in m.items
  PROVE  LET n == [m EXCEPT !.cod = 0, !.items = @ \ {i}]
             q == TakenInto(p, m, i)
         IN  /\ q \in Memory /\ q.money = p.money /\ q.goods = p.goods /\ q.unsaved = p.unsaved
             /\ q.box = (p.box \ {m}) \cup {n} /\ q.changed = p.changed \cup {m.id}
             /\ n.id = m.id /\ n.money = m.money /\ n.cod = 0
<1>1. m \in LetterRow
  BY DEF Memory
<1>2. TakenInto(p, m, i) \in Memory
  BY TakenIs
<1> QED BY <1>1, <1>2 DEF TakenInto, Memory, LetterRow

LEMMA TakenPurse ==
  ASSUME NEW p \in Memory, NEW m \in p.box, NEW i \in m.items
  PROVE  /\ TakenInto(p, m, i) \in Memory /\ TakenInto(p, m, i).money = p.money
         /\ TakenInto(p, m, i).goods = p.goods /\ TakenInto(p, m, i).unsaved = p.unsaved
<1>1. TakenInto(p, m, i) \in Memory
  BY TakenIs
<1> QED BY <1>1 DEF TakenInto, Memory

\* The worth of a letter whose price was paid.
Paid(m) == [money |-> m.money, cod |-> 0]

LEMMA TakenRows ==
  ASSUME Base, Letters, Prices, NEW c \in Char, NEW m \in mem[c].box, NEW i \in m.items,
         NEW rows, rows = UpdateMails(db.mail, ChangedRows(TakenInto(mem[c], m, i)))
  PROVE  /\ \A x \in rows : \E y \in db.mail :
              /\ SameMail(x, y) /\ x.money = y.money
              /\ IF y.id = m.id /\ y.to = c THEN SameWorth(x, Paid(m)) ELSE SameWorth(x, y)
         /\ \A y \in db.mail : \E x \in rows : SameMail(x, y)
<1> DEFINE q == TakenInto(mem[c], m, i)
           n == [m EXCEPT !.cod = 0, !.items = @ \ {i}]
<1>1. /\ q \in Memory /\ q.box = (mem[c].box \ {m}) \cup {n} /\ q.changed = mem[c].changed \cup {m.id}
      /\ n.id = m.id /\ n.money = m.money /\ n.cod = 0
  BY BaseIs, TakenHas
<1> HIDE DEF q, n
<1>2. PICK updates : updates = ChangedRows(q)
  OBVIOUS
<1>3. updates \in SUBSET MailRow
  BY <1>1, <1>2, RowIs DEF ChangedRows, Memory
<1>4. \E u \in updates : u.id = m.id
  <2>1. RowOf(n) \in updates
    BY <1>1, <1>2 DEF ChangedRows
  <2> QED BY <1>1, <2>1 DEF RowOf
<1>5. ASSUME NEW u \in updates
      PROVE  IF u.id = m.id THEN SameWorth(u, Paid(m)) ELSE \E l \in mem[c].box : l.id = u.id /\ SameWorth(u, l)
  <2>1. PICK l \in q.box : u = RowOf(l)
    BY <1>2 DEF ChangedRows
  <2>2. u.id = l.id /\ SameWorth(u, l)
    BY <2>1 DEF RowOf, SameWorth
  <2>3. CASE l = n
    BY <1>1, <2>2, <2>3 DEF SameWorth, Paid
  <2>4. CASE l \in mem[c].box \ {m}
    <3>1. l.id # m.id
      BY <2>4 DEF Letters, Backed
    <3> QED BY <2>2, <2>4, <3>1
  <2> QED BY <1>1, <2>3, <2>4
<1>6. /\ \A x \in rows : \E y \in db.mail :
              /\ SameMail(x, y)
              /\ \/ SameWorth(x, y) /\ \A u \in updates : u.id # y.id
                 \/ \E u \in updates : u.id = y.id /\ SameWorth(x, u)
      /\ \A y \in db.mail : \E x \in rows : SameMail(x, y)
  <2>1. rows = UpdateMails(db.mail, updates)
    BY <1>2 DEF q
  <2>2. db.mail \in SUBSET MailRow
    BY SingleIs
  <2> QED BY <1>3, <2>1, <2>2, UpdateWorth
<1>7. ASSUME NEW x \in rows
      PROVE  \E y \in db.mail :
              /\ SameMail(x, y) /\ x.money = y.money
              /\ IF y.id = m.id /\ y.to = c THEN SameWorth(x, Paid(m)) ELSE SameWorth(x, y)
  <2>1. PICK y \in db.mail :
              /\ SameMail(x, y)
              /\ \/ SameWorth(x, y) /\ \A u \in updates : u.id # y.id
                 \/ \E u \in updates : u.id = y.id /\ SameWorth(x, u)
    BY <1>6
  <2>2. CASE y.id = m.id
    <3>1. PICK u \in updates : u.id = m.id /\ SameWorth(x, u)
      BY <1>4, <2>1, <2>2
    <3>2. SameWorth(u, Paid(m))
      BY <1>5, <3>1
    <3>3. y.to = c /\ SameWorth(y, m)
      BY <2>2, LetterRows
    <3> QED BY <2>1, <2>2, <3>1, <3>2, <3>3 DEF SameWorth, Paid
  <2>3. CASE y.id # m.id
    <3>1. SameWorth(x, y)
      <4>1. ASSUME NEW u \in updates, u.id = y.id, SameWorth(x, u) PROVE SameWorth(x, y)
        <5>1. PICK l \in mem[c].box : l.id = u.id /\ SameWorth(u, l)
          BY <1>5, <2>3, <4>1
        <5>2. SameWorth(y, l)
          BY <4>1, <5>1, LetterRows
        <5> QED BY <4>1, <5>1, <5>2 DEF SameWorth
      <4> QED BY <2>1, <4>1
    <3> QED BY <2>1, <2>3, <3>1 DEF SameWorth
  <2> QED BY <2>2, <2>3
<1> QED BY <1>6, <1>7

\* The tables after an item was taken: memory, less the price that was paid.
LEMMA TakenTables ==
  ASSUME Base, Letters, Prices, Balances, NEW c \in online, NEW m \in mem[c].box, NEW i \in m.items,
         m.cod <= mem[c].money, Idle(queue, c),
         NEW d, d = WithTakenItem(c, TakenInto(mem[c], m, i), m, i)
  PROVE  /\ d \in Tables /\ Single(d.mail) /\ OnlyOf(c, db, d)
         /\ d.mail = UpdateMails(db.mail, ChangedRows(TakenInto(mem[c], m, i)))
         /\ d.money[c] = mem[c].money - m.cod /\ d.goods[c] = mem[c].goods
         /\ mem[c].money \in Nat /\ mem[c].goods \in Nat /\ m.cod \in Nat
         /\ Fortune(d, c) = Fortune(db, c) - m.cod
         /\ Total(db) \in Int /\ Total(d) = Total(db) - m.cod
<1> DEFINE p == TakenInto(mem[c], m, i)
<1>1. /\ c \in Char /\ db \in Tables /\ mem[c] \in Memory /\ m \in LetterRow /\ m.cod \in Nat
  BY BaseIs, MailAssumption DEF Base, Types, LetterRow
<1>2. p \in Memory /\ p.money = mem[c].money /\ p.goods = mem[c].goods /\ p.unsaved = mem[c].unsaved
  BY <1>1, TakenPurse
<1>3. /\ mem[c].money + mem[c].goods = db.money[c] + db.goods[c]
      /\ mem[c].money + mem[c].unsaved = db.money[c]
      /\ db.money[c] \in Nat /\ db.goods[c] \in Nat
      /\ mem[c].money \in Nat /\ mem[c].goods \in Nat /\ mem[c].unsaved \in Int
  BY <1>1, IdleStored
<1>4. Restocked(db.goods[c], mem[c].unsaved) = mem[c].goods
  BY <1>3 DEF Restocked
<1> HIDE DEF p
<1>5. d \in Tables /\ d.mail = UpdateMails(db.mail, ChangedRows(p))
  BY <1>1, <1>2, WithTakenIs DEF p
<1>6. /\ d.money = [db.money EXCEPT ![c] = mem[c].money - m.cod]
      /\ d.goods = [db.goods EXCEPT ![c] = mem[c].goods]
  <2>1. d = [db EXCEPT !.money[c] = p.money - m.cod, !.goods[c] = Restocked(@, p.unsaved),
                       !.bag = @ \cup {<<c, j>> : j \in p.fresh},
                       !.mail = UpdateMails(@, ChangedRows(p)),
                       !.att = {a \in @ : a.item # i}]
    BY DEF p, WithTakenItem
  <2>2. d.money = [db.money EXCEPT ![c] = p.money - m.cod]
    BY <1>1, <2>1 DEF Tables
  <2>3. d.goods = [db.goods EXCEPT ![c] = Restocked(db.goods[c], p.unsaved)]
    BY <1>1, <2>1 DEF Tables
  <2> QED BY <1>2, <1>4, <2>2, <2>3
<1>7. d.money[c] = mem[c].money - m.cod /\ d.goods[c] = mem[c].goods /\ OnlyOf(c, db, d)
  BY <1>1, <1>6 DEF OnlyOf, Tables
<1>8. Fortune(d, c) = Fortune(db, c) - m.cod
  BY <1>1, <1>3, <1>7 DEF Fortune
<1>9. /\ \A x \in d.mail : \E y \in db.mail : SameMail(x, y) /\ x.money = y.money
      /\ \A y \in db.mail : \E x \in d.mail : SameMail(x, y)
  BY <1>1, <1>5, TakenRows DEF p
<1>10. db.mail \in SUBSET MailRow /\ d.mail \in SUBSET MailRow /\ Single(db.mail)
  BY <1>5, SingleIs DEF Tables
<1>11. Single(d.mail)
  <2>1. ChangedRows(p) \in SUBSET MailRow
    BY <1>2, RowIs DEF ChangedRows, Memory
  <2> QED BY <1>5, <1>10, <2>1, UpdateIs DEF Single
<1>12. SameWorths(db.mail, d.mail)
  <2>1. OnlyMail(db.mail, d.mail, 0)
    BY <1>9 DEF OnlyMail, SameMail
  <2> QED BY <1>10, <1>11, <2>1, BaseIs, OnlyMailIs
<1>13. Total(db) \in Int /\ Total(d) = Total(db) - Fortune(db, c) + Fortune(d, c)
  BY <1>1, <1>5, <1>7, <1>10, <1>11, <1>12, TotalSame
<1>14. Fortune(db, c) \in Nat
  BY <1>1, FortuneIs
<1>15. Total(d) = Total(db) - m.cod
  BY <1>1, <1>8, <1>13, <1>14
<1> QED BY <1>1, <1>3, <1>5, <1>7, <1>8, <1>11, <1>13, <1>15 DEF p

LEMMA TakenBoxes ==
  ASSUME Base, Letters, NEW c \in Char, NEW m \in mem[c].box, NEW i \in m.items,
         NEW l \in TakenInto(mem[c], m, i).box
  PROVE  \E k \in mem[c].box :
           k.id = l.id /\ IF k.id = m.id THEN SameWorth(l, Paid(m)) ELSE SameWorth(l, k)
<1> DEFINE q == TakenInto(mem[c], m, i)
           n == [m EXCEPT !.cod = 0, !.items = @ \ {i}]
<1>1. q.box = (mem[c].box \ {m}) \cup {n} /\ n.id = m.id /\ n.money = m.money /\ n.cod = 0
  BY BaseIs, TakenHas
<1> HIDE DEF q, n
<1>2. CASE l = n
  BY <1>1, <1>2 DEF SameWorth, Paid
<1>3. CASE l \in mem[c].box \ {m}
  <2>1. l.id # m.id
    BY <1>3 DEF Letters, Backed
  <2> QED BY <1>3, <2>1 DEF SameWorth
<1> QED BY <1>1, <1>2, <1>3 DEF q

\* What a save that is queued after Saved(p) carries: nothing.
LEMMA NothingChanged ==
  ASSUME NEW p \in Memory, NEW c, NEW id, NEW q, q = Saved(p)
  PROVE  Faithful(q, c, id)
<1>1. ChangedRows(q) = {}
  BY SavedHas DEF ChangedRows
<1> QED BY <1>1 DEF Faithful

\* An item that could not be paid for: the save leaves the balance as it was.
LEMMA GivenUpBooks ==
  ASSUME Base, Base', Safe, Books, MoneySafe', NEW c \in online, UNCHANGED <<loading, burnt>>,
         nextId' = nextId \/ nextId' = nextId + 1,
         NEW m \in mem[c].box, NEW i \in m.items,
         NEW q, q = Saved(TakenInto(mem[c], m, i)), GivenUp(c), LogoutWith(c, q)
  PROVE  Books'
<1>1. c \in Char /\ mem[c] \in Memory
  BY DEF Base, Types
<1>2. PICK p : p = TakenInto(mem[c], m, i)
  OBVIOUS
<1>3. p \in Memory /\ p.money = mem[c].money
  BY <1>1, <1>2, TakenPurse
<1>4. q = Saved(p) /\ q \in Memory /\ q.money = mem[c].money /\ q.unsaved = 0
  BY <1>2, <1>3, SavedIs, SavedHas
<1>5. mem[c].unsaved = 0 /\ db' = db
  BY <1>1, WholeIs DEF GivenUp
<1>6. Faithful(q, c, 0)
  BY <1>3, <1>4, NothingChanged
<1>7. q.money + q.unsaved = mem[c].money + mem[c].unsaved /\ q.money <= mem[c].money + mem[c].goods
  BY <1>1, <1>4, <1>5 DEF Memory
<1> QED BY <1>4, <1>5, <1>6, <1>7, RolledBackBooks

LEMMA TakeItemBooks ==
  ASSUME Base, Base', Safe, Books, MoneySafe', NEW c \in Char, NEW m, NEW i \in Item, TakeItem(c, m, i)
  PROVE  Books'
<1> DEFINE p == TakenInto(mem[c], m, i)
           d == WithTakenItem(c, p, m, i)
           q == Saved(p)
<1>1. /\ c \in online /\ mem[c] \in Memory /\ mem \in [Char -> Memory] /\ db \in Tables
      /\ m \in mem[c].box /\ i \in m.items /\ m.cod = 0 /\ Letters /\ Prices /\ Balances
      /\ UNCHANGED <<loading, nextId, burnt>> /\ queue \in Seq(Operation)
  BY DEF TakeItem, Base, Types, Safe, Books
<1>2. \/ Commits(c, d, "overtaken") /\ mem' = [mem EXCEPT ![c] = q] /\ UNCHANGED <<queue, online>>
      \/ GivenUp(c) /\ LogoutWith(c, q)
      \/ Commits(c, d, "overtaken") /\ LogoutWith(c, q)
  BY DEF TakeItem
<1>3. Outcome(c)
  BY TakeItemIs DEF Handled
<1>4. p \in Memory /\ p.money = mem[c].money /\ p.goods = mem[c].goods
  BY <1>1, TakenPurse
<1>5. /\ q \in Memory /\ q.money = mem[c].money /\ q.goods = mem[c].goods /\ q.unsaved = 0
      /\ q.box = p.box
  BY <1>4, SavedIs, SavedHas
<1>6. Faithful(q, c, m.id)
  BY <1>4, NothingChanged
<1>7. ASSUME Commits(c, d, "overtaken")
      PROVE  /\ db' = d /\ Idle(queue, c) /\ OnlyOf(c, db, db') /\ Rows(c, m.id, Paid(m), 0)
             /\ db'.money[c] = mem[c].money /\ db'.goods[c] = mem[c].goods
             /\ mem[c].money \in Nat /\ mem[c].goods \in Nat /\ Total(db') + burnt' = Gold
  <2>1. db' = d /\ Idle(queue, c)
    BY <1>7, UntaintedIs DEF Commits
  <2>2. mem[c].money \in Nat /\ m.cod <= mem[c].money
    BY <1>1 DEF Memory
  <2>3. PICK t : t = d
    OBVIOUS
  <2>4. /\ OnlyOf(c, db, t) /\ t.mail = UpdateMails(db.mail, ChangedRows(p))
        /\ t.money[c] = mem[c].money - m.cod /\ t.goods[c] = mem[c].goods
        /\ mem[c].money \in Nat /\ mem[c].goods \in Nat
        /\ Total(db) \in Int /\ Total(t) = Total(db) - m.cod
    BY <1>1, <2>1, <2>2, <2>3, TakenTables
  <2> HIDE DEF d
  <2>5. /\ OnlyOf(c, db, db') /\ db'.mail = UpdateMails(db.mail, ChangedRows(p))
        /\ db'.money[c] = mem[c].money /\ db'.goods[c] = mem[c].goods /\ Total(db') = Total(db)
    BY <1>1, <2>1, <2>3, <2>4
  <2>6. Rows(c, m.id, Paid(m), 0)
    <3>1. \A x \in db'.mail : \E y \in db.mail :
            SameMail(x, y) /\ IF y.id = m.id /\ y.to = c THEN SameWorth(x, Paid(m)) ELSE SameWorth(x, y)
      BY <1>1, <2>5, TakenRows
    <3> QED BY <3>1 DEF Rows
  <2> QED BY <1>1, <2>1, <2>4, <2>5, <2>6 DEF Books, Sum
<1> HIDE DEF d
<1>8. CASE Commits(c, d, "overtaken") /\ mem' = [mem EXCEPT ![c] = q] /\ UNCHANGED <<queue, online>>
  <2>1. mem'[c] = q /\ \A e \in Char : e # c => mem'[e] = mem[e]
    BY <1>1, <1>8
  <2>2. Boxes(c, m.id, Paid(m), 0)
    <3>1. ASSUME NEW e \in Char, NEW l \in mem'[e].box
          PROVE  \E k \in mem[e].box :
                   k.id = l.id /\ IF k.id = m.id /\ e = c THEN SameWorth(l, Paid(m)) ELSE SameWorth(l, k)
      <4>1. CASE e # c
        BY <2>1, <4>1 DEF SameWorth
      <4>2. CASE e = c
        <5>1. l \in TakenInto(mem[c], m, i).box
          BY <1>5, <2>1, <4>2
        <5>2. \E k \in mem[c].box :
                k.id = l.id /\ IF k.id = m.id THEN SameWorth(l, Paid(m)) ELSE SameWorth(l, k)
          BY <1>1, <5>1, TakenBoxes
        <5> QED BY <4>2, <5>2
      <4> QED BY <4>1, <4>2
    <3> QED BY <3>1 DEF Boxes
  <2> HIDE DEF q, p
  <2>3. Balanced(db', queue, TRUE, mem'[c], c)
    <3>1. /\ mem'[c].money + mem'[c].goods = Fortune(db', c)
          /\ mem'[c].money + mem'[c].unsaved = db'.money[c]
      BY <1>5, <1>7, <1>8, <2>1 DEF Fortune
    <3> QED BY <1>1, <1>7, <1>8, <3>1, SinglesAre, IdleBalanced
  <2>4. \A e \in Char : e # c => /\ mem'[e].money = mem[e].money /\ mem'[e].goods = mem[e].goods
                                 /\ mem'[e].unsaved = mem[e].unsaved
    BY <2>1
  <2> QED BY <1>1, <1>3, <1>7, <1>8, <2>2, <2>3, <2>4, StayingBooks
<1>9. CASE GivenUp(c) /\ LogoutWith(c, q)
  BY <1>1, <1>9, GivenUpBooks
<1>10. CASE Commits(c, d, "overtaken") /\ LogoutWith(c, q)
  <2> HIDE DEF q, p
  <2> DEFINE r == [money |-> db'.money[c], goods |-> db'.goods[c], unsaved |-> 0]
  <2>1. r.money = db'.money[c] /\ r.unsaved = 0 /\ r.goods = db'.goods[c]
    OBVIOUS
  <2> HIDE DEF r
  <2>2. Balanced(db', queue, TRUE, r, c)
    <3>1. r.money + r.goods = Fortune(db', c) /\ r.money + r.unsaved = db'.money[c]
      BY <1>7, <1>10, <2>1 DEF Fortune
    <3> QED BY <1>1, <1>7, <1>10, <3>1, SinglesAre, IdleBalanced
  <2>3. q.money + q.unsaved = r.money + r.unsaved /\ q.money <= Fortune(db', c)
    BY <1>5, <1>7, <1>10, <2>1 DEF Fortune
  <2>4. LeavesFrom(c, m.id, r)
    BY <1>5, <1>6, <1>10, <2>3 DEF LeavesFrom
  <2> QED BY <1>1, <1>7, <1>10, <2>2, <2>4, LeavingBooks
<1> QED BY <1>2, <1>8, <1>9, <1>10

-----------------------------------------------------------------------------
(* The queue, applied from one end to the other.                             *)

LEMMA Applied ==
  ASSUME NEW d \in Tables, NEW o \in Operation
  PROVE  Apply(d, o) \in Tables
BY SaveApplied, TurnApplied, ReaddressApplied, DropApplied, OperationIs

\* The queue through, one operation after the other.
Steps(h, d, q) ==
  /\ h \in [0 .. Len(q) -> Tables] /\ h[0] = d
  /\ \A k \in 1 .. Len(q) : h[k] = Apply(h[k - 1], q[k])

Through(d, q) == FoldLeft(Apply, d, q)

LEMMA LastOf ==
  ASSUME NEW k \in Nat \ {0}
  PROVE  Max(1 .. k) = k /\ (1 .. k) \ {k} = 1 .. k - 1
<1>1. \A x \in 1 .. k : (\A y \in 1 .. k : x >= y) <=> x = k
  OBVIOUS
<1>2. k \in 1 .. k
  OBVIOUS
<1>3. Max(1 .. k) = k
  BY <1>1, <1>2 DEF Max
<1>4. (1 .. k) \ {k} = 1 .. k - 1
  OBVIOUS
<1> QED BY <1>3, <1>4

LEMMA LastIn ==
  ASSUME NEW n \in Nat, NEW s \in SUBSET (1 .. n), s # {}
  PROVE  Max(s) \in s
<1> DEFINE T == {n - x : x \in s}
<1>1. \A x \in s : x \in 1 .. n /\ n - x \in Nat
  OBVIOUS
<1>2. T \in SUBSET Nat /\ T # {}
  BY <1>1
<1>3. PICK t \in T : \A u \in T : t <= u
  <2> HIDE DEF T
  <2> QED BY <1>2, LeastOf
<1>4. PICK x \in s : t = n - x
  BY <1>3
<1>5. ASSUME NEW y \in s PROVE x >= y
  <2>1. n - y \in T
    OBVIOUS
  <2>2. n - x <= n - y
    BY <1>3, <1>4, <2>1
  <2> HIDE DEF T
  <2> QED BY <1>1, <2>2
<1> QED BY <1>5 DEF Max

LEMMA Folded ==
  ASSUME NEW d \in Tables, NEW q \in Seq(Operation)
  PROVE  \E h : Steps(h, d, q) /\ Through(d, q) = h[Len(q)]
<1> DEFINE S == DOMAIN q
           pick == [s \in SUBSET S |-> Max(s)]
           step == [z \in S \X Tables |-> Apply(z[2], q[z[1]])]
           Def(g) == g = [s \in SUBSET S |->
                           IF s = {} THEN d ELSE Apply(g[s \ {Max(s)}], q[Max(s)])]
<1>1. Len(q) \in Nat /\ S = 1 .. Len(q) /\ \A k \in S : q[k] \in Operation
  BY LenProperties
<1>2. IsFiniteSet(S)
  BY <1>1, FS_Interval
<1>3. \A s \in SUBSET S : s # {} => Max(s) \in s
  BY <1>1, LastIn
<1>4. /\ step \in [S \X Tables -> Tables] /\ Picks(S, pick)
      /\ \A x \in S, t \in Tables : step[<<x, t>>] = Apply(t, q[x])
      /\ \A s \in SUBSET S : pick[s] = Max(s)
  <2>1. \A z \in S \X Tables : Apply(z[2], q[z[1]]) \in Tables
    BY <1>1, Applied
  <2> QED BY <1>3, <2>1 DEF Picks
<1> HIDE DEF pick, step, S
<1>5. PICK g0 \in [SUBSET S -> Tables] : Iterated(S, d, step, pick, g0)
  BY <1>2, <1>4, Iterates
<1>6. Def(g0)
  <2>1. ASSUME NEW s \in SUBSET S
        PROVE  g0[s] = IF s = {} THEN d ELSE Apply(g0[s \ {Max(s)}], q[Max(s)])
    <3>1. g0[s] = IF s = {} THEN d ELSE step[<<pick[s], g0[s \ {pick[s]}]>>]
      BY <1>5 DEF Iterated
    <3>2. s # {} => Max(s) \in S /\ g0[s \ {Max(s)}] \in Tables
      BY <1>3
    <3> QED BY <1>4, <3>1, <3>2
  <2> QED BY <1>5, <2>1
<1> DEFINE g == CHOOSE g : Def(g)
<1>7. Def(g)
  <2> HIDE DEF Def
  <2> QED BY <1>6
<1>8. Through(d, q) = g[S]
  BY DEF Through, FoldLeft, MapThenFoldSet, S
<1>9. \A s \in SUBSET S : g[s] = IF s = {} THEN d ELSE Apply(g[s \ {Max(s)}], q[Max(s)])
  BY <1>7
<1> HIDE DEF g
<1> DEFINE h == [k \in 0 .. Len(q) |-> g[1 .. k]]
<1>10. g[{}] = d
  BY <1>9
<1>11. ASSUME NEW k \in 1 .. Len(q) PROVE g[1 .. k] = Apply(g[1 .. k - 1], q[k])
  <2>1. k \in Nat \ {0} /\ 1 .. k \in SUBSET S /\ 1 .. k # {}
    BY <1>1
  <2>2. Max(1 .. k) = k /\ (1 .. k) \ {k} = 1 .. k - 1
    BY <2>1, LastOf
  <2>3. g[1 .. k] = Apply(g[(1 .. k) \ {Max(1 .. k)}], q[Max(1 .. k)])
    BY <1>9, <2>1
  <2> QED BY <2>2, <2>3
<1> DEFINE G == {n \in Nat : n <= Len(q) => g[1 .. n] \in Tables}
<1>12. Nat \subseteq G
  <2>1. 0 \in G
    <3>1. 1 .. 0 = {}
      OBVIOUS
    <3> QED BY <1>10, <3>1
  <2>2. ASSUME NEW n \in Nat, n \in G PROVE n + 1 \in G
    <3> SUFFICES ASSUME n + 1 <= Len(q) PROVE g[1 .. n + 1] \in Tables
      OBVIOUS
    <3>1. n + 1 \in 1 .. Len(q) /\ g[1 .. n] \in Tables /\ (n + 1) - 1 = n
      BY <1>1, <2>2
    <3>2. q[n + 1] \in Operation
      BY <1>1, <3>1
    <3>3. g[1 .. n + 1] = Apply(g[1 .. n], q[n + 1])
      BY <1>11, <3>1
    <3> QED BY <3>1, <3>2, <3>3, Applied
  <2> HIDE DEF G
  <2> QED BY <2>1, <2>2, NatSet
<1>13. h \in [0 .. Len(q) -> Tables]
  BY <1>1, <1>12
<1>14. h[0] = d
  <2>1. 1 .. 0 = {}
    OBVIOUS
  <2> QED BY <1>1, <1>10, <2>1
<1>15. \A k \in 1 .. Len(q) : h[k] = Apply(h[k - 1], q[k])
  BY <1>1, <1>11
<1>16. h[Len(q)] = g[S]
  BY <1>1
<1> QED BY <1>8, <1>13, <1>14, <1>15, <1>16 DEF Steps

\* What an operation does to the balance and the goods of c.
LEMMA ApplyPurse ==
  ASSUME NEW d \in Tables, NEW o \in Operation, NEW c \in Char
  PROVE  /\ Apply(d, o).money[c] = IF o.op = "save" /\ o.who = c THEN o.money ELSE d.money[c]
         /\ Apply(d, o).goods[c] =
              IF o.op = "save" /\ o.who = c THEN Restocked(d.goods[c], o.goods) ELSE d.goods[c]
<1>1. CASE o.op = "save"
  <2>1. Apply(d, o) = [d EXCEPT !.money[o.who] = o.money,
                                !.goods[o.who] = Restocked(@, o.goods),
                                !.bag = @ \cup {<<o.who, i>> : i \in o.insert},
                                !.mail = UpdateMails(@, o.mails)]
    BY <1>1 DEF Apply
  <2>2. Apply(d, o).money = [d.money EXCEPT ![o.who] = o.money]
    BY <2>1 DEF Tables
  <2>3. Apply(d, o).goods = [d.goods EXCEPT ![o.who] = Restocked(d.goods[o.who], o.goods)]
    BY <2>1 DEF Tables
  <2>4. d.money \in [Char -> Nat] /\ d.goods \in [Char -> Nat]
    BY DEF Tables
  <2> QED BY <1>1, <2>2, <2>3, <2>4
<1>2. CASE o.op # "save"
  <2>1. Apply(d, o).money = d.money /\ Apply(d, o).goods = d.goods
    <3>1. CASE o.op = "turn"
      <4>1. \E rows : Apply(d, o) = [d EXCEPT !.mail = rows]
        BY <3>1 DEF Apply
      <4> QED BY <4>1 DEF Tables
    <3>2. CASE o.op = "readdress"
      <4>1. \E rows : Apply(d, o) = [d EXCEPT !.att = rows]
        BY <3>2 DEF Apply
      <4> QED BY <4>1 DEF Tables
    <3>3. CASE o.op = "dropItems"
      <4>1. \E att, bag : Apply(d, o) = [d EXCEPT !.att = att, !.bag = bag]
        BY <3>3 DEF Apply
      <4> QED BY <4>1 DEF Tables
    <3>4. CASE o.op = "dropMail"
      <4>1. \E rows : Apply(d, o) = [d EXCEPT !.mail = rows]
        BY <3>4 DEF Apply
      <4> QED BY <4>1 DEF Tables
    <3>5. CASE o.op = "load"
      BY <3>5 DEF Apply
    <3> QED BY <1>2, <3>1, <3>2, <3>3, <3>4, <3>5, OperationIs
  <2> QED BY <1>2, <2>1
<1> QED BY <1>1, <1>2

\* The balance that is stored when the queue is through is where the course of c ends.
Purse(d, c) == d.money[c]
Stock(d, c) == d.goods[c]
EndOf(f, q) == f[Len(q)]

LEMMA FoldedMoney ==
  ASSUME NEW d \in Tables, NEW q \in Seq(Operation), NEW c \in Char,
         NEW w, NEW f, Course(q, Purse(d, c), w, c, f)
  PROVE  Purse(Through(d, q), c) = EndOf(f, q)
<1>1. Len(q) \in Nat /\ \A k \in 1 .. Len(q) : q[k] \in Operation
  BY SeqIs
<1>2. PICK h : Steps(h, d, q) /\ Through(d, q) = h[Len(q)]
  BY Folded
<1> DEFINE G == {n \in Nat : n <= Len(q) => h[n].money[c] = f[n]}
<1>3. 0 \in G
  BY <1>2 DEF Steps, Course, Purse
<1>4. ASSUME NEW n \in Nat, n \in G PROVE n + 1 \in G
  <2> SUFFICES ASSUME n + 1 <= Len(q) PROVE h[n + 1].money[c] = f[n + 1]
    OBVIOUS
  <2>1. PICK k \in 1 .. Len(q) : k = n + 1
    BY <1>1
  <2>2. h[k - 1].money[c] = f[k - 1] /\ k - 1 \in 0 .. Len(q)
    BY <1>1, <1>4, <2>1
  <2>3. h[k - 1] \in Tables /\ h[k] = Apply(h[k - 1], q[k]) /\ q[k] \in Operation
    BY <1>1, <1>2, <2>2 DEF Steps
  <2>4. h[k].money[c] = IF Saving(q, k, c) THEN q[k].money ELSE f[k - 1]
    BY <2>2, <2>3, ApplyPurse DEF Saving
  <2>5. /\ Saving(q, k, c) => f[k] = q[k].money
        /\ ~Saving(q, k, c) => f[k] = f[k - 1]
    BY DEF Course
  <2> QED BY <2>1, <2>4, <2>5
<1>5. Nat \subseteq G
  <2> HIDE DEF G
  <2> QED BY <1>3, <1>4, NatSet
<1>6. h[Len(q)].money[c] = f[Len(q)]
  BY <1>1, <1>5
<1> QED BY <1>2, <1>6 DEF Purse, EndOf

\* A balance that was adopted is the one the queue leads to, unless a hazard is met.
LEMMA AdoptedIs ==
  ASSUME Base, Balances, MoneySafe', NEW c \in online, AdoptingEarly(c) \subseteq tainted'
  PROVE  db.money[c] = mem[c].money + mem[c].unsaved
<1>1. /\ c \in Char /\ db \in Tables /\ queue \in Seq(Operation)
  BY DEF Base, Types
<1>2. PICK f : /\ Course(queue, db.money[c], Fortune(db, c), c, f)
               /\ mem[c].money + mem[c].unsaved = f[Len(queue)]
  BY <1>1 DEF Balances, Balanced
<1>3. Through(db, queue).money[c] = f[Len(queue)]
  <2>1. Course(queue, Purse(db, c), Fortune(db, c), c, f)
    BY <1>2 DEF Purse
  <2>2. Purse(Through(db, queue), c) = EndOf(f, queue)
    BY <1>1, <2>1, FoldedMoney
  <2> QED BY <2>2 DEF Purse, EndOf
<1>4. Through(db, queue).money[c] = db.money[c]
  BY DEF AdoptingEarly, MoneySafe, Through
<1> QED BY <1>2, <1>3, <1>4

LEMMA AdoptingHas ==
  ASSUME NEW p \in Memory, NEW money \in Nat, NEW q, q = Adopting(p, money)
  PROVE  /\ q \in Memory /\ q.money = money /\ q.goods = p.goods /\ q.unsaved = 0 /\ q.box = p.box
         /\ \A c, id : Faithful(q, c, id)
<1> DEFINE o == [p EXCEPT !.money = money]
<1>1. o \in Memory /\ o.money = money /\ o.goods = p.goods /\ o.box = p.box
  BY DEF Memory
<1>2. q = Saved(o)
  BY DEF Adopting
<1> HIDE DEF o
<1> QED BY <1>1, <1>2, SavedIs, SavedHas, NothingChanged

LEMMA BuyItemBooks ==
  ASSUME Base, Base', Safe, Books, MoneySafe', NEW c \in Char, NEW m, NEW i \in Item, BuyItem(c, m, i)
  PROVE  Books'
<1> DEFINE p == TakenInto(mem[c], m, i)
           w == WithTakenItem(c, p, m, i)
           pay == Payment(c, m)
           d == Staged(w, pay, {})
           q == Adopting(p, p.money - m.cod)
           players == [mem EXCEPT ![c] = q]
           a == Adopting(p, db'.money[c])
<1>1. /\ c \in online /\ mem[c] \in Memory /\ mem \in [Char -> Memory] /\ db \in Tables
      /\ m \in mem[c].box /\ i \in m.items /\ m.cod <= mem[c].money
      /\ m \in LetterRow /\ m.cod \in Nat /\ Letters /\ Prices /\ Balances
      /\ UNCHANGED <<loading, burnt>> /\ queue \in Seq(Operation) /\ nextId \in 1 .. MaxMail + 1
      /\ nextId <= MaxMail /\ nextId' = nextId + 1
  BY BaseIs, MailAssumption DEF BuyItem, Base, Types, Safe, Books, LetterRow
<1>2. \/ /\ Commits(c, d, "overtakenSale")
         /\ mem' = Delivered(players, pay, {}) /\ UNCHANGED <<queue, online>>
      \/ GivenUp(c) /\ LogoutWith(c, Saved(p))
      \/ /\ \/ db' = db /\ tainted' = tainted \cup AdoptingEarly(c)
            \/ Commits(c, d, "overtakenSale")
         /\ LogoutWith(c, a) \/ LogoutUnsaved(c)
  BY DEF BuyItem
<1>3. Outcome(c)
  BY BuyItemIs DEF Handled
<1>4. pay \in MailRow /\ pay.id = nextId /\ pay.money = m.cod /\ nextId \in Id
  <2>1. nextId \in Id
    BY <1>1, MailAssumption DEF Id
  <2> QED BY <1>1, <2>1 DEF Payment, MailRow, LetterRow, Kind
<1>5. p \in Memory /\ p.money = mem[c].money /\ p.goods = mem[c].goods
  BY <1>1, TakenPurse
<1>6. mem[c].money \in Nat /\ mem[c].goods \in Nat /\ mem[c].money - m.cod \in Nat
  BY <1>1 DEF Memory
<1>7. /\ q \in Memory /\ q.money = mem[c].money - m.cod /\ q.goods = mem[c].goods /\ q.unsaved = 0
      /\ q.box = TakenInto(mem[c], m, i).box
  <2>1. PICK g \in Nat : g = mem[c].money - m.cod
    BY <1>6
  <2>2. q = Adopting(p, g) /\ p \in Memory
    BY <1>5, <2>1
  <2>3. p.box = TakenInto(mem[c], m, i).box
    OBVIOUS
  <2> HIDE DEF p, q
  <2>4. q \in Memory /\ q.money = g /\ q.goods = p.goods /\ q.unsaved = 0 /\ q.box = p.box
    BY <2>2, AdoptingHas
  <2> QED BY <1>5, <2>1, <2>3, <2>4
<1>8. /\ a \in Memory /\ a.money = db'.money[c] /\ a.unsaved = 0 /\ \A id : Faithful(a, c, id)
  <2>1. db'.money[c] \in Nat
    BY SinglesAre, FortuneIs
  <2> QED BY <1>5, <2>1, AdoptingHas
<1> HIDE DEF pay, q, a
<1>9. ASSUME Commits(c, d, "overtakenSale")
      PROVE  /\ db' = d /\ Idle(queue, c) /\ OnlyOf(c, db, db') /\ Rows(c, m.id, Paid(m), pay)
             /\ db'.money[c] = mem[c].money - m.cod /\ db'.goods[c] = mem[c].goods
             /\ Total(db') + burnt' = Gold
  <2>1. db' = d /\ Idle(queue, c)
    BY <1>9, UntaintedIs DEF Commits
  <2>2. PICK t : t = w
    OBVIOUS
  <2>3. /\ t \in Tables /\ Single(t.mail) /\ OnlyOf(c, db, t)
        /\ t.mail = UpdateMails(db.mail, ChangedRows(TakenInto(mem[c], m, i)))
        /\ t.money[c] = mem[c].money - m.cod /\ t.goods[c] = mem[c].goods
        /\ Total(db) \in Int /\ Total(t) = Total(db) - m.cod
    BY <1>1, <2>1, <2>2, TakenTables
  <2>4. db' = Staged(t, pay, {})
    BY <2>1, <2>2
  <2> HIDE DEF w, d, p
  <2>5. {} \in SUBSET Item
    OBVIOUS
  <2>6. db'.money = t.money /\ db'.mail = t.mail \cup {pay} /\ db'.goods = t.goods
    <3>1. db'.money = t.money /\ db'.mail = t.mail \cup {pay}
      BY <1>4, <2>3, <2>4, <2>5, StagedIs
    <3>2. db'.goods = t.goods
      BY <2>3, <2>4 DEF Staged, Tables
    <3> QED BY <3>1, <3>2
  <2>7. OnlyOf(c, db, db') /\ OnlyOf(c, t, db') /\ Fortune(db', c) = Fortune(t, c)
    BY <2>3, <2>6 DEF OnlyOf, Fortune
  <2>8. \A x \in t.mail : \E y \in db.mail :
          SameMail(x, y) /\ IF y.id = m.id /\ y.to = c THEN SameWorth(x, Paid(m)) ELSE SameWorth(x, y)
    BY <1>1, <2>3, TakenRows
  <2>9. Rows(c, m.id, Paid(m), pay)
    <3>1. nextId' # nextId /\ SameWorth(pay, pay)
      BY <1>1 DEF SameWorth
    <3> QED BY <1>4, <2>6, <2>8, <3>1 DEF Rows
  <2>10. \A x \in t.mail : x.id # pay.id
    <3>1. \A x \in t.mail : \E y \in db.mail : SameMail(x, y)
      BY <2>8
    <3> QED BY <1>4, <3>1, BaseIs DEF SameMail
  <2>11. Total(db') = Total(t) - Fortune(t, c) + Fortune(db', c) + pay.money /\ Total(t) \in Int
    <3>1. Posting(t, db', c, pay)
      BY <1>4, <2>3, <2>6, <2>7, <2>10, SinglesAre DEF Posting
    <3> QED BY <3>1, PostedTotal
  <2>12. Fortune(t, c) \in Nat
    BY <2>3, FortuneIs
  <2>13. Total(db') = Total(db)
    BY <1>1, <1>4, <2>3, <2>7, <2>11, <2>12
  <2> QED BY <1>1, <2>1, <2>3, <2>6, <2>7, <2>9, <2>13 DEF Books, Sum
<1> HIDE DEF d, w
<1>10. CASE /\ Commits(c, d, "overtakenSale")
            /\ mem' = Delivered(players, pay, {}) /\ UNCHANGED <<queue, online>>
  <2>1. players \in [Char -> Memory] /\ players[c] = q /\ \A e \in Char : e # c => players[e] = mem[e]
    BY <1>1, <1>7
  <2> HIDE DEF players
  <2>2. ASSUME NEW e \in Char
        PROVE  /\ mem'[e].money = players[e].money /\ mem'[e].goods = players[e].goods
               /\ mem'[e].unsaved = players[e].unsaved
               /\ \A l \in mem'[e].box : l \in players[e].box \/ (l.id = pay.id /\ SameWorth(l, pay))
    <3>1. {} \in SUBSET Item
      OBVIOUS
    <3> QED BY <1>4, <1>10, <2>1, <3>1, DeliveredWorth
  <2>3. Boxes(c, m.id, Paid(m), pay)
    <3>1. ASSUME NEW e \in Char, NEW l \in players[e].box
          PROVE  \E k \in mem[e].box :
                   k.id = l.id /\ IF k.id = m.id /\ e = c THEN SameWorth(l, Paid(m)) ELSE SameWorth(l, k)
      <4>1. CASE e # c
        BY <2>1, <3>1, <4>1 DEF SameWorth
      <4>2. CASE e = c
        <5>1. l \in TakenInto(mem[c], m, i).box
          BY <1>7, <2>1, <3>1, <4>2
        <5>2. \E k \in mem[c].box :
                k.id = l.id /\ IF k.id = m.id THEN SameWorth(l, Paid(m)) ELSE SameWorth(l, k)
          BY <1>1, <5>1, TakenBoxes
        <5> QED BY <4>2, <5>2
      <4> QED BY <4>1, <4>2
    <3>2. nextId' # nextId
      BY <1>1
    <3> QED BY <1>4, <2>2, <3>1, <3>2 DEF Boxes
  <2>4. Balanced(db', queue, TRUE, mem'[c], c)
    <3>1. /\ mem'[c].money + mem'[c].goods = Fortune(db', c)
          /\ mem'[c].money + mem'[c].unsaved = db'.money[c]
      BY <1>6, <1>7, <1>9, <1>10, <2>1, <2>2 DEF Fortune
    <3> QED BY <1>1, <1>9, <1>10, <3>1, SinglesAre, IdleBalanced
  <2>5. \A e \in Char : e # c => /\ mem'[e].money = mem[e].money /\ mem'[e].goods = mem[e].goods
                                 /\ mem'[e].unsaved = mem[e].unsaved
    BY <2>1, <2>2
  <2> QED BY <1>1, <1>3, <1>9, <1>10, <2>3, <2>4, <2>5, StayingBooks
<1>11. CASE GivenUp(c) /\ LogoutWith(c, Saved(p))
  BY <1>1, <1>11, GivenUpBooks
<1>12. CASE /\ db' = db /\ tainted' = tainted \cup AdoptingEarly(c)
            /\ LogoutWith(c, a) \/ LogoutUnsaved(c)
  <2>1. db.money[c] = mem[c].money + mem[c].unsaved
    BY <1>1, <1>12, AdoptedIs
  <2>2. db.money[c] <= mem[c].money + mem[c].goods
    <3>1. mem[c].money + mem[c].goods = Fortune(db, c)
      BY <1>1 DEF Balances, Balanced
    <3>2. db.money[c] <= Fortune(db, c)
      BY <1>1, FortuneIs DEF Fortune
    <3> QED BY <3>1, <3>2
  <2>3. a.money + a.unsaved = mem[c].money + mem[c].unsaved /\ a.money <= mem[c].money + mem[c].goods
    <3>1. db.money[c] \in Nat
      BY <1>1, FortuneIs
    <3> QED BY <1>8, <1>12, <2>1, <2>2, <3>1
  <2> QED BY <1>1, <1>8, <1>12, <2>3, RolledBackBooks
<1>13. CASE Commits(c, d, "overtakenSale") /\ (LogoutWith(c, a) \/ LogoutUnsaved(c))
  <2> DEFINE r == [money |-> db'.money[c], goods |-> db'.goods[c], unsaved |-> 0]
  <2>1. r.money = db'.money[c] /\ r.unsaved = 0 /\ r.goods = db'.goods[c]
    OBVIOUS
  <2> HIDE DEF r
  <2>2. db'.money[c] \in Nat /\ db'.goods[c] \in Nat /\ Fortune(db', c) = db'.money[c] + db'.goods[c]
    BY SinglesAre, FortuneIs DEF Fortune
  <2>3. Balanced(db', queue, TRUE, r, c)
    <3>1. r.money + r.goods = Fortune(db', c) /\ r.money + r.unsaved = db'.money[c]
      BY <2>1, <2>2
    <3> QED BY <1>1, <1>9, <1>13, <3>1, SinglesAre, IdleBalanced
  <2>4. a.money + a.unsaved = r.money + r.unsaved /\ a.money <= Fortune(db', c)
    BY <1>8, <2>1, <2>2
  <2>5. LeavesFrom(c, m.id, r)
    BY <1>8, <1>13, <2>4 DEF LeavesFrom
  <2> QED BY <1>1, <1>9, <1>13, <2>3, <2>5, LeavingBooks
<1> QED BY <1>2, <1>10, <1>11, <1>12, <1>13

-----------------------------------------------------------------------------
(* Logins, expiries, items that are found, and the end of the server.        *)

\* What is queued without being a save changes no balance.
LEMMA QueuedBooks ==
  ASSUME Base, Base', Books, UNCHANGED <<db, online, mem, loading, nextId, burnt>>,
         \A k \in DOMAIN queue : k \in DOMAIN queue' /\ queue'[k] = queue[k],
         \A k \in DOMAIN queue' : k \notin DOMAIN queue => queue'[k].op # "save"
  PROVE  Books'
<1>1. /\ db \in Tables /\ queue \in Seq(Operation) /\ queue' \in Seq(Operation)
      /\ Len(queue) \in Nat /\ DOMAIN queue = 1 .. Len(queue)
      /\ Len(queue') \in Nat /\ DOMAIN queue' = 1 .. Len(queue')
  BY SeqIs DEF Base, Types
<1>2. Len(queue) <= Len(queue')
  <2>1. CASE Len(queue) = 0
    BY <1>1, <2>1
  <2>2. CASE Len(queue) # 0
    <3>1. Len(queue) \in DOMAIN queue'
      BY <1>1, <2>2
    <3> QED BY <1>1, <3>1
  <2> QED BY <2>1, <2>2
<1>3. \A k \in DOMAIN queue', e \in Char :
        Saving(queue', k, e) => k \in DOMAIN queue /\ Saving(queue, k, e)
  BY DEF Saving
<1>4. ASSUME NEW e \in Char PROVE Balanced(db', queue', e \in online', mem'[e], e)
  <2>1. GoesOn(queue, queue', e)
    <3>1. \A k \in 1 .. Len(queue) : queue'[k] = queue[k]
      BY <1>1
    <3>2. ASSUME NEW k \in Len(queue) + 1 .. Len(queue') PROVE ~Saving(queue', k, e)
      <4>1. k \in DOMAIN queue' /\ k \notin DOMAIN queue
        BY <1>1
      <4> QED BY <4>1 DEF Saving
    <3> QED BY <1>2, <3>1, <3>2 DEF GoesOn
  <2>2. Balanced(db, queue, e \in online, mem[e], e)
    BY DEF Books, Balances
  <2> QED BY <1>1, <2>1, <2>2, OtherBalanced
<1>5. ASSUME NEW e \in Char PROVE Fetched(db', queue', loading'[e], e)
  <2>1. Fetched(db, queue, loading[e], e)
    BY DEF Books, Answers
  <2>2. Idle(queue, e) => Idle(queue', e)
    BY <1>3 DEF Idle
  <2>3. ASSUME NEW j \in DOMAIN queue', NEW k \in DOMAIN queue',
               queue'[j].op = "load", queue'[j].who = e, Saving(queue', k, e)
        PROVE  k < j
    <3>1. k \in DOMAIN queue /\ Saving(queue, k, e)
      BY <1>3, <2>3
    <3>2. CASE j \in DOMAIN queue
      BY <2>1, <2>3, <3>1, <3>2 DEF Fetched
    <3>3. CASE j \notin DOMAIN queue
      BY <1>1, <3>1, <3>3
    <3> QED BY <3>2, <3>3
  <2> QED BY <2>1, <2>2, <2>3 DEF Fetched
<1>6. Prices'
  BY DEF Books, Prices
<1>7. Rewriting'
  <2> SUFFICES ASSUME NEW k \in DOMAIN queue', queue'[k].op = "save", NEW u \in queue'[k].mails
               PROVE  /\ u.id < nextId'
                      /\ \A x \in db'.mail : x.id = u.id => x.to = queue'[k].who /\ SameWorth(x, u)
                      /\ \A j \in DOMAIN queue' : j < k => ~(queue'[j].op = "turn" /\ queue'[j].id = u.id)
    BY DEF Rewriting, Rewrites
  <2>1. k \in DOMAIN queue /\ queue'[k] = queue[k]
    OBVIOUS
  <2>2. \A j \in DOMAIN queue' : j < k => j \in DOMAIN queue /\ queue'[j] = queue[j]
    BY <1>1, <2>1
  <2> QED BY <2>1, <2>2 DEF Books, Rewriting, Rewrites
<1>8. Sum'
  BY DEF Books, Sum
<1> QED BY <1>4, <1>5, <1>6, <1>7, <1>8 DEF Books, Balances, Answers

LEMMA LoginBooks ==
  ASSUME Base, Base', Books, NEW c \in Char, Login(c)
  PROVE  Books'
<1> DEFINE o == [op |-> "load", who |-> c]
<1>1. /\ queue' = Append(queue, o) /\ Types
      /\ UNCHANGED <<db, online, mem, loading, nextId, burnt>>
  BY DEF Login, Base
<1>2. o \in Operation /\ o.op = "load"
  BY DEF Operation
<1> HIDE DEF o
<1>3. /\ \A k \in DOMAIN queue : k \in DOMAIN queue' /\ queue'[k] = queue[k]
      /\ \A k \in DOMAIN queue' : k \notin DOMAIN queue => queue'[k] = o
  BY <1>1, <1>2, Appended
<1> QED BY <1>1, <1>2, <1>3, QueuedBooks

LEMMA ExpireBooks ==
  ASSUME Base, Base', Books, NEW m \in db.mail, Expire(m)
  PROVE  Books'
<1>1. UNCHANGED <<db, online, mem, loading, nextId, burnt>>
  BY DEF Expire
<1>2. /\ \A k \in DOMAIN queue : k \in DOMAIN queue' /\ queue'[k] = queue[k]
      /\ \A k \in DOMAIN queue' : k \notin DOMAIN queue => queue'[k].op # "save"
  BY ExpireQueue
<1> QED BY <1>1, <1>2, QueuedBooks

\* The purse that a login brings is the one that is stored.
LEMMA EnterWorldBooks ==
  ASSUME Base, Base', Books, NEW c \in Char, EnterWorld(c)
  PROVE  Books'
<1>1. /\ loading[c] # <<>> /\ online' = online \cup {c}
      /\ UNCHANGED <<db, queue, nextId, burnt>>
      /\ mem \in [Char -> Memory] /\ loading[c][1] \in Memory
      /\ loading \in [Char -> {<<>>} \cup {<<p>> : p \in Memory}]
      /\ db \in Tables /\ queue \in Seq(Operation)
  BY BaseIs DEF EnterWorld, Types
<1>2. /\ \A e \in Char : mem'[e] = IF e = c THEN loading[c][1] ELSE mem[e]
      /\ \A e \in Char : loading'[e] = IF e = c THEN <<>> ELSE loading[e]
  BY <1>1 DEF EnterWorld
<1>3. ASSUME NEW e \in Char PROVE Balanced(db', queue', e \in online', mem'[e], e)
  <2>1. CASE e = c
    <3>1. PICK p : p = loading[c][1]
      OBVIOUS
    <3>2. Idle(queue, c) /\ p.money = db.money[c] /\ p.goods = db.goods[c] /\ p.unsaved = 0
      BY <1>1, <3>1 DEF Books, Answers, Fetched
    <3>3. p.money + p.goods = Fortune(db, c) /\ p.money + p.unsaved = db.money[c]
      BY <1>1, <3>2, FortuneIs DEF Fortune
    <3>4. Balanced(db, queue, c \in online', p, c)
      BY <1>1, <3>2, <3>3, IdleBalanced
    <3> QED BY <1>1, <1>2, <2>1, <3>1, <3>4
  <2>2. CASE e # c
    BY <1>1, <1>2, <2>2 DEF Books, Balances
  <2> QED BY <2>1, <2>2
<1>4. Answers'
  BY <1>1, <1>2 DEF Books, Answers, Fetched
<1>5. Prices'
  BY <1>1, <1>2 DEF Books, Prices
<1>6. Rewriting' /\ Sum'
  BY <1>1 DEF Books, Rewriting, Sum
<1> QED BY <1>3, <1>4, <1>5, <1>6 DEF Books, Balances

LEMMA ObtainBooks ==
  ASSUME Base, Books, NEW c \in Char, NEW i \in Item, Obtain(c, i)
  PROVE  Books'
<1>1. /\ UNCHANGED <<db, queue, online, loading, nextId, burnt>>
      /\ mem \in [Char -> Memory] /\ mem[c] \in Memory
  BY DEF Obtain, Base, Types
<1> DEFINE p == [mem[c] EXCEPT !.bag = @ \cup {i}, !.fresh = @ \cup {i}]
<1>2. mem' = [mem EXCEPT ![c] = p]
  BY DEF Obtain
<1>3. /\ p.money = mem[c].money /\ p.goods = mem[c].goods /\ p.unsaved = mem[c].unsaved
      /\ p.box = mem[c].box
  BY <1>1 DEF Memory
<1> HIDE DEF p
<1>4. \A e \in Char : /\ mem'[e].money = mem[e].money /\ mem'[e].goods = mem[e].goods
                      /\ mem'[e].unsaved = mem[e].unsaved /\ mem'[e].box = mem[e].box
  BY <1>1, <1>2, <1>3
<1>5. Balances'
  BY <1>1, <1>4 DEF Books, Balances, Balanced
<1>6. Prices'
  BY <1>1, <1>4 DEF Books, Prices
<1>7. Answers' /\ Rewriting' /\ Sum'
  BY <1>1 DEF Books, Answers, Rewriting, Sum
<1> QED BY <1>5, <1>6, <1>7 DEF Books

LEMMA CrashBooks ==
  ASSUME Base, Base', Books, Crash
  PROVE  Books'
<1>1. /\ online' = {} /\ queue' = <<>> /\ UNCHANGED <<db, nextId, burnt>>
      /\ db \in Tables /\ queue' \in Seq(Operation)
  BY DEF Crash, Base, Types
<1>2. DOMAIN queue' = {}
  BY <1>1, EmptySeq
<1>3. \A c \in Char : mem'[c] = Offline /\ loading'[c] = <<>>
  BY DEF Crash
<1>4. ASSUME NEW c \in Char PROVE Balanced(db', queue', c \in online', mem'[c], c)
  <2>1. Idle(queue', c)
    BY <1>2 DEF Idle
  <2> QED BY <1>1, <2>1, IdleBalanced
<1>5. Answers'
  BY <1>2, <1>3 DEF Answers, Fetched
<1>6. Prices'
  BY <1>3, OfflineIs DEF Prices, Priced
<1>7. Rewriting'
  BY <1>2 DEF Rewriting, Rewrites
<1>8. Sum'
  BY <1>1 DEF Books, Sum
<1> QED BY <1>4, <1>5, <1>6, <1>7, <1>8 DEF Books, Balances

-----------------------------------------------------------------------------
(* The delay thread: money and prices.                                       *)

\* A mail on its way back keeps its money.
LEMMA TurnWorth ==
  ASSUME NEW d \in Tables, NEW o \in Operation, o.op = "turn"
  PROVE  \A x \in Apply(d, o).mail : \E y \in d.mail :
           x.id = y.id /\ x.money = y.money /\ (y.id = o.id \/ x = y)
<1> DEFINE f(x) == IF x.id = o.id
                   THEN [x EXCEPT !.from = x.to, !.to = x.from, !.cod = 0, !.kind = "returned", !.read = FALSE]
                   ELSE x
           rows == {f(x) : x \in d.mail}
<1>1. ASSUME NEW x \in d.mail
      PROVE  f(x).id = x.id /\ f(x).money = x.money /\ (x.id = o.id \/ f(x) = x)
  <2>1. x \in MailRow
    BY DEF Tables
  <2> QED BY <2>1 DEF MailRow
<1>2. Apply(d, o) = [d EXCEPT !.mail = rows]
  BY DEF Apply
<1> HIDE DEF f
<1>3. \A x \in rows : \E y \in d.mail : x = f(y)
  OBVIOUS
<1> HIDE DEF rows
<1>4. Apply(d, o).mail = rows
  BY <1>2 DEF Tables
<1> QED BY <1>1, <1>3, <1>4

\* What an operation leaves of the mails: all but the one that is dropped, with what they
\* hold; a mail that turns back is free of its price.
LeftOf(o, x, y) ==
  /\ x.id = y.id /\ x.money = y.money
  /\ (o.op = "turn" /\ y.id = o.id) \/ (SameMail(x, y) /\ SameWorth(x, y))

Leaves(o) ==
  /\ \A x \in db'.mail : \E y \in db.mail : LeftOf(o, x, y)
  /\ \A y \in db.mail : (o.op = "dropMail" /\ y.id = o.id) \/ \E x \in db'.mail : x.id = y.id

LEMMA LeftAsItWas ==
  ASSUME NEW o, db'.mail = db.mail
  PROVE  Leaves(o)
BY DEF Leaves, LeftOf, SameMail, SameWorth

LEMMA ExecuteLeaves ==
  ASSUME Base, Books, Execute, NEW o, o = queue[1]
  PROVE  Leaves(o)
<1>1. /\ o \in Operation /\ db \in Tables /\ 1 \in DOMAIN queue
      /\ db' = Apply(db, o) \/ db' = db
  BY ExecuteIs
<1>2. CASE db' = db
  BY <1>2, LeftAsItWas
<1>3. CASE db' = Apply(db, o) /\ o.op = "save"
  <2>1. /\ o.mails \in SUBSET MailRow /\ db.mail \in SUBSET MailRow
        /\ db'.mail = UpdateMails(db.mail, o.mails)
    BY <1>1, <1>3, SaveApplied, OperationIs DEF Tables
  <2>2. ASSUME NEW u \in o.mails, NEW y \in db.mail, y.id = u.id PROVE SameWorth(y, u)
    BY <1>1, <1>3, <2>2 DEF Books, Rewriting, Rewrites
  <2>3. ASSUME NEW x \in db'.mail PROVE \E y \in db.mail : LeftOf(o, x, y)
    <3>1. PICK y \in db.mail :
            /\ SameMail(x, y)
            /\ \/ SameWorth(x, y)
               \/ \E u \in o.mails : u.id = y.id /\ SameWorth(x, u)
      BY <2>1, UpdateWorth
    <3>2. SameWorth(x, y)
      BY <2>2, <3>1 DEF SameWorth
    <3> QED BY <3>1, <3>2 DEF LeftOf, SameMail, SameWorth
  <2>4. \A y \in db.mail : \E x \in db'.mail : x.id = y.id
    BY <2>1, UpdateWorth DEF SameMail
  <2> QED BY <2>3, <2>4 DEF Leaves
<1>4. CASE db' = Apply(db, o) /\ o.op = "turn"
  <2>1. ASSUME NEW x \in db'.mail PROVE \E y \in db.mail : LeftOf(o, x, y)
    <3>1. PICK y \in db.mail : x.id = y.id /\ x.money = y.money /\ (y.id = o.id \/ x = y)
      BY <1>1, <1>4, TurnWorth
    <3> QED BY <1>4, <3>1 DEF LeftOf, SameMail, SameWorth
  <2>2. \A y \in db.mail : \E x \in db'.mail : x.id = y.id
    BY <1>1, <1>4, TurnApplied
  <2> QED BY <2>1, <2>2 DEF Leaves
<1>5. CASE db' = Apply(db, o) /\ o.op \in {"readdress", "dropItems", "load"}
  <2>1. db'.mail = db.mail
    BY <1>1, <1>5, ReaddressApplied, DropApplied
  <2> QED BY <2>1, LeftAsItWas
<1>6. CASE db' = Apply(db, o) /\ o.op = "dropMail"
  <2>1. db'.mail = {x \in db.mail : x.id # o.id}
    BY <1>1, <1>6, DropApplied
  <2> QED BY <1>6, <2>1 DEF Leaves, LeftOf, SameMail, SameWorth
<1> QED BY <1>1, <1>2, <1>3, <1>4, <1>5, <1>6, OperationIs

\* The letters a login reads carry the money and the price of their rows.
LEMMA LoadPriced ==
  ASSUME Base, NEW c \in Char
  PROVE  Priced(db.mail, LoadFromDB(db, c).box)
<1> DEFINE items(x) == {a.item : a \in {y \in Attached(db, x.id) : y.to = c}}
<1>1. LoadFromDB(db, c).box = {Letter(x, items(x)) : x \in {y \in db.mail : y.to = c}}
  BY DEF LoadFromDB
<1> HIDE DEF items
<1>2. ASSUME NEW l \in LoadFromDB(db, c).box, NEW x \in db.mail, x.id = l.id PROVE SameWorth(x, l)
  <2>1. PICK y \in db.mail : l = Letter(y, items(y))
    BY <1>1
  <2>2. l.id = y.id /\ l.money = y.money /\ l.cod = y.cod
    BY <2>1 DEF Letter
  <2>3. x = y
    BY <1>2, <2>2 DEF Base, Numbered
  <2> QED BY <2>2, <2>3 DEF SameWorth
<1> QED BY <1>2 DEF Priced

LEMMA ExecutePrices ==
  ASSUME Base, Safe, Books, Execute
  PROVE  Prices'
<1>1. PICK o : o = queue[1]
  OBVIOUS
<1>2. /\ o \in Operation /\ db \in Tables /\ 1 \in DOMAIN queue /\ mem' = mem
      /\ o.op # "load" => loading' = loading
      /\ o.op = "load" => db' = db
  <2>1. /\ o \in Operation /\ db \in Tables /\ 1 \in DOMAIN queue /\ mem' = mem
        /\ db' = Apply(db, o) \/ (o.op = "save" /\ db' = db)
        /\ o.op # "load" => loading' = loading
    BY <1>1, ExecuteIs
  <2> QED BY <2>1, DropApplied
<1>3. Leaves(o)
  BY <1>1, ExecuteLeaves
<1>4. ASSUME NEW box, Priced(db.mail, box), o.op = "turn" => \A n \in box : n.id # o.id
      PROVE  Priced(db'.mail, box)
  <2> SUFFICES ASSUME NEW n \in box, NEW x \in db'.mail, x.id = n.id PROVE SameWorth(x, n)
    BY DEF Priced
  <2>1. PICK y \in db.mail : LeftOf(o, x, y)
    BY <1>3 DEF Leaves
  <2>2. SameWorth(x, y) /\ y.id = n.id
    BY <1>4, <2>1 DEF LeftOf
  <2>3. SameWorth(y, n)
    BY <1>4, <2>2 DEF Priced
  <2> QED BY <2>2, <2>3 DEF SameWorth
<1>5. o.op = "turn" => NoLetter(o.id)
  BY <1>1, <1>2 DEF Safe, Expiries, Turning, NotRead
<1>6. ASSUME NEW e \in Char PROVE Priced(db'.mail, mem'[e].box)
  <2>1. Priced(db.mail, mem[e].box)
    BY DEF Books, Prices
  <2>2. o.op = "turn" => \A n \in mem[e].box : n.id # o.id
    BY <1>5 DEF NoLetter
  <2> QED BY <1>2, <1>4, <2>1, <2>2
<1>7. ASSUME NEW e \in Char, loading'[e] # <<>> PROVE Priced(db'.mail, loading'[e][1].box)
  <2>1. CASE o.op # "load"
    <3>1. loading[e] # <<>> /\ loading'[e] = loading[e]
      BY <1>2, <1>7, <2>1
    <3>2. Priced(db.mail, loading[e][1].box)
      BY <3>1 DEF Books, Prices
    <3>3. o.op = "turn" => \A n \in loading[e][1].box : n.id # o.id
      BY <1>5, <3>1 DEF NoLetter
    <3> QED BY <1>4, <3>1, <3>2, <3>3
  <2>2. CASE o.op = "load"
    <3>1. /\ loading' = [loading EXCEPT ![o.who] = <<LoadFromDB(db, o.who)>>] /\ o.who \in Char
          /\ loading \in [Char -> {<<>>} \cup {<<p>> : p \in Memory}] /\ db' = db
      <4>1. Head(queue) = o
        BY <1>1, ExecuteIs
      <4> QED BY <1>2, <2>2, <4>1, OperationIs DEF Execute, Base, Types
    <3>2. CASE e = o.who
      <4>1. loading'[e][1] = LoadFromDB(db, e)
        BY <3>1, <3>2
      <4> QED BY <3>1, <4>1, LoadPriced
    <3>3. CASE e # o.who
      BY <1>7, <3>1, <3>3 DEF Books, Prices
    <3> QED BY <3>2, <3>3
  <2> QED BY <2>1, <2>2
<1> QED BY <1>6, <1>7 DEF Prices

LEMMA ExecuteRewriting ==
  ASSUME Base, Books, Execute
  PROVE  Rewriting'
<1>1. PICK o : o = queue[1]
  OBVIOUS
<1>2. /\ 1 \in DOMAIN queue /\ nextId' = nextId
      /\ \A k \in DOMAIN queue' : k + 1 \in DOMAIN queue /\ queue'[k] = queue[k + 1]
      /\ queue \in Seq(Operation) /\ queue' \in Seq(Operation)
      /\ Leaves(o)
  BY <1>1, ExecuteIs, ExecuteLeaves, ExecuteBase DEF Base, Types
<1>3. \A k \in DOMAIN queue' : k \in Nat \ {0}
  BY <1>2, SeqIs
<1> SUFFICES ASSUME NEW k \in DOMAIN queue', queue'[k].op = "save", NEW u \in queue'[k].mails
             PROVE  /\ u.id < nextId'
                    /\ \A x \in db'.mail : x.id = u.id => x.to = queue'[k].who /\ SameWorth(x, u)
                    /\ \A j \in DOMAIN queue' : j < k => ~(queue'[j].op = "turn" /\ queue'[j].id = u.id)
  BY DEF Rewriting, Rewrites
<1>4. PICK n \in DOMAIN queue : n = k + 1 /\ queue'[k] = queue[n]
  BY <1>2
<1>5. /\ u.id < nextId
      /\ \A y \in db.mail : y.id = u.id => y.to = queue[n].who /\ SameWorth(y, u)
      /\ \A j \in DOMAIN queue : j < n => ~(queue[j].op = "turn" /\ queue[j].id = u.id)
  BY <1>4 DEF Books, Rewriting, Rewrites
<1>6. ASSUME NEW x \in db'.mail, x.id = u.id PROVE x.to = queue'[k].who /\ SameWorth(x, u)
  <2>1. PICK y \in db.mail : LeftOf(o, x, y)
    BY <1>2 DEF Leaves
  <2>2. ~(o.op = "turn" /\ o.id = u.id)
    BY <1>1, <1>2, <1>3, <1>4, <1>5
  <2>3. SameMail(x, y) /\ SameWorth(x, y) /\ y.id = u.id
    BY <1>6, <2>1, <2>2 DEF LeftOf
  <2> QED BY <1>4, <1>5, <2>3 DEF SameMail, SameWorth
<1>7. ASSUME NEW j \in DOMAIN queue', j < k PROVE ~(queue'[j].op = "turn" /\ queue'[j].id = u.id)
  <2>1. j + 1 \in DOMAIN queue /\ queue'[j] = queue[j + 1] /\ j + 1 < n
    BY <1>2, <1>3, <1>4, <1>7
  <2> QED BY <1>5, <2>1
<1> QED BY <1>2, <1>5, <1>6, <1>7

\* Only a save of e, and only if it does not fail, changes what e has.
LEMMA ExecutePurse ==
  ASSUME Base, Execute, MoneySafe', NEW o, o = queue[1], NEW e \in Char
  PROVE  /\ ~Saving(queue, 1, e) => db'.money[e] = db.money[e] /\ db'.goods[e] = db.goods[e]
         /\ Saving(queue, 1, e) =>
              \/ db'.money[e] = o.money /\ db'.goods[e] = Restocked(db.goods[e], o.goods)
              \/ db'.money[e] = db.money[e] /\ db'.goods[e] = db.goods[e] /\ o.goods = 0
<1>1. /\ o \in Operation /\ db \in Tables /\ Head(queue) = o
      /\ db' = Apply(db, o) \/ (o.op = "save" /\ db' = db)
  BY ExecuteIs
<1>2. CASE db' = Apply(db, o)
  BY <1>1, <1>2, ApplyPurse DEF Saving
<1>3. CASE db' = db /\ db' # Apply(db, o)
  <2>1. tainted' = tainted \cup (IF o.goods # 0 THEN {"split"} ELSE {})
    BY <1>1, <1>3 DEF Execute
  <2>2. o.goods = 0
    BY <2>1 DEF MoneySafe
  <2> QED BY <1>3, <2>2
<1> QED BY <1>1, <1>2, <1>3

LEMMA ExecuteAnswers ==
  ASSUME Base, Books, Execute, MoneySafe'
  PROVE  Answers'
<1>1. PICK o : o = queue[1]
  OBVIOUS
<1>2. /\ 1 \in DOMAIN queue /\ o \in Operation /\ db \in Tables /\ Head(queue) = o
      /\ \A k \in DOMAIN queue' : k + 1 \in DOMAIN queue /\ queue'[k] = queue[k + 1]
      /\ queue \in Seq(Operation) /\ queue' \in Seq(Operation)
      /\ o.op # "load" => loading' = loading
  BY <1>1, ExecuteIs, ExecuteBase DEF Base, Types
<1>3. \A k \in DOMAIN queue' : k \in Nat \ {0}
  BY <1>2, SeqIs
<1> SUFFICES ASSUME NEW e \in Char PROVE Fetched(db', queue', loading'[e], e)
  BY DEF Answers
<1>4. Fetched(db, queue, loading[e], e)
  BY DEF Books, Answers
<1>5. \A k \in DOMAIN queue' : Saving(queue', k, e) => k + 1 \in DOMAIN queue /\ Saving(queue, k + 1, e)
  BY <1>2 DEF Saving
<1>6. Idle(queue, e) => Idle(queue', e)
  BY <1>5 DEF Idle
<1>7. ASSUME NEW j \in DOMAIN queue', NEW k \in DOMAIN queue',
             queue'[j].op = "load", queue'[j].who = e, Saving(queue', k, e)
      PROVE  k < j
  <2>1. PICK a \in DOMAIN queue : a = j + 1 /\ queue[a] = queue'[j]
    BY <1>2
  <2>2. PICK b \in DOMAIN queue : b = k + 1 /\ Saving(queue, b, e)
    BY <1>5, <1>7
  <2>3. b < a
    BY <1>4, <1>7, <2>1, <2>2 DEF Fetched
  <2> QED BY <1>3, <2>1, <2>2, <2>3
<1>8. ASSUME loading'[e] # <<>>
      PROVE  /\ loading'[e][1].money = db'.money[e] /\ loading'[e][1].goods = db'.goods[e]
             /\ loading'[e][1].unsaved = 0 /\ Idle(queue', e)
  <2>1. CASE o.op = "load" /\ o.who = e
    <3>1. loading' = [loading EXCEPT ![e] = <<LoadFromDB(db, e)>>] /\ db' = db
      <4>1. db' = db
        BY <1>1, <1>2, <2>1, ExecuteIs, DropApplied
      <4> QED BY <1>2, <2>1, <4>1 DEF Execute
    <3>2. loading'[e][1] = LoadFromDB(db, e)
      BY <3>1 DEF Base, Types
    <3>3. /\ LoadFromDB(db, e).money = db.money[e] /\ LoadFromDB(db, e).goods = db.goods[e]
          /\ LoadFromDB(db, e).unsaved = 0
      BY DEF LoadFromDB
    <3>4. Idle(queue', e)
      <4> SUFFICES ASSUME NEW k \in DOMAIN queue', Saving(queue', k, e) PROVE FALSE
        BY DEF Idle
      <4>1. PICK b \in DOMAIN queue : b = k + 1 /\ Saving(queue, b, e)
        BY <1>5
      <4>2. b < 1
        BY <1>1, <1>2, <1>4, <2>1, <4>1 DEF Fetched
      <4> QED BY <1>3, <4>1, <4>2
    <3> QED BY <3>1, <3>2, <3>3, <3>4
  <2>2. CASE ~(o.op = "load" /\ o.who = e)
    <3>1. loading'[e] = loading[e]
      <4>1. CASE o.op = "load"
        <5>1. loading' = [loading EXCEPT ![o.who] = <<LoadFromDB(db, o.who)>>] /\ o.who # e
          BY <1>2, <2>2, <4>1 DEF Execute
        <5> QED BY <5>1 DEF Base, Types
      <4> QED BY <1>2, <4>1
    <3>2. /\ loading[e][1].money = db.money[e] /\ loading[e][1].goods = db.goods[e]
          /\ loading[e][1].unsaved = 0 /\ Idle(queue, e)
      BY <1>4, <1>8, <3>1 DEF Fetched
    <3>3. ~Saving(queue, 1, e)
      BY <1>2, <3>2 DEF Idle
    <3>4. db'.money[e] = db.money[e] /\ db'.goods[e] = db.goods[e]
      BY <1>1, <3>3, ExecutePurse
    <3> QED BY <1>6, <3>1, <3>2, <3>4
  <2> QED BY <2>1, <2>2
<1> QED BY <1>7, <1>8 DEF Fetched

\* Everybody's balance goes its course, and nobody's fortune changes.
LEMMA ExecuteBalances ==
  ASSUME Base, Books, Execute, MoneySafe', NEW e \in Char
  PROVE  /\ Balanced(db', queue', e \in online', mem'[e], e)
         /\ Fortune(db', e) = Fortune(db, e)
<1>1. PICK o : o = queue[1]
  OBVIOUS
<1>2. /\ 1 \in DOMAIN queue /\ o \in Operation /\ db \in Tables /\ db' \in Tables
      /\ queue \in Seq(Operation) /\ queue # <<>> /\ queue' = Tail(queue)
      /\ online' = online /\ mem' = mem
  BY <1>1, ExecuteIs, ExecuteBase DEF Base, Types
<1>3. PICK w : w = Fortune(db, e)
  OBVIOUS
<1>4. PICK b : b = db.money[e]
  OBVIOUS
<1>5. PICK f : /\ Course(queue, b, w, e, f)
               /\ e \in online => mem[e].money + mem[e].goods = w
                                  /\ mem[e].money + mem[e].unsaved = f[Len(queue)]
  BY <1>3, <1>4 DEF Books, Balances, Balanced
<1>6. /\ db.money[e] \in Nat /\ db.goods[e] \in Nat /\ db'.money[e] \in Nat /\ db'.goods[e] \in Nat
  BY <1>2, FortuneIs
<1>7. /\ f[0] = b /\ f[1] \in Nat
      /\ Saving(queue, 1, e) => f[1] = o.money /\ o.goods = f[0] - f[1] /\ f[1] <= w
      /\ ~Saving(queue, 1, e) => f[1] = f[0]
  <2>1. 1 \in 1 .. Len(queue) /\ Len(queue) \in Nat
    BY <1>2, SeqIs
  <2>2. 1 - 1 = 0 /\ 1 \in 0 .. Len(queue)
    BY <2>1
  <2> QED BY <1>1, <1>5, <2>1, <2>2 DEF Course
<1>8. db'.money[e] = f[1] /\ Fortune(db', e) = w
  <2>1. CASE Saving(queue, 1, e)
    <3>1. CASE db'.money[e] = o.money /\ db'.goods[e] = Restocked(db.goods[e], o.goods)
      <4>1. db.goods[e] + o.goods = w - f[1] /\ w - f[1] >= 0
        BY <1>3, <1>4, <1>6, <1>7, <2>1 DEF Fortune
      <4>2. db'.goods[e] = w - f[1]
        <5>1. Restocked(db.goods[e], o.goods) = db.goods[e] + o.goods
          <6>1. ~(db.goods[e] + o.goods < 0)
            BY <1>3, <1>6, <1>7, <4>1 DEF Fortune
          <6> QED BY <6>1 DEF Restocked
        <5> QED BY <3>1, <4>1, <5>1
      <4> QED BY <1>3, <1>6, <1>7, <2>1, <3>1, <4>2 DEF Fortune
    <3>2. CASE db'.money[e] = db.money[e] /\ db'.goods[e] = db.goods[e] /\ o.goods = 0
      BY <1>3, <1>4, <1>6, <1>7, <2>1, <3>2 DEF Fortune
    <3> QED BY <1>1, <2>1, <3>1, <3>2, ExecutePurse
  <2>2. CASE ~Saving(queue, 1, e)
    BY <1>1, <1>3, <1>4, <1>7, <2>2, ExecutePurse DEF Fortune
  <2> QED BY <2>1, <2>2
<1>9. PICK g : Course(Tail(queue), f[1], w, e, g) /\ g[Len(Tail(queue))] = f[Len(queue)]
  BY <1>2, <1>5, CourseShifts
<1> QED BY <1>2, <1>3, <1>5, <1>8, <1>9 DEF Balanced

LEMMA SamePurses ==
  ASSUME NEW d \in Tables, NEW o \in Operation, o.op # "save"
  PROVE  Apply(d, o).money = d.money /\ Apply(d, o).goods = d.goods
<1>1. PICK d2 \in Tables : d2 = Apply(d, o)
  BY Applied
<1>2. \A c \in Char : d2.money[c] = d.money[c] /\ d2.goods[c] = d.goods[c]
  BY <1>1, ApplyPurse
<1>3. /\ d.money \in [Char -> Nat] /\ d.goods \in [Char -> Nat]
      /\ d2.money \in [Char -> Nat] /\ d2.goods \in [Char -> Nat]
  BY DEF Tables
<1> QED BY <1>1, <1>2, <1>3

LEMMA ExecuteSum ==
  ASSUME Base, Books, Execute, MoneySafe'
  PROVE  Sum'
<1>1. PICK o : o = queue[1]
  OBVIOUS
<1>2. /\ o \in Operation /\ db \in Tables /\ db' \in Tables /\ Head(queue) = o /\ burnt \in Nat
      /\ Single(db.mail) /\ Single(db'.mail) /\ db.mail \in SUBSET MailRow /\ db'.mail \in SUBSET MailRow
      /\ db' = Apply(db, o) \/ (o.op = "save" /\ db' = db)
  <2>1. Single(db.mail) /\ Single(db'.mail)
    BY ExecuteBase DEF Base, Numbered, Single
  <2> QED BY <1>1, <2>1, ExecuteIs, ExecuteBase DEF Base, Types, Tables
<1>3. Leaves(o)
  BY <1>1, ExecuteLeaves
<1>4. Total(db) + burnt = Gold
  BY DEF Books, Sum
<1>5. CASE o.op = "dropMail"
  <2>1. OtherWorth(db.mail, db'.mail, o.id)
    <3>1. OnlyMail(db.mail, db'.mail, o.id)
      BY <1>3 DEF Leaves, LeftOf, OnlyMail
    <3>2. PICK i : i = o.id
      OBVIOUS
    <3> QED BY <1>2, <3>1, <3>2, OnlyMailIs
  <2>2. /\ db'.mail = {x \in db.mail : x.id # o.id} /\ o.id \in Id
        /\ burnt' = burnt + MoneyIn(db, o.id)
    BY <1>2, <1>5, DropApplied, OperationIs DEF Execute
  <2>3. MoneyIn(db, o.id) = Worths(db.mail)[o.id]
    BY <2>2 DEF MoneyIn, Worths
  <2>4. Worths(db'.mail)[o.id] = 0 /\ Worths(db.mail)[o.id] \in Nat
    BY <1>2, <2>2, WorthsAre
  <2>5. SumFunction(Worths(db'.mail)) = SumFunction(Worths(db.mail)) - Worths(db.mail)[o.id]
    <3>1. PICK i \in Id : i = o.id
      BY <2>2
    <3>2. SumFunction(Worths(db'.mail))
            = SumFunction(Worths(db.mail)) - Worths(db.mail)[i] + Worths(db'.mail)[i]
      BY <1>2, <2>1, <3>1, WorthMoves DEF OtherWorth
    <3>3. SumFunction(Worths(db.mail)) \in Int
      BY <1>2, TotalIs
    <3> QED BY <2>4, <3>1, <3>2, <3>3
  <2>6. db'.money = db.money /\ db'.goods = db.goods
    BY <1>2, <1>5, SamePurses
  <2>7. /\ Total(db) = SumFunction(db.money) + SumFunction(db.goods) + SumFunction(Worths(db.mail))
        /\ Total(db') = SumFunction(db.money) + SumFunction(db.goods) + SumFunction(Worths(db'.mail))
        /\ SumFunction(db.money) \in Int /\ SumFunction(db.goods) \in Int
        /\ SumFunction(Worths(db.mail)) \in Int
    BY <1>2, <2>6, TotalIs
  <2> QED BY <1>2, <1>4, <2>2, <2>3, <2>4, <2>5, <2>7 DEF Sum
<1>6. CASE o.op # "dropMail"
  <2>1. burnt' = burnt
    BY <1>2, <1>6 DEF Execute
  <2>2. SameWorths(db.mail, db'.mail)
    <3>1. OnlyMail(db.mail, db'.mail, 0) /\ 0 \notin Id
      BY <1>3, <1>6 DEF Leaves, LeftOf, OnlyMail, Id
    <3> QED BY <1>2, <3>1, OnlyMailIs
  <2>3. CASE o.op = "save"
    <3>1. PICK c \in Char : c = o.who
      BY <1>2, <2>3, OperationIs
    <3>2. OnlyOf(c, db, db')
      <4> SUFFICES ASSUME NEW e \in Char, e # c
                   PROVE  db'.money[e] = db.money[e] /\ db'.goods[e] = db.goods[e]
        BY DEF OnlyOf
      <4>1. ~Saving(queue, 1, e)
        BY <1>1, <3>1 DEF Saving
      <4> QED BY <1>1, <4>1, ExecutePurse
    <3>3. Total(db) \in Int /\ Total(db') = Total(db) - Fortune(db, c) + Fortune(db', c)
      BY <1>2, <2>2, <3>2, TotalSame
    <3>4. Fortune(db', c) = Fortune(db, c) /\ Fortune(db, c) \in Nat
      BY <1>2, ExecuteBalances, FortuneIs
    <3>5. Total(db') = Total(db)
      BY <3>3, <3>4
    <3> QED BY <1>4, <2>1, <3>5 DEF Sum
  <2>4. CASE o.op # "save"
    <3>1. db'.money = db.money /\ db'.goods = db.goods
      BY <1>2, <2>4, SamePurses
    <3>2. Total(db') = Total(db)
      BY <1>2, <2>2, <3>1, TotalIs DEF SameWorths
    <3> QED BY <1>4, <2>1, <3>2 DEF Sum
  <2> QED BY <2>3, <2>4
<1> QED BY <1>5, <1>6

LEMMA ExecuteBooks ==
  ASSUME Base, Safe, Books, Execute, MoneySafe'
  PROVE  Books'
<1>1. Balances'
  BY ExecuteBalances DEF Balances
<1> QED BY <1>1, ExecuteAnswers, ExecutePrices, ExecuteRewriting, ExecuteSum DEF Books

-----------------------------------------------------------------------------
(* The books are always in order.                                            *)

LEMMA LetterBooks ==
  ASSUME Base, Base', Safe, Books, MoneySafe', NEW c \in Char, NEW m, OnLetter(c, m)
  PROVE  Books'
<1>1. ASSUME NEW i \in Item, TakeItem(c, m, i) \/ BuyItem(c, m, i) PROVE Books'
  BY <1>1, TakeItemBooks, BuyItemBooks
<1> QED BY <1>1, MarkAsReadBooks, MailDeleteBooks, ReturnToSenderBooks, TakeMoneyBooks DEF OnLetter

LEMMA NextBooks ==
  ASSUME Base, Base', Safe, Books, MoneySafe', MailNext
  PROVE  Books'
<1>1. ASSUME NEW c \in Char, Autosave(c) \/ Logout(c) \/ Login(c) \/ EnterWorld(c) PROVE Books'
  <2>1. CASE Autosave(c)
    BY <2>1, AutosaveBooks
  <2>2. CASE Logout(c)
    BY <2>2, LogoutBooks DEF Logout
  <2>3. CASE Login(c)
    BY <2>3, LoginBooks
  <2>4. CASE EnterWorld(c)
    BY <2>4, EnterWorldBooks
  <2> QED BY <1>1, <2>1, <2>2, <2>3, <2>4
<1>2. ASSUME NEW c \in Char, NEW i \in Item, Obtain(c, i) PROVE Books'
  BY <1>2, ObtainBooks
<1>3. ASSUME NEW c \in Char, BuyFromVendor(c) \/ SellToVendor(c) PROVE Books'
  BY <1>3, ExchangeBooks DEF BuyFromVendor, SellToVendor
<1>4. ASSUME NEW c \in Char, NEW r \in Char, NEW gold \in Amount, NEW cod \in {0, Price},
             NEW items \in SUBSET Item, SendMail(c, r, gold, cod, items)
      PROVE  Books'
  BY <1>4, SendMailBooks
<1>5. ASSUME NEW c \in Char, NEW m \in mem[c].box, OnLetter(c, m) PROVE Books'
  BY <1>5, LetterBooks
<1>6. ASSUME NEW m \in db.mail, Expire(m) PROVE Books'
  BY <1>6, ExpireBooks
<1> QED BY <1>1, <1>2, <1>3, <1>4, <1>5, <1>6, ExecuteBooks, CrashBooks DEF MailNext

LEMMA StepBooks ==
  ASSUME GoldInv, [MailNext]_mailVars
  PROVE  GoldInv'
<1>1. IInv'
  BY StepMaintains DEF GoldInv
<1>2. Base /\ Base'
  BY <1>1 DEF GoldInv, IInv
<1> SUFFICES ASSUME MoneySafe' PROVE Books'
  BY <1>1 DEF GoldInv
<1>3. CASE MailNext
  <2>1. MoneySafe
    BY <1>2, <1>3, NextMaintains DEF Maintained, MoneySafe
  <2>2. Safe /\ Books
    BY <2>1 DEF GoldInv, IInv, MoneySafe, ItemsSafe
  <2> QED BY <1>2, <1>3, <2>2, NextBooks
<1>4. CASE UNCHANGED mailVars
  <2>1. UNCHANGED <<db, queue, online, mem, loading, nextId, burnt, tainted>>
    BY <1>4 DEF mailVars
  <2>2. Books
    BY <2>1 DEF GoldInv, MoneySafe
  <2>3. Balances'
    BY <2>1, <2>2 DEF Books, Balances, Balanced
  <2>4. Answers' /\ Rewriting' /\ Sum'
    BY <2>1, <2>2 DEF Books, Answers, Rewriting, Sum
  <2>5. Prices'
    BY <2>1, <2>2 DEF Books, Prices
  <2> QED BY <2>3, <2>4, <2>5 DEF Books
<1> QED BY <1>3, <1>4

LEMMA InitialBooks ==
  ASSUME MailInit
  PROVE  GoldInv
<1>1. IInv
  BY Initial
<1>2. /\ queue = <<>> /\ online = {} /\ burnt = 0
      /\ \A c \in Char : mem[c] = Offline /\ loading[c] = <<>>
      /\ db \in Tables /\ queue \in Seq(Operation)
  BY <1>1 DEF MailInit, IInv, Base, Types
<1>3. DOMAIN queue = {}
  BY <1>2, EmptySeq
<1>4. ASSUME NEW c \in Char PROVE Balanced(db, queue, c \in online, mem[c], c)
  <2>1. Idle(queue, c)
    BY <1>3 DEF Idle
  <2> QED BY <1>2, <2>1, IdleBalanced
<1>5. Answers
  BY <1>2, <1>3 DEF Answers, Fetched
<1>6. Prices
  BY <1>2, OfflineIs DEF Prices, Priced
<1>7. Rewriting
  BY <1>3 DEF Rewriting, Rewrites
<1>8. Sum
  <2>1. PICK gold \in [Char -> Amount], bag \in SUBSET (Char \X Item) :
          /\ SumFunction(gold) = Gold
          /\ db = [money |-> gold, goods |-> [c \in Char |-> 0], bag |-> bag, mail |-> {}, att |-> {}]
    BY DEF MailInit
  <2>2. db.money = gold /\ db.mail = {} /\ \A c \in Char : db.goods[c] = 0
    BY <2>1
  <2>3. SumFunction(db.goods) = 0
    <3>1. db.goods \in [Char -> Int] /\ IsFiniteSet(Char)
      BY <1>2, MailAssumption DEF Tables
    <3> QED BY <2>2, <3>1, SumZero
  <2>4. Single(db.mail)
    BY <2>2 DEF Single
  <2>5. SumFunction(Worths(db.mail)) = 0
    <3>1. db.mail \in SUBSET MailRow /\ IsFiniteSet(Id)
      BY <2>2, FS_Interval, MailAssumption DEF Id
    <3>2. Worths(db.mail) \in [Id -> Int] /\ \A i \in Id : Worths(db.mail)[i] = 0
      BY <2>2, <2>4, <3>1, WorthsAre
    <3> QED BY <3>1, <3>2, SumZero
  <2>6. Total(db) = SumFunction(db.money) + 0 + 0
    BY <1>2, <2>3, <2>4, <2>5, TotalIs
  <2> QED BY <1>2, <2>1, <2>2, <2>6, MailAssumption DEF Sum
<1> QED BY <1>1, <1>4, <1>5, <1>6, <1>7, <1>8 DEF GoldInv, Books, Balances

\* Until a hazard is met that the books do not survive, every save that is queued leads a
\* character's balance on from the one before it, letters and saves agree with the rows on
\* money and prices, and the sum is the sum.
THEOREM MailBooks == MailSpec => []GoldInv
<1>1. MailInit => GoldInv
  BY InitialBooks
<1>2. GoldInv /\ [MailNext]_mailVars => GoldInv'
  BY StepBooks
<1> QED BY <1>1, <1>2, PTL DEF MailSpec

\* No gold, or goods bought with it, is made or lost in the tables, whichever transactions
\* fail and wherever the server dies, for any number of characters, items, mails and any
\* amount of gold.
THEOREM GoldConservedHolds == MailSpec => []GoldConserved
<1>1. GoldInv => GoldConserved
  BY DEF GoldInv, Books, Sum, GoldConserved
<1> QED BY <1>1, MailBooks, PTL

-----------------------------------------------------------------------------
(* What is stored of a player's inventory, or will be, the player has.       *)

Knows(d, q, bag, c) ==
  /\ \A i \in Item : <<c, i>> \in d.bag => i \in bag
  /\ \A k \in DOMAIN q : Saving(q, k, c) => q[k].insert \subseteq bag

Known ==
  \A c \in Char :
    /\ c \in online => Knows(db, queue, mem[c].bag, c)
    /\ loading[c] # <<>> => Knows(db, queue, loading[c][1].bag, c)

StoredInv == GoldInv /\ (MoneySafe => Known)

\* Nobody's rows but those of c, and no queued saves but its own, come from c's handlers.
LEMMA OthersKnow ==
  ASSUME Base, Safe, ItemsSafe', NEW c \in online, Handled(c),
         NEW e \in Char, e # c, NEW bag, Knows(db, queue, bag, e)
  PROVE  Knows(db', queue', bag, e)
<1>1. PICK r, gone, in, out : Bagged(c, r, in, out)
  BY DEF Handled, Dealt
<1>2. \A i \in Item : <<e, i>> \in db'.bag => i \in bag
  BY <1>1 DEF Bagged, Knows
<1>3. ASSUME NEW k \in DOMAIN queue', Saving(queue', k, e) PROVE queue'[k].insert \subseteq bag
  <2>1. CASE queue' = queue
    BY <1>3, <2>1 DEF Knows
  <2>2. ASSUME NEW o \in Operation, o.op = "save", o.who = c, queue' = Append(queue, o)
        PROVE  queue'[k].insert \subseteq bag
    <3>1. /\ \A j \in DOMAIN queue' : j \notin DOMAIN queue => queue'[j] = o
          /\ \A j \in DOMAIN queue : queue'[j] = queue[j]
      BY <2>2, Appended DEF Base
    <3>2. k \in DOMAIN queue /\ queue'[k] = queue[k] /\ Saving(queue, k, e)
      BY <1>3, <2>2, <3>1 DEF Saving
    <3> QED BY <3>2 DEF Knows
  <2> QED BY <2>1, <2>2, OutcomeTypes DEF Handled
<1> QED BY <1>2, <1>3 DEF Knows

\* After a handler the player is out, or knows what was stored.
Out(c) == mem' = [mem EXCEPT ![c] = Offline] /\ online' = online \ {c}

In(c) ==
  /\ \A e \in Char : e # c => mem'[e].bag = mem[e].bag
  /\ online' = online
  /\ Knows(db', queue', mem'[c].bag, c)

LEMMA HandlerKnown ==
  ASSUME Base, Safe, ItemsSafe', Known, NEW c \in online, Handled(c), UNCHANGED loading,
         Out(c) \/ In(c)
  PROVE  Known'
<1>1. c \in Char /\ mem \in [Char -> Memory] /\ loading[c] = <<>>
  BY DEF Base, Types, Logins, Loading
<1>2. ASSUME NEW e \in Char, e \in online' PROVE Knows(db', queue', mem'[e].bag, e)
  <2>1. CASE e = c
    BY <1>2, <2>1 DEF Out, In
  <2>2. CASE e # c
    <3>1. mem'[e].bag = mem[e].bag /\ e \in online
      BY <1>1, <1>2, <2>2 DEF Out, In
    <3>2. Knows(db, queue, mem[e].bag, e)
      BY <3>1 DEF Known
    <3> QED BY <2>2, <3>1, <3>2, OthersKnow
  <2> QED BY <2>1, <2>2
<1>3. ASSUME NEW e \in Char, loading'[e] # <<>> PROVE Knows(db', queue', loading'[e][1].bag, e)
  <2>1. e # c /\ Knows(db, queue, loading[e][1].bag, e)
    BY <1>1, <1>3 DEF Known
  <2> QED BY <2>1, OthersKnow
<1> QED BY <1>2, <1>3 DEF Known

LEMMA LeavesOut ==
  ASSUME NEW c, (\E p : LogoutWith(c, p)) \/ LogoutUnsaved(c)
  PROVE  Out(c)
BY DEF LogoutWith, LogoutUnsaved, Out

\* The player stays, has no less than before and what is new in the table.
LEMMA StaysKnowing ==
  ASSUME Base, Known, NEW c \in online, queue' = queue, NEW bag, mem[c].bag \subseteq bag,
         \A i \in Item : <<c, i>> \in db'.bag => <<c, i>> \in db.bag \/ i \in bag
  PROVE  Knows(db', queue', bag, c)
<1>1. c \in Char
  BY DEF Base, Types
<1> QED BY <1>1 DEF Known, Knows

LEMMA AutosaveKnown ==
  ASSUME Base, Safe, ItemsSafe', Known, NEW c \in Char, Autosave(c)
  PROVE  Known'
<1>1. /\ c \in online /\ Handled(c) /\ mem[c] \in Memory /\ mem[c].fresh \subseteq mem[c].bag
      /\ mem \in [Char -> Memory]
  BY AutosaveIs, BaseIs DEF Types
<1>2. /\ queue' = Append(queue, SaveOf(c, mem[c])) /\ mem' = [mem EXCEPT ![c] = Saved(mem[c])]
      /\ UNCHANGED <<db, online, loading>>
  BY DEF Autosave
<1>3. mem'[c].bag = mem[c].bag /\ \A e \in Char : e # c => mem'[e] = mem[e]
  BY <1>1, <1>2, SavedIs
<1>4. PICK o : o = SaveOf(c, mem[c])
  OBVIOUS
<1>5. o \in Operation /\ o.insert \subseteq mem[c].bag
  BY <1>1, <1>4, SaveOfIs
<1>6. /\ \A k \in DOMAIN queue' : k \notin DOMAIN queue => queue'[k] = o
      /\ \A k \in DOMAIN queue : queue'[k] = queue[k]
  BY <1>2, <1>4, <1>5, Appended DEF Base
<1>7. Knows(db, queue, mem[c].bag, c)
  BY <1>1 DEF Known
<1>8. Knows(db', queue', mem'[c].bag, c)
  BY <1>2, <1>3, <1>5, <1>6, <1>7 DEF Knows, Saving
<1>9. In(c)
  BY <1>2, <1>3, <1>8 DEF In
<1> QED BY <1>1, <1>2, <1>9, HandlerKnown

LEMMA LogoutKnown ==
  ASSUME Base, Safe, ItemsSafe', Known, NEW c \in Char, Logout(c)
  PROVE  Known'
<1>1. c \in online /\ Handled(c) /\ UNCHANGED loading
  BY LogoutIs DEF Logout
<1>2. Out(c)
  BY LeavesOut DEF Logout
<1> QED BY <1>1, <1>2, HandlerKnown

\* The handlers that leave the inventory as it was.
LEMMA SameKnown ==
  ASSUME Base, Known, NEW c \in online, queue' = queue, online' = online,
         db'.bag = db.bag, \A e \in Char : mem'[e].bag = mem[e].bag
  PROVE  In(c)
<1>1. c \in Char
  BY DEF Base, Types
<1>2. Knows(db', queue', mem'[c].bag, c)
  BY <1>1, StaysKnowing
<1> QED BY <1>2 DEF In

LEMMA ExchangeKnown ==
  ASSUME Base, Safe, ItemsSafe', Known, NEW c \in Char, NEW n \in {-1, 1}, Exchange(c, n)
  PROVE  Known'
<1>1. c \in online /\ Handled(c) /\ UNCHANGED <<db, queue, online, loading>>
  BY ExchangeIs DEF Exchange
<1>2. mem[c] \in Memory /\ mem \in [Char -> Memory]
  BY BaseIs DEF Types
<1>3. \A e \in Char : mem'[e].bag = mem[e].bag
  BY <1>2 DEF Exchange, Memory
<1> QED BY <1>1, <1>3, SameKnown, HandlerKnown

LEMMA MarkAsReadKnown ==
  ASSUME Base, Safe, ItemsSafe', Known, NEW c \in Char, NEW m, MarkAsRead(c, m)
  PROVE  Known'
<1>1. c \in online /\ Handled(c) /\ UNCHANGED <<db, queue, online, loading>>
  BY MarkAsReadIs DEF MarkAsRead
<1>2. mem[c] \in Memory /\ mem \in [Char -> Memory]
  BY BaseIs DEF Types
<1>3. \A e \in Char : mem'[e].bag = mem[e].bag
  BY <1>2 DEF MarkAsRead, Memory
<1> QED BY <1>1, <1>3, SameKnown, HandlerKnown

LEMMA MailDeleteKnown ==
  ASSUME Base, Safe, ItemsSafe', Known, NEW c \in Char, NEW m, MailDelete(c, m)
  PROVE  Known'
<1>1. c \in online /\ Handled(c) /\ UNCHANGED loading
  BY MailDeleteIs DEF MailDelete
<1>2. mem \in [Char -> Memory] /\ m \in mem[c].box /\ db \in Tables
  BY BaseIs DEF MailDelete, Types
<1>3. CASE db' = WithoutMail(db, c, m) /\ mem' = Discarded(mem, c, m) /\ UNCHANGED <<queue, online>>
  <2>1. db'.bag = db.bag
    BY <1>2, <1>3, WithoutIs
  <2>2. \A e \in Char : e # c => mem'[e] = mem[e]
    BY <1>2, <1>3, DiscardedIs
  <2>3. mem'[c].bag = mem[c].bag
    BY <1>2, <1>3, DiscardedIs
  <2>4. In(c)
    BY <1>1, <1>3, <2>1, <2>2, <2>3, SameKnown
  <2> QED BY <1>1, <2>4, HandlerKnown
<1>4. CASE LogoutWith(c, mem[c])
  BY <1>1, <1>4, LeavesOut, HandlerKnown
<1> QED BY <1>3, <1>4 DEF MailDelete, Commits

LEMMA TakeMoneyKnown ==
  ASSUME Base, Safe, ItemsSafe', Known, NEW c \in Char, NEW m, TakeMoney(c, m)
  PROVE  Known'
<1>1. c \in online /\ Handled(c) /\ UNCHANGED loading
  BY TakeMoneyIs DEF TakeMoney
<1>2. mem \in [Char -> Memory] /\ mem[c] \in Memory /\ db \in Tables
  BY BaseIs DEF Types
<1> DEFINE f(x) == IF x.id = m.id /\ x.to = c THEN [x EXCEPT !.money = 0] ELSE x
           d == [db EXCEPT !.money[c] = mem[c].money + m.money, !.mail = {f(x) : x \in @}]
           p == [mem EXCEPT ![c].money = @ + m.money,
                            ![c].box = (@ \ {m}) \cup {[m EXCEPT !.money = 0]},
                            ![c].changed = @ \cup {m.id}]
<1>3. \/ db' = d /\ mem' = p /\ UNCHANGED <<queue, online>>
      \/ LogoutWith(c, mem[c])
  BY DEF TakeMoney
<1>4. d.bag = db.bag
  BY <1>2 DEF Tables
<1>5. \A e \in Char : p[e].bag = mem[e].bag
  BY <1>2 DEF Memory
<1> HIDE DEF f, d, p
<1>6. CASE db' = d /\ mem' = p /\ UNCHANGED <<queue, online>>
  <2>1. In(c)
    BY <1>1, <1>4, <1>5, <1>6, SameKnown
  <2> QED BY <1>1, <2>1, HandlerKnown
<1>7. CASE LogoutWith(c, mem[c])
  BY <1>1, <1>7, LeavesOut, HandlerKnown
<1> QED BY <1>3, <1>6, <1>7

LEMMA ReturnToSenderKnown ==
  ASSUME Base, Safe, ItemsSafe', Known, NEW c \in Char, NEW m, ReturnToSender(c, m)
  PROVE  Known'
<1> DEFINE back == [id |-> nextId, from |-> c, to |-> m.from, money |-> m.money, cod |-> 0,
                    kind |-> "returned", read |-> FALSE]
           w == WithoutMail(db, c, m)
           there == Existing(c, m.items)
           players == Discarded(mem, c, m)
<1>1. c \in online /\ Handled(c) /\ UNCHANGED loading
  BY ReturnToSenderIs DEF ReturnToSender
<1>2. /\ mem \in [Char -> Memory] /\ m \in mem[c].box /\ m \in LetterRow /\ db \in Tables
      /\ nextId \in Nat /\ nextId <= MaxMail /\ nextId \in 1 .. MaxMail + 1
  BY BaseIs DEF ReturnToSender, Types
<1>3. \/ /\ db' = Staged(w, back, there) /\ mem' = Delivered(players, back, m.items)
         /\ UNCHANGED <<queue, online>>
      \/ LogoutWith(c, mem[c])
  BY DEF ReturnToSender, Commits
<1>4. back \in MailRow /\ m.items \in SUBSET Item
  <2>1. nextId \in Id
    BY <1>2, MailAssumption DEF Id
  <2> QED BY <1>2, <2>1 DEF MailRow, LetterRow, Kind
<1>5. w \in Tables /\ w.bag = db.bag
  BY <1>2, WithoutIs
<1>6. there \in SUBSET m.items
  BY <1>4, ExistingIs
<1>7. players \in [Char -> Memory]
  BY <1>2, DiscardedIs
<1>8. \A e \in Char : e # c => players[e] = mem[e]
  BY <1>2, DiscardedIs
<1>9. players[c].bag = mem[c].bag
  BY <1>2, DiscardedIs
<1> HIDE DEF back, w, there, players
<1>10. CASE /\ db' = Staged(w, back, there) /\ mem' = Delivered(players, back, m.items)
            /\ UNCHANGED <<queue, online>>
  <2>1. there \in SUBSET Item
    BY <1>4, <1>6
  <2>2. db'.bag = w.bag
    BY <1>4, <1>5, <1>10, <2>1, StagedIs
  <2>3. \A e \in Char : mem'[e].bag = players[e].bag
    BY <1>4, <1>7, <1>10, DeliveredIs
  <2>4. In(c)
    BY <1>1, <1>5, <1>8, <1>9, <1>10, <2>2, <2>3, SameKnown
  <2> QED BY <1>1, <2>4, HandlerKnown
<1>11. CASE LogoutWith(c, mem[c])
  BY <1>1, <1>11, LeavesOut, HandlerKnown
<1> QED BY <1>3, <1>10, <1>11

\* What is sent is in the inventory no longer, and no save is queued that would store it.
LEMMA SendMailKnown ==
  ASSUME Base, Safe, MoneySafe', ItemsSafe', Known, NEW c \in Char, NEW r \in Char,
         NEW gold \in Amount, NEW cod \in {0, Price}, NEW items \in SUBSET Item,
         SendMail(c, r, gold, cod, items)
  PROVE  Known'
<1> DEFINE m == [id |-> nextId, from |-> c, to |-> r, money |-> gold, cod |-> cod,
                 kind |-> "normal", read |-> FALSE]
           sent == {<<c, i>> : i \in items}
           w == [db EXCEPT !.money[c] = mem[c].money - gold, !.bag = @ \ {<<c, i>> : i \in items}]
           there == Existing(c, items)
           players == [mem EXCEPT ![c].money = @ - gold, ![c].bag = @ \ items,
                                  ![c].fresh = @ \ items]
           kept == [mem[c] EXCEPT !.fresh = @ \ items]
<1>1. c \in online /\ Handled(c) /\ UNCHANGED loading
  BY SendMailIs DEF SendMail
<1>2. /\ mem \in [Char -> Memory] /\ mem[c] \in Memory /\ db \in Tables /\ gold <= mem[c].money
      /\ nextId \in Nat /\ nextId <= MaxMail /\ nextId \in 1 .. MaxMail + 1
  BY BaseIs DEF SendMail, Types
<1>3. \/ /\ db' = Staged(w, m, there) /\ mem' = Delivered(players, m, items)
         /\ UNCHANGED <<queue, online>> /\ Overtaking(c, "overtaken") \subseteq tainted'
      \/ LogoutWith(c, kept)
  BY DEF SendMail
<1>4. m \in MailRow
  <2>1. nextId \in Id /\ gold \in Nat
    BY <1>2, MailAssumption DEF Id, Amount
  <2> QED BY <2>1 DEF MailRow, Kind
<1>5. mem[c].money - gold \in Nat
  BY <1>2, MailAssumption DEF Memory, Amount
<1>6. w \in Tables /\ w.bag = db.bag \ sent
  <2> DEFINE v == [db EXCEPT !.money[c] = mem[c].money - gold]
  <2>1. v \in Tables /\ v.bag = db.bag
    BY <1>2, <1>5 DEF Tables
  <2>2. w = [v EXCEPT !.bag = @ \ sent]
    BY <1>2 DEF Tables
  <2> HIDE DEF v, w, sent
  <2> QED BY <2>1, <2>2 DEF Tables
<1>7. there \in SUBSET Item
  BY ExistingIs
<1>8. /\ players \in [Char -> Memory] /\ players[c].bag = mem[c].bag \ items
      /\ \A e \in Char : e # c => players[e] = mem[e]
  <2>1. players[c] = [mem[c] EXCEPT !.money = @ - gold, !.bag = @ \ items, !.fresh = @ \ items]
    BY <1>2
  <2>2. players[c] \in Memory /\ players[c].bag = mem[c].bag \ items
    BY <1>2, <1>5, <2>1 DEF Memory
  <2>3. players = [mem EXCEPT ![c] = players[c]]
    BY <1>2
  <2> HIDE DEF players
  <2> QED BY <1>2, <2>2, <2>3
<1>9. \A e \in Char, i \in Item : <<e, i>> \in sent => e = c /\ i \in items
  OBVIOUS
<1>10. \A i \in items : <<c, i>> \in sent
  OBVIOUS
<1> HIDE DEF m, sent, w, there, players, kept
<1>11. CASE /\ db' = Staged(w, m, there) /\ mem' = Delivered(players, m, items)
            /\ UNCHANGED <<queue, online>> /\ Overtaking(c, "overtaken") \subseteq tainted'
  <2>1. db'.bag = db.bag \ sent
    BY <1>4, <1>6, <1>7, <1>11, StagedIs
  <2>2. \A e \in Char : mem'[e].bag = players[e].bag
    BY <1>4, <1>8, <1>11, DeliveredIs
  <2>3. Idle(queue, c)
    BY <1>11, UntaintedIs
  <2>4. Knows(db, queue, mem[c].bag, c)
    BY <1>1 DEF Known
  <2>5. Knows(db', queue', mem'[c].bag, c)
    BY <1>8, <1>10, <1>11, <2>1, <2>2, <2>3, <2>4 DEF Knows, Idle
  <2>6. In(c)
    BY <1>8, <1>11, <2>2, <2>5 DEF In
  <2> QED BY <1>1, <2>6, HandlerKnown
<1>12. CASE LogoutWith(c, kept)
  BY <1>1, <1>12, LeavesOut, HandlerKnown
<1> QED BY <1>3, <1>11, <1>12

\* What is taken is in the inventory, and the whole inventory is stored with it.
LEMMA TakenKnown ==
  ASSUME Base, Known, NEW c \in online, NEW m \in mem[c].box, NEW i \in m.items, queue' = queue,
         db'.bag = db.bag \cup {<<c, j>> : j \in mem[c].fresh \cup {i}},
         NEW bag, bag = TakenInto(mem[c], m, i).bag
  PROVE  Knows(db', queue', bag, c)
<1>1. c \in Char /\ mem[c] \in Memory /\ mem[c].fresh \subseteq mem[c].bag
  BY BaseIs DEF Base, Types
<1>2. bag = mem[c].bag \cup {i}
  <2>1. PICK p : p = mem[c]
    OBVIOUS
  <2>2. TakenInto(p, m, i).bag = p.bag \cup {i}
    BY <1>1, <2>1 DEF TakenInto, Memory
  <2> QED BY <2>1, <2>2
<1>3. \A j : <<c, j>> \in db'.bag => <<c, j>> \in db.bag \/ j \in mem[c].fresh \cup {i}
  OBVIOUS
<1>4. \A j \in Item : <<c, j>> \in db'.bag => <<c, j>> \in db.bag \/ j \in bag
  BY <1>1, <1>2, <1>3
<1>5. mem[c].bag \subseteq bag
  BY <1>2
<1> QED BY <1>4, <1>5, StaysKnowing

LEMMA TakeItemKnown ==
  ASSUME Base, Safe, ItemsSafe', Known, NEW c \in Char, NEW m, NEW i \in Item, TakeItem(c, m, i)
  PROVE  Known'
<1> DEFINE p == TakenInto(mem[c], m, i)
           d == WithTakenItem(c, p, m, i)
<1>1. c \in online /\ Handled(c) /\ UNCHANGED loading
  BY TakeItemIs DEF TakeItem
<1>2. /\ mem \in [Char -> Memory] /\ mem[c] \in Memory /\ m \in mem[c].box /\ i \in m.items
      /\ m.cod <= mem[c].money
  BY BaseIs DEF TakeItem, Types, Memory
<1>3. \/ db' = d /\ mem' = [mem EXCEPT ![c] = Saved(p)] /\ UNCHANGED <<queue, online>>
      \/ LogoutWith(c, Saved(p))
  BY DEF TakeItem, Commits
<1>4. d.bag = db.bag \cup {<<c, j>> : j \in mem[c].fresh \cup {i}}
  BY <1>1, <1>2, TakenCleared
<1>5. p \in Memory
  BY <1>2, TakenIs
<1>6. Saved(p).bag = p.bag
  BY <1>5, SavedIs
<1> HIDE DEF d
<1>7. CASE db' = d /\ mem' = [mem EXCEPT ![c] = Saved(p)] /\ UNCHANGED <<queue, online>>
  <2>1. mem'[c].bag = p.bag /\ \A e \in Char : e # c => mem'[e] = mem[e]
    BY <1>2, <1>6, <1>7
  <2>2. db'.bag = db.bag \cup {<<c, j>> : j \in mem[c].fresh \cup {i}}
    BY <1>4, <1>7
  <2>3. Knows(db', queue', mem'[c].bag, c)
    BY <1>1, <1>2, <1>7, <2>1, <2>2, TakenKnown
  <2> HIDE DEF p
  <2>4. In(c)
    BY <1>7, <2>1, <2>3 DEF In
  <2> QED BY <1>1, <2>4, HandlerKnown
<1>8. CASE LogoutWith(c, Saved(p))
  BY <1>1, <1>8, LeavesOut, HandlerKnown
<1> QED BY <1>3, <1>7, <1>8

LEMMA BuyItemKnown ==
  ASSUME Base, Safe, ItemsSafe', Known, NEW c \in Char, NEW m, NEW i \in Item, BuyItem(c, m, i)
  PROVE  Known'
<1> DEFINE p == TakenInto(mem[c], m, i)
           w == WithTakenItem(c, p, m, i)
           pay == Payment(c, m)
           none == {}
           money == p.money - m.cod
           players == [mem EXCEPT ![c] = Adopting(p, money)]
<1>1. c \in online /\ Handled(c) /\ UNCHANGED loading
  BY BuyItemIs DEF BuyItem
<1>2. /\ mem \in [Char -> Memory] /\ mem[c] \in Memory /\ m \in mem[c].box /\ i \in m.items
      /\ m \in LetterRow /\ m.cod <= mem[c].money
      /\ nextId \in Nat /\ nextId <= MaxMail /\ nextId \in 1 .. MaxMail + 1
  BY BaseIs DEF BuyItem, Types
<1>3. \/ /\ db' = Staged(w, pay, none) /\ mem' = Delivered(players, pay, none)
         /\ UNCHANGED <<queue, online>>
      \/ \E q : LogoutWith(c, q)
      \/ LogoutUnsaved(c)
  BY DEF BuyItem, Commits
<1>4. pay \in MailRow
  <2>1. nextId \in Id /\ m.cod \in Nat
    BY <1>2, MailAssumption DEF Id, LetterRow
  <2> QED BY <1>1, <1>2, <2>1 DEF Payment, MailRow, LetterRow, Kind
<1>5. w \in Tables /\ w.bag = db.bag \cup {<<c, j>> : j \in mem[c].fresh \cup {i}}
  BY <1>1, <1>2, TakenCleared DEF Cleared
<1>6. p \in Memory /\ p.money = mem[c].money
  BY <1>2, TakenPurse
<1>7. money \in Nat
  BY <1>2, <1>6, MailAssumption DEF LetterRow, Memory
<1>8. Adopting(p, money) \in Memory /\ Adopting(p, money).bag = p.bag
  <2>1. [p EXCEPT !.money = money] \in Memory /\ [p EXCEPT !.money = money].bag = p.bag
    BY <1>6, <1>7 DEF Memory
  <2> QED BY <2>1, SavedIs DEF Adopting
<1>9. /\ players \in [Char -> Memory] /\ players[c].bag = p.bag
      /\ \A e \in Char : e # c => players[e] = mem[e]
  BY <1>2, <1>8
<1>10. none \in SUBSET Item
  OBVIOUS
<1> HIDE DEF w, pay, none, players
<1>11. CASE /\ db' = Staged(w, pay, none) /\ mem' = Delivered(players, pay, none)
            /\ UNCHANGED <<queue, online>>
  <2>1. db'.bag = w.bag
    BY <1>4, <1>5, <1>10, <1>11, StagedIs
  <2>2. \A e \in Char : mem'[e].bag = players[e].bag
    BY <1>4, <1>9, <1>10, <1>11, DeliveredIs
  <2>3. mem'[c].bag = p.bag /\ db'.bag = db.bag \cup {<<c, j>> : j \in mem[c].fresh \cup {i}}
    BY <1>5, <1>9, <2>1, <2>2
  <2>4. Knows(db', queue', mem'[c].bag, c)
    BY <1>1, <1>2, <1>11, <2>3, TakenKnown
  <2>5. In(c)
    BY <1>9, <1>11, <2>2, <2>4 DEF In
  <2> QED BY <1>1, <2>5, HandlerKnown
<1>12. CASE (\E q : LogoutWith(c, q)) \/ LogoutUnsaved(c)
  BY <1>1, <1>12, LeavesOut, HandlerKnown
<1> QED BY <1>3, <1>11, <1>12

\* What is queued without being a save stores nothing of an inventory.
LEMMA QueuedKnown ==
  ASSUME Base, Known, UNCHANGED <<db, online, mem, loading>>,
         \A k \in DOMAIN queue' : k \notin DOMAIN queue => queue'[k].op # "save",
         \A k \in DOMAIN queue : queue'[k] = queue[k]
  PROVE  Known'
<1>1. ASSUME NEW c, NEW bag, Knows(db, queue, bag, c) PROVE Knows(db', queue', bag, c)
  BY <1>1 DEF Knows, Saving
<1> QED BY <1>1 DEF Known

LEMMA LoginKnown ==
  ASSUME Base, Known, NEW c \in Char, Login(c)
  PROVE  Known'
<1> DEFINE o == [op |-> "load", who |-> c]
<1>1. o \in Operation /\ o.op # "save"
  BY DEF Operation
<1>2. queue' = Append(queue, o) /\ UNCHANGED <<db, online, mem, loading>>
  BY DEF Login
<1> HIDE DEF o
<1>3. /\ \A k \in DOMAIN queue' : k \notin DOMAIN queue => queue'[k] = o
      /\ \A k \in DOMAIN queue : queue'[k] = queue[k]
  BY <1>1, <1>2, Appended DEF Base
<1> QED BY <1>1, <1>2, <1>3, QueuedKnown

LEMMA ExpireKnown ==
  ASSUME Base, Known, NEW m \in db.mail, Expire(m)
  PROVE  Known'
<1>1. UNCHANGED <<db, online, mem, loading>>
  BY DEF Expire
<1>2. /\ \A k \in DOMAIN queue : queue'[k] = queue[k]
      /\ \A k \in DOMAIN queue' : k \notin DOMAIN queue => queue'[k].op # "save"
  BY ExpireQueue
<1> QED BY <1>1, <1>2, QueuedKnown

LEMMA EnterWorldKnown ==
  ASSUME Base, Known, NEW c \in Char, EnterWorld(c)
  PROVE  Known'
<1>1. /\ mem \in [Char -> Memory] /\ DOMAIN loading = Char /\ loading[c] # <<>>
      /\ mem' = [mem EXCEPT ![c] = loading[c][1]] /\ online' = online \cup {c}
      /\ loading' = [loading EXCEPT ![c] = <<>>] /\ UNCHANGED <<db, queue>>
  BY DEF EnterWorld, Base, Types
<1>2. ASSUME NEW e \in Char, e \in online' PROVE Knows(db, queue, mem'[e].bag, e)
  BY <1>1, <1>2 DEF Known
<1>3. ASSUME NEW e \in Char, loading'[e] # <<>> PROVE Knows(db, queue, loading'[e][1].bag, e)
  BY <1>1, <1>3 DEF Known
<1> QED BY <1>1, <1>2, <1>3 DEF Known

LEMMA ObtainKnown ==
  ASSUME Base, Known, NEW c \in Char, NEW i \in Item, Obtain(c, i)
  PROVE  Known'
<1>1. mem \in [Char -> Memory] /\ UNCHANGED <<db, queue, online, loading>>
  BY DEF Obtain, Base, Types
<1>2. \A e \in Char : mem[e].bag \subseteq mem'[e].bag
  BY <1>1 DEF Obtain, Memory
<1>3. ASSUME NEW e \in Char, NEW bag, NEW more, bag \subseteq more, Knows(db, queue, bag, e)
      PROVE  Knows(db, queue, more, e)
  BY <1>3 DEF Knows
<1> QED BY <1>1, <1>2, <1>3 DEF Known

LEMMA CrashKnown ==
  ASSUME Crash
  PROVE  Known'
<1>1. online' = {} /\ \A c \in Char : loading'[c] = <<>>
  BY DEF Crash
<1> QED BY <1>1 DEF Known

\* An operation stores what a save carries, and nothing else, in an inventory.
LEMMA ApplyBag ==
  ASSUME NEW d \in Tables, NEW o \in Operation, NEW e, NEW i, <<e, i>> \in Apply(d, o).bag
  PROVE  <<e, i>> \in d.bag \/ (o.op = "save" /\ o.who = e /\ i \in o.insert)
<1>1. CASE o.op = "save"
  <2>1. Apply(d, o).bag = d.bag \cup {<<o.who, j>> : j \in o.insert}
    BY <1>1, SaveApplied
  <2>2. <<e, i>> \in d.bag \/ \E j \in o.insert : <<e, i>> = <<o.who, j>>
    BY <2>1
  <2> QED BY <1>1, <2>2
<1>2. CASE o.op # "save"
  BY <1>2, OperationIs, TurnApplied, ReaddressApplied, DropApplied
<1> QED BY <1>1, <1>2

LEMMA ExecuteKnows ==
  ASSUME Base, Execute, NEW e \in Char, NEW bag, Knows(db, queue, bag, e)
  PROVE  Knows(db', queue', bag, e)
<1>1. PICK o : o = queue[1]
  OBVIOUS
<1>2. /\ 1 \in DOMAIN queue /\ o \in Operation /\ db \in Tables
      /\ \A k \in DOMAIN queue' : k + 1 \in DOMAIN queue /\ queue'[k] = queue[k + 1]
      /\ db' = Apply(db, o) \/ db' = db
  BY <1>1, ExecuteIs
<1>3. o.op = "save" /\ o.who = e => o.insert \subseteq bag
  BY <1>1, <1>2 DEF Knows, Saving
<1>4. \A i \in Item : <<e, i>> \in db'.bag => i \in bag
  BY <1>2, <1>3, ApplyBag DEF Knows
<1>5. \A k \in DOMAIN queue' : Saving(queue', k, e) => queue'[k].insert \subseteq bag
  BY <1>2 DEF Knows, Saving
<1> QED BY <1>4, <1>5 DEF Knows

\* A login reads the inventory, and no save of the character is queued behind it.
LEMMA LoadKnows ==
  ASSUME Base, Books, Execute, NEW e \in Char, queue[1].op = "load", queue[1].who = e
  PROVE  Knows(db', queue', LoadFromDB(db, e).bag, e)
<1>1. PICK o : o = queue[1]
  OBVIOUS
<1>2. /\ 1 \in DOMAIN queue /\ o \in Operation /\ db \in Tables
      /\ \A k \in DOMAIN queue' : k + 1 \in DOMAIN queue /\ queue'[k] = queue[k + 1]
      /\ db' = Apply(db, o) \/ db' = db
  BY <1>1, ExecuteIs
<1>3. db' = db
  BY <1>1, <1>2, DropApplied
<1>4. \A k \in DOMAIN queue' : k \in Nat \ {0}
  BY ExecuteBase, SeqIs DEF Base, Types
<1>5. ASSUME NEW k \in DOMAIN queue', Saving(queue', k, e) PROVE FALSE
  <2>1. PICK j \in DOMAIN queue : j = k + 1 /\ queue[j] = queue'[k]
    BY <1>2
  <2>2. Saving(queue, j, e)
    BY <1>5, <2>1 DEF Saving
  <2>3. j < 1
    BY <1>2, <2>2 DEF Books, Answers, Fetched
  <2> QED BY <1>4, <2>1, <2>3
<1>6. LoadFromDB(db, e).bag = {i \in Item : <<e, i>> \in db.bag}
  BY LoadIs
<1> QED BY <1>3, <1>5, <1>6 DEF Knows

LEMMA ExecuteKnown ==
  ASSUME Base, Books, Known, Execute
  PROVE  Known'
<1>1. UNCHANGED <<online, mem>>
  BY ExecuteIs
<1>2. PICK o : o = queue[1]
  OBVIOUS
<1>3. Head(queue) = o /\ o \in Operation /\ (o.op # "load" => loading' = loading)
  BY <1>2, ExecuteIs
<1>4. ASSUME NEW e \in Char, loading'[e] # <<>> PROVE Knows(db', queue', loading'[e][1].bag, e)
  <2>1. CASE loading'[e] = loading[e]
    BY <1>4, <2>1, ExecuteKnows DEF Known
  <2>2. CASE loading'[e] # loading[e]
    <3>1. o.op = "load"
      BY <1>3, <2>2
    <3>2. o.who \in Char /\ loading' = [loading EXCEPT ![o.who] = <<LoadFromDB(db, o.who)>>]
      BY <1>3, <3>1, OperationIs DEF Execute
    <3>3. DOMAIN loading = Char
      BY DEF Base, Types
    <3>4. o.who = e /\ loading'[e][1] = LoadFromDB(db, e)
      BY <2>2, <3>2, <3>3
    <3> QED BY <1>2, <3>1, <3>4, LoadKnows
  <2> QED BY <2>1, <2>2
<1>5. ASSUME NEW e \in Char, e \in online' PROVE Knows(db', queue', mem'[e].bag, e)
  BY <1>1, <1>5, ExecuteKnows DEF Known
<1> QED BY <1>4, <1>5 DEF Known

LEMMA LetterKnown ==
  ASSUME Base, Safe, ItemsSafe', Known, NEW c \in Char, NEW m, OnLetter(c, m)
  PROVE  Known'
BY MarkAsReadKnown, MailDeleteKnown, ReturnToSenderKnown, TakeItemKnown, BuyItemKnown, TakeMoneyKnown
   DEF OnLetter

LEMMA NextKnown ==
  ASSUME Base, Safe, Books, MoneySafe', Known, MailNext
  PROVE  Known'
<1>1. ItemsSafe'
  BY DEF MoneySafe, ItemsSafe
<1>2. ASSUME NEW c \in Char, Autosave(c) \/ Logout(c) \/ Login(c) \/ EnterWorld(c) PROVE Known'
  BY <1>1, <1>2, AutosaveKnown, LogoutKnown, LoginKnown, EnterWorldKnown
<1>3. ASSUME NEW c \in Char, NEW i \in Item, Obtain(c, i) PROVE Known'
  BY <1>3, ObtainKnown
<1>4. ASSUME NEW c \in Char, BuyFromVendor(c) \/ SellToVendor(c) PROVE Known'
  BY <1>1, <1>4, ExchangeKnown DEF BuyFromVendor, SellToVendor
<1>5. ASSUME NEW c \in Char, NEW r \in Char, NEW gold \in Amount, NEW cod \in {0, Price},
             NEW items \in SUBSET Item, SendMail(c, r, gold, cod, items)
      PROVE  Known'
  BY <1>1, <1>5, SendMailKnown
<1>6. ASSUME NEW c \in Char, NEW m \in mem[c].box, OnLetter(c, m) PROVE Known'
  BY <1>1, <1>6, LetterKnown
<1>7. ASSUME NEW m \in db.mail, Expire(m) PROVE Known'
  BY <1>7, ExpireKnown
<1> QED BY <1>2, <1>3, <1>4, <1>5, <1>6, <1>7, ExecuteKnown, CrashKnown DEF MailNext

LEMMA StepStored ==
  ASSUME StoredInv, [MailNext]_mailVars
  PROVE  StoredInv'
<1>1. GoldInv'
  BY StepBooks DEF StoredInv
<1>2. Base
  BY DEF StoredInv, GoldInv, IInv
<1> SUFFICES ASSUME MoneySafe' PROVE Known'
  BY <1>1 DEF StoredInv
<1>3. CASE MailNext
  <2>1. MoneySafe
    BY <1>2, <1>3, NextMaintains DEF Maintained, MoneySafe
  <2>2. Safe /\ Books /\ Known
    BY <2>1 DEF StoredInv, GoldInv, IInv, MoneySafe, ItemsSafe
  <2> QED BY <1>2, <1>3, <2>2, NextKnown
<1>4. CASE UNCHANGED mailVars
  <2>1. UNCHANGED <<db, queue, online, mem, loading, tainted>>
    BY <1>4 DEF mailVars
  <2>2. Known
    BY <2>1 DEF StoredInv, MoneySafe
  <2> QED BY <2>1, <2>2 DEF Known
<1> QED BY <1>3, <1>4

LEMMA InitialStored ==
  ASSUME MailInit
  PROVE  StoredInv
<1>1. online = {} /\ \A c \in Char : loading[c] = <<>>
  BY DEF MailInit
<1> QED BY <1>1, InitialBooks DEF StoredInv, Known

\* The goods that are stored when the queue is through are the rest of the fortune.
LEMMA FoldedGoods ==
  ASSUME NEW d \in Tables, NEW q \in Seq(Operation), NEW c \in Char,
         NEW f, Course(q, Purse(d, c), Fortune(d, c), c, f)
  PROVE  Stock(Through(d, q), c) = Fortune(d, c) - EndOf(f, q)
<1>1. Len(q) \in Nat /\ \A k \in 1 .. Len(q) : q[k] \in Operation
  BY SeqIs
<1>2. PICK h : Steps(h, d, q) /\ Through(d, q) = h[Len(q)]
  BY Folded
<1> DEFINE b == Purse(d, c)
           w == Fortune(d, c)
<1>3. Course(q, b, w, c, f)
  OBVIOUS
<1>4. w \in Nat /\ d.goods[c] = w - b /\ b \in Nat
  BY FortuneIs DEF Fortune, Purse
<1> HIDE DEF b, w
<1>5. \A k \in 0 .. Len(q) : f[k] \in Nat
  BY <1>3 DEF Course
<1> DEFINE G == {n \in Nat : n <= Len(q) => h[n].goods[c] = w - f[n]}
<1>6. 0 \in G
  BY <1>3, <1>2, <1>4 DEF Steps, Course
<1>7. ASSUME NEW n \in Nat, n \in G PROVE n + 1 \in G
  <2> SUFFICES ASSUME n + 1 <= Len(q) PROVE h[n + 1].goods[c] = w - f[n + 1]
    OBVIOUS
  <2>1. PICK k \in 1 .. Len(q) : k = n + 1
    BY <1>1
  <2>2. h[k - 1].goods[c] = w - f[k - 1] /\ k - 1 \in 0 .. Len(q)
    BY <1>1, <1>7, <2>1
  <2>3. h[k - 1] \in Tables /\ h[k] = Apply(h[k - 1], q[k]) /\ q[k] \in Operation
    BY <1>1, <1>2, <2>2 DEF Steps
  <2>4. h[k].goods[c] = IF Saving(q, k, c) THEN Restocked(w - f[k - 1], q[k].goods) ELSE w - f[k - 1]
    BY <2>2, <2>3, ApplyPurse DEF Saving
  <2>5. f[k] \in Nat /\ f[k - 1] \in Nat
    BY <1>1, <1>5, <2>2
  <2>6. CASE Saving(q, k, c)
    <3>1. q[k].goods = f[k - 1] - f[k] /\ f[k] <= w
      BY <1>3, <2>6 DEF Course
    <3> QED BY <1>4, <2>1, <2>4, <2>5, <2>6, <3>1 DEF Restocked
  <2>7. CASE ~Saving(q, k, c)
    <3>1. f[k] = f[k - 1]
      BY <1>3, <2>7 DEF Course
    <3> QED BY <2>1, <2>4, <2>7, <3>1
  <2> QED BY <2>6, <2>7
<1>8. Nat \subseteq G
  <2> HIDE DEF G
  <2> QED BY <1>6, <1>7, NatSet
<1>9. h[Len(q)].goods[c] = w - f[Len(q)]
  BY <1>1, <1>8
<1> QED BY <1>2, <1>9 DEF Stock, EndOf, w

\* The inventory that is stored then is known.
LEMMA FoldedBag ==
  ASSUME NEW d \in Tables, NEW q \in Seq(Operation), NEW c \in Char, NEW bag, Knows(d, q, bag, c),
         NEW r \in Through(d, q).bag, r[1] = c
  PROVE  r[2] \in bag
<1>1. Len(q) \in Nat /\ DOMAIN q = 1 .. Len(q) /\ \A k \in 1 .. Len(q) : q[k] \in Operation
  BY SeqIs
<1>2. PICK h : Steps(h, d, q) /\ Through(d, q) = h[Len(q)]
  BY Folded
<1> DEFINE G == {n \in Nat : n <= Len(q) => \A i \in Item : <<c, i>> \in h[n].bag => i \in bag}
<1>3. 0 \in G
  BY <1>2 DEF Steps, Knows
<1>4. ASSUME NEW n \in Nat, n \in G PROVE n + 1 \in G
  <2> SUFFICES ASSUME n + 1 <= Len(q), NEW i \in Item, <<c, i>> \in h[n + 1].bag PROVE i \in bag
    OBVIOUS
  <2>1. PICK k \in 1 .. Len(q) : k = n + 1
    BY <1>1
  <2>2. (<<c, i>> \in h[k - 1].bag => i \in bag) /\ k - 1 \in 0 .. Len(q)
    BY <1>1, <1>4, <2>1
  <2>3. h[k - 1] \in Tables /\ h[k] = Apply(h[k - 1], q[k]) /\ q[k] \in Operation
    BY <1>1, <1>2, <2>2 DEF Steps
  <2>4. <<c, i>> \in h[k - 1].bag \/ (Saving(q, k, c) /\ i \in q[k].insert)
    BY <2>1, <2>3, ApplyBag DEF Saving
  <2> QED BY <1>1, <2>2, <2>4 DEF Knows
<1>5. Nat \subseteq G
  <2> HIDE DEF G
  <2> QED BY <1>3, <1>4, NatSet
<1>6. h[Len(q)] \in Tables
  BY <1>1, <1>2 DEF Steps
<1>7. r = <<c, r[2]>> /\ r[2] \in Item
  BY <1>2, <1>6 DEF Tables
<1> QED BY <1>1, <1>2, <1>5, <1>7

\* Where an item of a letter is stored, it is attached to that letter.
LEMMA LetterPlaces ==
  ASSUME Base, Safe, NEW c \in Char, NEW m \in mem[c].box, NEW i \in m.items
  PROVE  Places(i) = {} \/ Places(i) = {Attachment(m.id, i, c)}
<1>1. m \in LetterRow /\ m.id \in Id /\ i \in Item /\ Types
  BY BaseIs DEF LetterRow
<1>2. Attachment(m.id, i, c) \in Place /\ Attachment(m.id, i, c).item = i /\ Claim(Attachment(m.id, i, c))
  BY <1>1, PlaceIs DEF Claim, Held
<1>3. ASSUME NEW a \in Places(i) PROVE a = Attachment(m.id, i, c)
  <2>1. a \in Place /\ a.item = i /\ Claim(a)
    BY <1>1, PlacesAre DEF Claim
  <2> QED BY <1>2, <2>1 DEF Safe, OneClaim
<1> QED BY <1>3

\* Balance and goods of a player, but for what is not saved yet, are stored then.
LEMMA PurseThrough ==
  ASSUME Base, Balances, NEW c \in online
  PROVE  /\ mem[c].money = Through(db, queue).money[c] - mem[c].unsaved
         /\ mem[c].goods = Through(db, queue).goods[c] + mem[c].unsaved
<1>1. c \in Char /\ db \in Tables /\ queue \in Seq(Operation)
  BY DEF Base, Types
<1>2. PICK f : /\ Course(queue, db.money[c], Fortune(db, c), c, f)
               /\ mem[c].money + mem[c].goods = Fortune(db, c)
               /\ mem[c].money + mem[c].unsaved = f[Len(queue)]
  BY <1>1 DEF Balances, Balanced
<1>3. Course(queue, Purse(db, c), Fortune(db, c), c, f)
  BY <1>2 DEF Purse
<1>4. Purse(Through(db, queue), c) = EndOf(f, queue)
  BY <1>1, <1>3, FoldedMoney
<1>5. Stock(Through(db, queue), c) = Fortune(db, c) - EndOf(f, queue)
  BY <1>1, <1>3, FoldedGoods
<1>6. /\ Through(db, queue).money[c] = f[Len(queue)]
      /\ Through(db, queue).goods[c] = Fortune(db, c) - f[Len(queue)]
  BY <1>4, <1>5 DEF Purse, Stock, EndOf
<1>7. mem[c].money \in Nat /\ mem[c].goods \in Nat /\ mem[c].unsaved \in Int
  BY <1>1 DEF Base, Types, Memory
<1> QED BY <1>2, <1>6, <1>7

LEMMA MemoryStored ==
  ASSUME StoredInv
  PROVE  MemoryIsStored
<1> SUFFICES ASSUME MoneySafe, NEW c \in online
             PROVE  /\ mem[c].money = Through(db, queue).money[c] - mem[c].unsaved
                    /\ mem[c].goods = Through(db, queue).goods[c] + mem[c].unsaved
                    /\ \A r \in Through(db, queue).bag : r[1] = c => r[2] \in mem[c].bag
                    /\ \A m \in mem[c].box : \E x \in db.mail :
                         /\ x.id = m.id /\ x.to = c /\ x.money = m.money /\ x.cod = m.cod
                         /\ \A i \in m.items : Places(i) = {} \/ Places(i) = {Attachment(m.id, i, c)}
  BY DEF MemoryIsStored, Through
<1>1. Base /\ Safe /\ Books /\ Known
  BY DEF StoredInv, GoldInv, IInv, MoneySafe, ItemsSafe
<1>2. c \in Char /\ db \in Tables /\ queue \in Seq(Operation) /\ mem[c] \in Memory /\ Len(queue) \in Nat
  BY <1>1, SeqIs DEF Base, Types
<1>3. /\ mem[c].money = Through(db, queue).money[c] - mem[c].unsaved
      /\ mem[c].goods = Through(db, queue).goods[c] + mem[c].unsaved
  BY <1>1, PurseThrough DEF Books
<1>4. \A r \in Through(db, queue).bag : r[1] = c => r[2] \in mem[c].bag
  BY <1>1, <1>2, FoldedBag DEF Known
<1>5. ASSUME NEW m \in mem[c].box
      PROVE  \E x \in db.mail :
               /\ x.id = m.id /\ x.to = c /\ x.money = m.money /\ x.cod = m.cod
               /\ \A i \in m.items : Places(i) = {} \/ Places(i) = {Attachment(m.id, i, c)}
  <2>1. PICK x \in db.mail : x.id = m.id /\ x.to = c /\ SameWorth(x, m)
    BY <1>1, <1>2, LetterRows DEF Books, Safe
  <2>2. \A i \in m.items : Places(i) = {} \/ Places(i) = {Attachment(m.id, i, c)}
    BY <1>1, <1>2, LetterPlaces
  <2> QED BY <2>1, <2>2 DEF SameWorth
<1> QED BY <1>3, <1>4, <1>5

\* The same, and that whoever is in the world, or about to enter it, has in memory every
\* item that the tables hold for it or a queued save will store.
THEOREM MailKnown == MailSpec => []StoredInv
<1>1. MailInit => StoredInv
  BY InitialStored
<1>2. StoredInv /\ [MailNext]_mailVars => StoredInv'
  BY StepStored
<1> QED BY <1>1, <1>2, PTL DEF MailSpec

\* What a player in the world sees is what is stored once the queue is through: balance
\* and goods but for purchases that were not saved yet, no item that memory has given away,
\* and each letter with the money, the price and the items that its row has already.
THEOREM MemoryIsStoredHolds == MailSpec => []MemoryIsStored
<1>1. StoredInv => MemoryIsStored
  BY MemoryStored
<1> QED BY <1>1, MailKnown, PTL

=============================================================================
