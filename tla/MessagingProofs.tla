--------------------------- MODULE MessagingProofs ---------------------------
(***************************************************************************)
(* Proofs about messages, for any number of accounts, keys, identifiers    *)
(* and requests at a time.                                                 *)
(*                                                                         *)
(* First, that direct messages implement the mailbox.  A transaction shows *)
(* only when it commits, so the invariant carries what the one in progress *)
(* will do to the mailbox; and that a sender's key names one row is what   *)
(* makes the rows of the table and the messages of the box one to one,     *)
(* without which opening one would show as opening several.                *)
(*                                                                         *)
(* Then, what the tables promise about themselves: marks, budgets, the two *)
(* programs for notifications and the listings page by page.               *)
(***************************************************************************)
EXTENDS Messaging, FiniteSetTheorems, WellFoundedInduction, TLAPS

-----------------------------------------------------------------------------
(* The table, as far as the mailbox shows it.                              *)

RowSet == [conv : Nat, from : Agents, to : Agents \cup {Group}, key : Keys \cup {NoKey},
           content : Contents, at : Nat, read : Nat]

\* A table of messages: one direct row for a sender's key, to another account.
TableOk(rows) ==
  /\ rows \in [DOMAIN rows -> RowSet]
  /\ \A i \in Direct(rows) : rows[i].key \in Keys /\ rows[i].to # rows[i].from
  /\ \A i, j \in Direct(rows) :
       rows[i].from = rows[j].from /\ rows[i].key = rows[j].key => i = j

\* What a message looks like in the box.
Shown(row) ==
  [from |-> row.from, to |-> row.to, key |-> row.key, content |-> row.content,
   opened |-> row.read]

IsDatabaseRecord(d) == d = [rows |-> d.rows, mark |-> d.mark, members |-> d.members]

\* Whoever holds an identifier of a direct message still holds one.
Keeps(rows, new) ==
  \A i \in Direct(rows) : i \in Direct(new)

\* One step of the mailbox, or none, between two tables.
Advances(old, new) ==
  \/ new = old
  \/ \E from, to \in Agents, key \in Keys, content \in Contents :
       /\ from # to
       /\ \A m \in old : <<m.from, m.key>> # <<from, key>>
       /\ new = old \cup {Box!New(from, to, key, content)}
  \/ \E m \in old, n \in new :
       /\ m.opened = 0
       /\ n.opened \in Nat \ {0}
       /\ n = [m EXCEPT !.opened = n.opened]
       /\ new = (old \ {m}) \cup {n}

Typed ==
  /\ clock \in Nat \ {0}
  /\ IsDatabaseRecord(db) /\ TableOk(db.rows)
  /\ DOMAIN threads = Threads
  /\ \A t \in Threads :
       \/ threads[t] = Idle
       \/ threads[t].op = "read" /\ threads[t].id \in Direct(db.rows)
       \/ /\ threads[t].op = "group"
          /\ threads[t] = [op |-> "group", from |-> threads[t].from, key |-> threads[t].key,
                           content |-> threads[t].content, at |-> threads[t].at]
          /\ threads[t].from \in Agents /\ threads[t].key \in Keys \cup {NoKey}
          /\ threads[t].content \in Contents /\ threads[t].at \in Nat

\* What the transaction in progress will show when it commits.
Pending ==
  txn # NoTxn =>
    /\ IsDatabaseRecord(txn) /\ TableOk(txn.rows)
    /\ Keeps(db.rows, txn.rows)
    /\ Advances(DirectBox(db.rows), DirectBox(txn.rows))

IInv == Typed /\ Pending

-----------------------------------------------------------------------------
(* What the writes do to a table.                                          *)

LEMMA ShownBox ==
  ASSUME NEW rows
  PROVE  DirectBox(rows) = {Shown(rows[i]) : i \in Direct(rows)}
BY DEF DirectBox, Shown

LEMMA InsertDirect ==
  ASSUME NEW rows, TableOk(rows), NEW id \in Nat, id \notin DOMAIN rows,
         NEW row \in RowSet, row.to # Group, row.key \in Keys, row.to # row.from, row.read = 0,
         \A i \in Direct(rows) : <<rows[i].from, rows[i].key>> # <<row.from, row.key>>
  PROVE  /\ TableOk(Insert(rows, id, row))
         /\ Keeps(rows, Insert(rows, id, row))
         /\ Advances(DirectBox(rows), DirectBox(Insert(rows, id, row)))
<1> DEFINE new == Insert(rows, id, row)
<1>1. /\ DOMAIN new = DOMAIN rows \cup {id}
      /\ new[id] = row
      /\ \A i \in DOMAIN rows : new[i] = rows[i]
      /\ new = [i \in DOMAIN new |-> new[i]]
  BY DEF Insert
<1> HIDE DEF new
<1>2. Direct(new) = Direct(rows) \cup {id}
  BY <1>1 DEF Direct
<1>3. /\ \A i \in Direct(rows) : i \in DOMAIN rows
  BY DEF Direct
<1>4. new \in [DOMAIN new -> RowSet]
  BY <1>1 DEF TableOk
<1>5. \A i \in Direct(new) : new[i].key \in Keys /\ new[i].to # new[i].from
  BY <1>1, <1>2, <1>3 DEF TableOk
<1>6. ASSUME NEW i \in Direct(new), NEW j \in Direct(new),
             new[i].from = new[j].from, new[i].key = new[j].key
      PROVE  i = j
  BY <1>1, <1>2, <1>3, <1>6 DEF TableOk
<1>7. TableOk(new)
  BY <1>4, <1>5, <1>6 DEF TableOk
<1>8. Keeps(rows, new)
  BY <1>2 DEF Keeps
<1>9. Shown(row) = Box!New(row.from, row.to, row.key, row.content)
  BY DEF Shown, Box!New
<1>10. DirectBox(new) = DirectBox(rows) \cup {Shown(row)}
  <2>1. DirectBox(new) = {Shown(new[i]) : i \in Direct(new)}
    BY ShownBox
  <2>2. DirectBox(rows) = {Shown(rows[i]) : i \in Direct(rows)}
    BY ShownBox
  <2>3. \A i \in Direct(rows) : Shown(new[i]) = Shown(rows[i])
    BY <1>1, <1>3
  <2> QED
    BY <1>1, <1>2, <2>1, <2>2, <2>3
<1>11. \A m \in DirectBox(rows) : <<m.from, m.key>> # <<row.from, row.key>>
  BY DEF DirectBox
<1>12. row.from \in Agents /\ row.to \in Agents /\ row.content \in Contents
  BY DEF RowSet
<1>13. Advances(DirectBox(rows), DirectBox(new))
  BY <1>9, <1>10, <1>11, <1>12 DEF Advances
<1> QED
  BY <1>7, <1>8, <1>13 DEF new

LEMMA InsertGroup ==
  ASSUME NEW rows, TableOk(rows), NEW id \in Nat, id \notin DOMAIN rows,
         NEW row \in RowSet, row.to = Group
  PROVE  /\ TableOk(Insert(rows, id, row))
         /\ Keeps(rows, Insert(rows, id, row))
         /\ Advances(DirectBox(rows), DirectBox(Insert(rows, id, row)))
<1> DEFINE new == Insert(rows, id, row)
<1>1. /\ DOMAIN new = DOMAIN rows \cup {id}
      /\ new[id] = row
      /\ \A i \in DOMAIN rows : new[i] = rows[i]
      /\ new = [i \in DOMAIN new |-> new[i]]
  BY DEF Insert
<1> HIDE DEF new
<1>2. Direct(new) = Direct(rows)
  BY <1>1 DEF Direct
<1>3. \A i \in Direct(rows) : i \in DOMAIN rows
  BY DEF Direct
<1>4. new \in [DOMAIN new -> RowSet]
  BY <1>1 DEF TableOk
<1>5. TableOk(new)
  BY <1>1, <1>2, <1>3, <1>4 DEF TableOk
<1>6. DirectBox(new) = DirectBox(rows)
  <2>1. DirectBox(new) = {Shown(new[i]) : i \in Direct(new)}
    BY ShownBox
  <2>2. DirectBox(rows) = {Shown(rows[i]) : i \in Direct(rows)}
    BY ShownBox
  <2>3. \A i \in Direct(rows) : Shown(new[i]) = Shown(rows[i])
    BY <1>1, <1>3
  <2> QED
    BY <1>2, <2>1, <2>2, <2>3
<1> QED
  BY <1>2, <1>5, <1>6 DEF Keeps, Advances, new

LEMMA Opens ==
  ASSUME NEW rows, TableOk(rows), NEW i \in Direct(rows), clock \in Nat \ {0}
  PROVE  /\ TableOk(FirstRead(rows, i))
         /\ Keeps(rows, FirstRead(rows, i))
         /\ Advances(DirectBox(rows), DirectBox(FirstRead(rows, i)))
<1> DEFINE new == FirstRead(rows, i)
           date == IF rows[i].read = 0 THEN clock ELSE rows[i].read
           row == [conv |-> rows[i].conv, from |-> rows[i].from, to |-> rows[i].to,
                   key |-> rows[i].key, content |-> rows[i].content, at |-> rows[i].at,
                   read |-> date]
<1>1. i \in DOMAIN rows /\ rows[i] \in RowSet /\ rows[i].to # Group
  BY DEF Direct, TableOk
<1>2. row \in RowSet /\ date \in Nat
  BY <1>1 DEF RowSet
<1>3. new = [rows EXCEPT ![i] = row]
  <2>1. [rows[i] EXCEPT !.read = date] = row
    BY <1>1 DEF RowSet
  <2>2. new = [rows EXCEPT ![i] = [rows[i] EXCEPT !.read = date]]
    BY DEF FirstRead
  <2> QED
    BY <2>1, <2>2
<1>4. /\ DOMAIN new = DOMAIN rows /\ new[i] = row
      /\ \A j \in DOMAIN rows : j # i => new[j] = rows[j]
      /\ new \in [DOMAIN new -> RowSet]
  <2>1. rows \in [DOMAIN rows -> RowSet]
    BY DEF TableOk
  <2> HIDE DEF new, row
  <2> QED
    BY <1>1, <1>2, <1>3, <2>1
<1>5. /\ row.from = rows[i].from /\ row.to = rows[i].to /\ row.key = rows[i].key
      /\ row.read = date /\ row.content = rows[i].content
  OBVIOUS
<1> HIDE DEF new, row
<1>6. Direct(new) = Direct(rows)
  BY <1>1, <1>4, <1>5 DEF Direct
<1>7. \A j \in Direct(rows) :
        /\ j \in DOMAIN rows
        /\ new[j].from = rows[j].from /\ new[j].to = rows[j].to /\ new[j].key = rows[j].key
  BY <1>4, <1>5 DEF Direct
<1>8. TableOk(new)
  BY <1>4, <1>6, <1>7 DEF TableOk
<1>9. Advances(DirectBox(rows), DirectBox(new))
  <2> DEFINE m == Shown(rows[i])  n == Shown(row)
  <2>1. DirectBox(new) = {Shown(new[j]) : j \in Direct(rows)}
    BY <1>6, ShownBox
  <2>2. DirectBox(rows) = {Shown(rows[j]) : j \in Direct(rows)}
    BY ShownBox
  <2>3. \A j \in Direct(rows) : j # i => Shown(new[j]) = Shown(rows[j]) /\ Shown(rows[j]) # m
    <3> SUFFICES ASSUME NEW j \in Direct(rows), j # i
                 PROVE  Shown(new[j]) = Shown(rows[j]) /\ Shown(rows[j]) # m
      OBVIOUS
    <3>1. new[j] = rows[j]
      BY <1>4, <1>7
    <3>2. ~(rows[j].from = rows[i].from /\ rows[j].key = rows[i].key)
      BY DEF TableOk
    <3> QED
      BY <3>1, <3>2 DEF Shown
  <2>4. Shown(new[i]) = n
    BY <1>4
  <2>5. CASE rows[i].read = 0
    <3>1. m.opened = 0 /\ n.opened \in Nat \ {0} /\ n = [m EXCEPT !.opened = n.opened]
      BY <1>5, <2>5 DEF Shown
    <3> HIDE DEF m, n
    <3>2. m \in DirectBox(rows) /\ n \in DirectBox(new)
      BY <2>1, <2>2, <2>4 DEF m
    <3>3. DirectBox(new) = (DirectBox(rows) \ {m}) \cup {n}
      <4>1. \A x : x \in DirectBox(new) <=> \E j \in Direct(rows) : x = Shown(new[j])
        BY <2>1
      <4>2. \A x : x \in DirectBox(rows) <=> \E j \in Direct(rows) : x = Shown(rows[j])
        BY <2>2
      <4>3. \A x : x \in DirectBox(new) => x \in (DirectBox(rows) \ {m}) \cup {n}
        BY <2>3, <2>4, <4>1, <4>2
      <4>4. \A x : x \in DirectBox(rows) /\ x # m => x \in DirectBox(new)
        BY <2>3, <4>1, <4>2 DEF m
      <4> QED
        BY <3>2, <4>3, <4>4
    <3> QED
      BY <3>1, <3>2, <3>3 DEF Advances
  <2>6. CASE rows[i].read # 0
    <3>1. n = m
      BY <1>5, <2>6 DEF Shown
    <3>2. DirectBox(new) = DirectBox(rows)
      BY <2>1, <2>2, <2>3, <2>4, <3>1
    <3> QED
      BY <3>2 DEF Advances
  <2> QED
    BY <2>5, <2>6
<1>10. Keeps(rows, new)
  BY <1>6 DEF Keeps
<1> QED
  BY <1>8, <1>9, <1>10 DEF new

-----------------------------------------------------------------------------
(* The steps.                                                              *)

LEMMA InitIInv == Init => IInv /\ Box!Init
<1> SUFFICES ASSUME Init PROVE IInv /\ Box!Init
  OBVIOUS
<1>1. DOMAIN db.rows = {} /\ Direct(db.rows) = {}
  BY DEF Init, Direct
<1>2. TableOk(db.rows)
  <2>1. db.rows = [i \in {} |-> 0]
    BY DEF Init
  <2> QED
    BY <1>1, <2>1 DEF TableOk
<1>3. IInv
  <2>1. IsDatabaseRecord(db)
    BY DEF Init, IsDatabaseRecord
  <2>2. /\ clock = 1 /\ txn = NoTxn /\ DOMAIN threads = Threads /\ \A t \in Threads : threads[t] = Idle
    BY DEF Init
  <2> QED
    BY <1>2, <2>1, <2>2 DEF IInv, Typed, Pending
<1>4. Box!Init
  BY <1>1 DEF Box!Init, DirectBox
<1> QED
  BY <1>3, <1>4

\* A step that leaves the tables alone.
LEMMA Elsewhere ==
  ASSUME IInv, UNCHANGED <<db, txn, threads>>, clock' \in Nat \ {0}
  PROVE  IInv'
BY DEF IInv, Typed, Pending

\* A handler that begins a transaction, and leaves its thread.
LEMMA Begins ==
  ASSUME IInv, UNCHANGED <<clock, db>>, txn = NoTxn,
         \/ UNCHANGED threads
         \/ \E t \in Threads : threads' = [threads EXCEPT ![t] = Idle],
         txn' # NoTxn =>
           /\ IsDatabaseRecord(txn') /\ TableOk(txn'.rows)
           /\ Keeps(db.rows, txn'.rows)
           /\ Advances(DirectBox(db.rows), DirectBox(txn'.rows))
  PROVE  IInv'
<1>1. Typed'
  <2>1. DOMAIN threads' = Threads
    BY DEF IInv, Typed
  <2>2. \A t \in Threads : threads'[t] = threads[t] \/ threads'[t] = Idle
    BY DEF IInv, Typed
  <2> QED
    BY <2>1, <2>2 DEF IInv, Typed
<1>2. Pending'
  BY DEF Pending
<1> QED
  BY <1>1, <1>2 DEF IInv

LEMMA SendStep ==
  ASSUME IInv, NEW r \in Requests, r[2] # Group, Send(r[1], r[2], r[3], r[4])
  PROVE  IInv'
<1> DEFINE a == r[1]  b == r[2]  k == r[3]  c == r[4]  rows == db.rows
<1>1. a \in Agents /\ b \in Agents /\ k \in Keys /\ c \in Contents /\ a # b /\ b # Group
  BY MessagingAssumption DEF Send
<1>2. txn = NoTxn /\ UNCHANGED <<clock, db, threads>>
  BY DEF Send, Locked
<1>3. CASE UNCHANGED txn
  BY <1>2, <1>3, Begins
<1>4. CASE ~ UNCHANGED txn
  <2>1. /\ Existing(rows, Direct(rows), a, k) = {}
        /\ \E id \in Ids \ DOMAIN rows :
             LET conv == ConvOf(rows, a, b, id)
             IN txn' = [db EXCEPT !.rows = Insert(rows, id, Row(conv, a, b, k, c, clock)),
                                  !.mark = Lift(@, conv, a, b)]
    BY <1>4 DEF Send
  <2>2. PICK id \in Ids \ DOMAIN rows :
          txn' = [db EXCEPT !.rows = Insert(rows, id, Row(ConvOf(rows, a, b, id), a, b, k, c, clock)),
                            !.mark = Lift(@, ConvOf(rows, a, b, id), a, b)]
    BY <2>1
  <2> DEFINE row == Row(ConvOf(rows, a, b, id), a, b, k, c, clock)
  <2>3. id \in Nat
    BY MessagingAssumption
  <2>4. TableOk(rows)
    BY DEF IInv, Typed
  <2>5. row \in RowSet /\ row.to = b /\ row.from = a /\ row.key = k /\ row.read = 0
    <3>1. ConvOf(rows, a, b, id) \in Nat
      <4>1. CASE Between(rows, a, b) = {}
        BY <2>3, <4>1 DEF ConvOf
      <4>2. CASE Between(rows, a, b) # {}
        <5>1. PICK i \in Between(rows, a, b) : ConvOf(rows, a, b, id) = rows[i].conv
          BY <4>2 DEF ConvOf
        <5>2. i \in DOMAIN rows
          BY DEF Between, Direct
        <5> QED
          BY <2>4, <5>1, <5>2 DEF TableOk, RowSet
      <4> QED
        BY <4>1, <4>2
    <3>2. clock \in Nat
      BY DEF IInv, Typed
    <3> HIDE DEF a, b, k, c, rows
    <3> QED
      BY <1>1, <3>1, <3>2 DEF Row, RowSet
  <2>6. \A i \in Direct(rows) : <<rows[i].from, rows[i].key>> # <<a, k>>
    <3>1. k # NoKey
      BY <1>1, MessagingAssumption
    <3> QED
      BY <2>1, <3>1 DEF Existing
  <2>7. IsDatabaseRecord(txn') /\ txn'.rows = Insert(rows, id, row)
    <3>1. IsDatabaseRecord(db)
      BY DEF IInv, Typed
    <3> HIDE DEF row, rows
    <3> QED
      BY <2>2, <3>1 DEF IsDatabaseRecord, row
  <2> HIDE DEF row, rows, a, b, k, c
  <2>8. /\ TableOk(Insert(rows, id, row))
        /\ Keeps(rows, Insert(rows, id, row))
        /\ Advances(DirectBox(rows), DirectBox(Insert(rows, id, row)))
    BY <1>1, <2>2, <2>3, <2>4, <2>5, <2>6, InsertDirect
  <2> QED
    BY <1>2, <2>7, <2>8, Begins DEF rows
<1> QED
  BY <1>3, <1>4

LEMMA GroupStep ==
  ASSUME IInv, NEW t \in Threads, SendGroup(t)
  PROVE  IInv'
<1> DEFINE w == threads[t]  rows == db.rows
<1>1. /\ w.from \in Agents /\ w.key \in Keys \cup {NoKey}
      /\ w.content \in Contents /\ w.at \in Nat
  BY DEF SendGroup, IInv, Typed, Idle
<1>2. txn = NoTxn /\ UNCHANGED <<clock, db>> /\ threads' = [threads EXCEPT ![t] = Idle]
  BY DEF SendGroup, Locked
<1>3. CASE UNCHANGED txn
  BY <1>2, <1>3, Begins
<1>4. CASE ~ UNCHANGED txn
  <2>1. PICK id \in Ids \ DOMAIN rows :
          txn' = [db EXCEPT !.rows = Insert(rows, id, Row(0, w.from, Group, w.key, w.content, w.at))]
    BY <1>4 DEF SendGroup
  <2> DEFINE row == Row(0, w.from, Group, w.key, w.content, w.at)
  <2>2. id \in Nat
    BY MessagingAssumption
  <2>3. TableOk(rows)
    BY DEF IInv, Typed
  <2>4. row \in RowSet /\ row.to = Group
    BY <1>1 DEF Row, RowSet
  <2>5. IsDatabaseRecord(txn') /\ txn'.rows = Insert(rows, id, row)
    <3>1. IsDatabaseRecord(db)
      BY DEF IInv, Typed
    <3> HIDE DEF row, rows
    <3> QED
      BY <2>1, <3>1 DEF IsDatabaseRecord, row
  <2> HIDE DEF row, rows, w
  <2>6. /\ TableOk(Insert(rows, id, row))
        /\ Keeps(rows, Insert(rows, id, row))
        /\ Advances(DirectBox(rows), DirectBox(Insert(rows, id, row)))
    BY <2>1, <2>2, <2>3, <2>4, InsertGroup
  <2> QED
    BY <1>2, <2>5, <2>6, Begins DEF rows
<1> QED
  BY <1>3, <1>4

\* A handler that writes marks or members and no message.
LEMMA OtherWrite ==
  ASSUME IInv, UNCHANGED <<clock, db, threads>>, txn = NoTxn,
         IsDatabaseRecord(txn'), txn'.rows = db.rows
  PROVE  IInv'
<1>1. TableOk(db.rows)
  BY DEF IInv, Typed
<1>2. Keeps(db.rows, txn'.rows) /\ Advances(DirectBox(db.rows), DirectBox(txn'.rows))
  BY DEF Keeps, Advances
<1> QED
  BY <1>1, <1>2, Begins

LEMMA ReadStep ==
  ASSUME IInv, NEW t \in Threads,
         ReadMessage(t) \/ \E i \in DOMAIN db.rows : LookToRead(t, i)
  PROVE  IInv'
<1>1. CASE \E i \in DOMAIN db.rows : LookToRead(t, i)
  <2>1. PICK i \in Direct(db.rows) :
          /\ UNCHANGED <<clock, db, txn>>
          /\ threads' = [threads EXCEPT ![t] = [op |-> "read", id |-> i]]
    BY <1>1 DEF LookToRead
  <2> QED
    BY <2>1 DEF IInv, Typed, Pending
<1>2. CASE ReadMessage(t)
  <2>1. /\ threads[t].id \in Direct(db.rows) /\ txn = NoTxn
        /\ threads' = [threads EXCEPT ![t] = Idle] /\ UNCHANGED <<clock, db>>
    BY <1>2 DEF ReadMessage, Locked, IInv, Typed, Idle
  <2> DEFINE new == FirstRead(db.rows, threads[t].id)
  <2>2. TableOk(new) /\ Keeps(db.rows, new) /\ Advances(DirectBox(db.rows), DirectBox(new))
    BY <2>1, Opens DEF IInv, Typed
  <2>3. txn' = [db EXCEPT !.rows = new]
    BY <1>2 DEF ReadMessage
  <2> HIDE DEF new
  <2>4. IsDatabaseRecord(txn') /\ txn'.rows = new
    <3>1. IsDatabaseRecord(db)
      BY DEF IInv, Typed
    <3> QED
      BY <2>3, <3>1 DEF IsDatabaseRecord
  <2> QED
    BY <2>1, <2>2, <2>4, Begins
<1> QED
  BY <1>1, <1>2

LEMMA NoteStep ==
  ASSUME IInv,
         \/ \E u \in Readers, c \in Ids : MarkNoReply(u, c)
         \/ \E by, who \in Agents : AddMember(by, who) \/ RemoveMember(by, who)
  PROVE  IInv'
<1>1. IsDatabaseRecord(db)
  BY DEF IInv, Typed
<1>2. ASSUME NEW u \in Readers, NEW c \in Ids, MarkNoReply(u, c) PROVE IInv'
  <2>1. txn = NoTxn /\ UNCHANGED <<clock, db, threads>>
    BY <1>2 DEF MarkNoReply, Locked
  <2>2. \E x : txn' = [db EXCEPT !.mark = x]
    BY <1>2 DEF MarkNoReply
  <2>3. IsDatabaseRecord(txn') /\ txn'.rows = db.rows
    BY <1>1, <2>2 DEF IsDatabaseRecord
  <2> QED
    BY <2>1, <2>3, OtherWrite
<1>3. ASSUME NEW by \in Agents, NEW who \in Agents, AddMember(by, who) \/ RemoveMember(by, who)
      PROVE  IInv'
  <2>1. txn = NoTxn /\ UNCHANGED <<clock, db, threads>>
    BY <1>3 DEF AddMember, RemoveMember, Locked
  <2>2. \E x : txn' = [db EXCEPT !.members = x]
    BY <1>3 DEF AddMember, RemoveMember
  <2>3. IsDatabaseRecord(txn') /\ txn'.rows = db.rows
    BY <1>1, <2>2 DEF IsDatabaseRecord
  <2> QED
    BY <2>1, <2>3, OtherWrite
<1> QED
  BY <1>2, <1>3

LEMMA DateStep ==
  ASSUME IInv, NEW t \in Threads, NEW r \in Requests, r[2] = Group,
         DateGroupMessage(t, r[1], r[3], r[4])
  PROVE  IInv'
<1> DEFINE w == [op |-> "group", from |-> r[1], key |-> r[3], content |-> r[4], at |-> clock]
<1>1. r[1] \in Agents /\ r[3] \in Keys \cup {NoKey} /\ r[4] \in Contents
  BY MessagingAssumption
<1>2. threads' = [threads EXCEPT ![t] = w] /\ UNCHANGED <<clock, db, txn>>
  BY DEF DateGroupMessage
<1>3. /\ w.op = "group"
      /\ w = [op |-> "group", from |-> w.from, key |-> w.key, content |-> w.content, at |-> w.at]
      /\ w.from \in Agents /\ w.key \in Keys \cup {NoKey} /\ w.content \in Contents /\ w.at \in Nat
  BY <1>1 DEF IInv, Typed
<1> HIDE DEF w
<1>4. Typed'
  BY <1>2, <1>3 DEF IInv, Typed
<1>5. Pending'
  BY <1>2 DEF IInv, Pending
<1> QED
  BY <1>4, <1>5 DEF IInv

\* Commits, crashes and time.
LEMMA CommitStep ==
  ASSUME IInv, Commit
  PROVE  IInv' /\ Advances(DirectBox(db.rows), DirectBox(db.rows)')
<1>1. db' = txn /\ txn' = NoTxn /\ txn # NoTxn /\ UNCHANGED <<clock, threads>>
  BY DEF Commit, Locked
<1>2. IsDatabaseRecord(txn) /\ TableOk(txn.rows) /\ Keeps(db.rows, txn.rows)
      /\ Advances(DirectBox(db.rows), DirectBox(txn.rows))
  BY <1>1 DEF IInv, Pending
<1>3. Typed'
  <2>1. \A t \in Threads : threads[t].id \in Direct(db.rows) => threads[t].id \in Direct(db'.rows)
    BY <1>1, <1>2 DEF Keeps
  <2> QED
    BY <1>1, <1>2, <2>1 DEF IInv, Typed
<1>4. Pending'
  BY <1>1 DEF Pending
<1>5. DirectBox(db.rows)' = DirectBox(txn.rows)
  BY <1>1 DEF DirectBox, Direct
<1> QED
  BY <1>2, <1>3, <1>4, <1>5 DEF IInv

LEMMA CrashStep == ASSUME IInv, Crash PROVE IInv'
<1>1. txn' = NoTxn /\ threads' = [t \in Threads |-> Idle] /\ UNCHANGED <<clock, db>>
  BY DEF Crash
<1> QED
  BY <1>1 DEF IInv, Typed, Pending

LEMMA StepIInv == IInv /\ [Next]_vars => IInv'
<1> SUFFICES ASSUME IInv, [Next]_vars PROVE IInv'
  OBVIOUS
<1>0. clock \in Nat \ {0}
  BY DEF IInv, Typed
<1>1. CASE SendNext
  <2>1. ASSUME NEW r \in Requests, r[2] # Group, Send(r[1], r[2], r[3], r[4]) PROVE IInv'
    BY <2>1, SendStep
  <2>2. ASSUME NEW t \in Threads, SendGroup(t) PROVE IInv'
    BY <2>2, GroupStep
  <2>3. ASSUME NEW t \in Threads, NEW r \in Requests, r[2] = Group,
               DateGroupMessage(t, r[1], r[3], r[4])
        PROVE  IInv'
    BY <2>3, DateStep
  <2> QED
    BY <1>1, <2>1, <2>2, <2>3 DEF SendNext
<1>2. CASE ReadNext
  <2>1. ASSUME NEW t \in Threads, ReadMessage(t) \/ \E i \in DOMAIN db.rows : LookToRead(t, i)
        PROVE  IInv'
    BY <2>1, ReadStep
  <2>2. ASSUME NEW u \in Readers, NEW c \in Ids, MarkNoReply(u, c) PROVE IInv'
    BY <2>2, NoteStep
  <2> QED
    BY <1>2, <2>1, <2>2 DEF ReadNext
<1>3. CASE MemberNext
  BY <1>3, NoteStep DEF MemberNext
<1>4. CASE PageNext
  <2>1. UNCHANGED <<clock, db, txn, threads>>
    BY <1>4 DEF PageNext, FirstPage, ReadPage, Forget
  <2> QED
    BY <1>0, <2>1, Elsewhere
<1>5. CASE Commit
  BY <1>5, CommitStep
<1>6. CASE Crash
  BY <1>6, CrashStep
<1>7. CASE OrgCommand
  <2>1. UNCHANGED <<clock, db, txn, threads>>
    BY <1>7 DEF OrgCommand
  <2> QED
    BY <1>0, <2>1, Elsewhere
<1>8. CASE Tick
  <2>1. clock' = clock + 1 /\ UNCHANGED <<db, txn, threads>>
    BY <1>8 DEF Tick
  <2> QED
    BY <1>0, <2>1, Elsewhere
<1>9. CASE UNCHANGED vars
  BY <1>0, <1>9, Elsewhere DEF vars
<1> QED
  BY <1>1, <1>2, <1>3, <1>4, <1>5, <1>6, <1>7, <1>8, <1>9 DEF Next

\* Only a commit shows, and it shows one step of the mailbox or none.
LEMMA BoxStep == IInv /\ [Next]_vars => [Box!Next]_(DirectBox(db.rows))
<1> SUFFICES ASSUME IInv, [Next]_vars PROVE [Box!Next]_(DirectBox(db.rows))
  OBVIOUS
<1>1. CASE Commit
  <2>1. Advances(DirectBox(db.rows), DirectBox(db.rows)')
    BY <1>1, CommitStep
  <2> QED
    BY <2>1 DEF Advances, Box!Next, Box!Accept, Box!Open
<1>2. CASE ~ Commit
  <2>1. UNCHANGED db
    BY <1>2 DEF Next, SendNext, ReadNext, MemberNext, PageNext, Send, SendGroup, DateGroupMessage,
                ReadMessage, LookToRead, MarkNoReply, AddMember, RemoveMember, FirstPage, ReadPage,
                Forget, Crash, OrgCommand, Tick, vars
  <2> QED
    BY <2>1
<1> QED
  BY <1>1, <1>2

-----------------------------------------------------------------------------
(* What follows.                                                           *)

\* Direct messages implement the mailbox: for any number of accounts, of retries
\* with the same key, of readers that look at a message at once, of crashes with
\* a transaction in progress and of commands that change who may write.
THEOREM MailboxCorrect == Spec => ImplementsMailbox
<1>1. IInv /\ [Next]_vars => IInv' /\ [Box!Next]_(DirectBox(db.rows))
  BY StepIInv, BoxStep
<1> QED
  BY InitIInv, <1>1, PTL DEF Spec, ImplementsMailbox, Box!Spec

\* A send is refused for the budget, a policy or an account only when its key
\* names no message: of any two handlers, in any state.
THEOREM RetryCorrect == Spec => RetryNeverRefused
<1> DEFINE Refusals == {"QUOTA_EXCEEDED", "POLICY_DENIED", "RECIPIENT_NOT_FOUND"}
           Named(ans) == \E i \in DOMAIN db.rows :
                           /\ db.rows[i].from = ans.from
                           /\ db.rows[i].key = ans.key /\ ans.key # NoKey
                           /\ (db.rows[i].to = Group) = (ans.table = "group")
<1>1. ASSUME NEW a, NEW b, NEW k, NEW c, Send(a, b, k, c), answer'.outcome \in Refusals
      PROVE  ~ Named(answer')
  <2>1. /\ Existing(db.rows, Direct(db.rows), a, k) = {}
        /\ answer' = Answer(Refusal(a, b), a, k, "direct")
    <3>1. answer' # NoAnswer
      BY <1>1 DEF NoAnswer
    <3>2. answer' # Answer("MESSAGE_ALREADY_EXISTS", a, k, "direct")
      BY <1>1 DEF Answer
    <3> QED
      BY <1>1, <3>1, <3>2 DEF Send
  <2>2. answer'.from = a /\ answer'.key = k /\ answer'.table = "direct"
    BY <2>1 DEF Answer
  <2> QED
    BY <2>1, <2>2 DEF Existing, Direct
<1>2. ASSUME NEW t, SendGroup(t), answer'.outcome \in Refusals
      PROVE  ~ Named(answer')
  <2> DEFINE w == threads[t]
  <2>1. /\ Existing(db.rows, Grouped(db.rows), w.from, w.key) = {}
        /\ answer' = Answer(GroupRefusal(w.from), w.from, w.key, "group")
    <3>1. answer' # NoAnswer
      BY <1>2 DEF NoAnswer
    <3>2. answer' # Answer("GROUP_NOT_FOUND", w.from, w.key, "group")
      BY <1>2 DEF Answer
    <3> QED
      BY <1>2, <3>1, <3>2 DEF SendGroup
  <2>2. answer'.from = w.from /\ answer'.key = w.key /\ answer'.table = "group"
    BY <2>1 DEF Answer
  <2> QED
    BY <2>1, <2>2 DEF Existing, Grouped
<1>3. ASSUME Next, answer' = NoAnswer, answer'.outcome \in Refusals PROVE FALSE
  BY <1>3 DEF NoAnswer
<1>4. ASSUME Next, answer'.outcome \in Refusals PROVE ~ Named(answer')
  <2>1. CASE SendNext
    <3>1. CASE \E r \in Requests : Send(r[1], r[2], r[3], r[4])
      BY <1>1, <1>4, <3>1
    <3>2. CASE \E t \in Threads : SendGroup(t)
      BY <1>2, <1>4, <3>2
    <3>3. CASE answer' = NoAnswer
      BY <1>3, <1>4, <3>3
    <3> QED
      BY <2>1, <3>1, <3>2, <3>3 DEF SendNext, DateGroupMessage
  <2>2. CASE ~ SendNext
    <3>1. answer' = NoAnswer
      BY <1>4, <2>2 DEF Next, ReadNext, MemberNext, PageNext, ReadMessage, LookToRead, MarkNoReply,
                        AddMember, RemoveMember, FirstPage, ReadPage, Forget, Commit, Crash,
                        OrgCommand, Tick
    <3> QED
      BY <1>3, <1>4, <3>1
  <2> QED
    BY <2>1, <2>2
<1>5. [Next]_vars =>
        [answer'.outcome \in {"QUOTA_EXCEEDED", "POLICY_DENIED", "RECIPIENT_NOT_FOUND"} =>
           \A i \in DOMAIN db.rows :
             ~ /\ db.rows[i].from = answer'.from
               /\ db.rows[i].key = answer'.key /\ answer'.key # NoKey
               /\ (db.rows[i].to = Group) = (answer'.table = "group")]_vars
  BY <1>4
<1> QED
  BY <1>5, PTL DEF Spec, RetryNeverRefused

-----------------------------------------------------------------------------
(* The order of rows, and of the items of a listing.                       *)

\* A finite set that is not empty has a maximal element in any strict order R, a
\* set of pairs: of the sets of what is above an element, one lies inside none
\* of the others.
LEMMA Maximal ==
  ASSUME NEW S, IsFiniteSet(S), S # {}, NEW R,
         \A i \in S : <<i, i>> \notin R,
         \A i, j, k \in S : <<i, j>> \in R /\ <<j, k>> \in R => <<i, k>> \in R
  PROVE  \E m \in S : \A k \in S : <<m, k>> \notin R
<1> DEFINE Above(i) == {j \in S : <<i, j>> \in R}
           F == {Above(i) : i \in S}
<1>1. F \subseteq SUBSET S /\ F # {}
  <2>1. \A i \in S : Above(i) \subseteq S
    OBVIOUS
  <2> HIDE DEF Above
  <2> QED
    BY <2>1
<1>2. PICK B \in F : \A C \in F : ~(<<C, B>> \in StrictSubsetOrdering(S))
  <2> HIDE DEF F
  <2>1. F \subseteq FiniteSubsetsOf(S)
    BY <1>1, FS_FiniteSubsetsOfFinite
  <2> QED
    BY <1>1, <2>1, FS_StrictSubsetOrderingWellFounded, WFMin
<1>3. PICK m \in S : B = Above(m)
  BY <1>2
<1>4. ASSUME NEW k \in S, <<m, k>> \in R PROVE FALSE
  <2>1. Above(k) \subseteq Above(m)
    BY <1>4
  <2>2. k \in Above(m) /\ k \notin Above(k)
    BY <1>4
  <2>3. Above(k) \in F
    OBVIOUS
  <2> HIDE DEF Above, F
  <2> QED
    BY <1>1, <1>2, <1>3, <2>1, <2>2, <2>3 DEF StrictSubsetOrdering
<1> QED
  BY <1>4

\* Before is a strict order of rows with dates.
LEMMA BeforeOrder ==
  ASSUME NEW rows, NEW S, S \subseteq Nat, \A i \in S : rows[i].at \in Nat
  PROVE  /\ \A i \in S : ~ Before(rows, i, i)
         /\ \A i, j \in S : i # j => Before(rows, i, j) \/ Before(rows, j, i)
         /\ \A i, j, l \in S : Before(rows, i, j) /\ Before(rows, j, l) => Before(rows, i, l)
<1>1. ASSUME NEW i \in S, NEW j \in S
      PROVE  ~ Before(rows, i, i) /\ (i # j => Before(rows, i, j) \/ Before(rows, j, i))
  <2>1. i \in Nat /\ j \in Nat /\ rows[i].at \in Nat /\ rows[j].at \in Nat
    OBVIOUS
  <2> QED
    BY <2>1 DEF Before
<1>2. ASSUME NEW i \in S, NEW j \in S, NEW l \in S, Before(rows, i, j), Before(rows, j, l)
      PROVE  Before(rows, i, l)
  <2>1. /\ i \in Nat /\ j \in Nat /\ l \in Nat
        /\ rows[i].at \in Nat /\ rows[j].at \in Nat /\ rows[l].at \in Nat
    OBVIOUS
  <2> QED
    BY <1>2, <2>1 DEF Before
<1> QED
  BY <1>1, <1>2

\* A finite set of rows that is not empty has a last one.
LEMMA HasLatest ==
  ASSUME NEW rows, NEW S, S \subseteq Nat, \A i \in S : rows[i].at \in Nat,
         IsFiniteSet(S), S # {}
  PROVE  /\ Latest(rows, S) \in S
         /\ \A j \in S \ {Latest(rows, S)} : Before(rows, j, Latest(rows, S))
<1> DEFINE R == {p \in S \X S : Before(rows, p[1], p[2])}
<1>1. \A i, j \in S : <<i, j>> \in R <=> Before(rows, i, j)
  OBVIOUS
<1> HIDE DEF R
<1>2. /\ \A i \in S : <<i, i>> \notin R
      /\ \A i, j, k \in S : <<i, j>> \in R /\ <<j, k>> \in R => <<i, k>> \in R
  BY <1>1, BeforeOrder
<1>3. PICK m \in S : \A k \in S : <<m, k>> \notin R
  BY <1>2, Maximal
<1>4. \A j \in S \ {m} : Before(rows, j, m)
  BY <1>1, <1>3, BeforeOrder
<1> QED
  BY <1>4 DEF Latest

ItemSet == [date : Nat, id : Nat]

\* Precedes is a strict order of items, in either direction.
LEMMA PrecedesOrder ==
  ASSUME NEW cmd, NEW S \in SUBSET ItemSet
  PROVE  /\ \A x \in S : ~ Precedes(cmd, x, x)
         /\ \A x, y \in S : x # y => Precedes(cmd, x, y) \/ Precedes(cmd, y, x)
         /\ \A x, y, z \in S : Precedes(cmd, x, y) /\ Precedes(cmd, y, z) => Precedes(cmd, x, z)
<1>1. ASSUME NEW x \in S, NEW y \in S
      PROVE  ~ Precedes(cmd, x, x) /\ (x # y => Precedes(cmd, x, y) \/ Precedes(cmd, y, x))
  <2>1. /\ x.date \in Nat /\ x.id \in Nat /\ y.date \in Nat /\ y.id \in Nat
        /\ (x.date = y.date /\ x.id = y.id => x = y)
    BY DEF ItemSet
  <2> QED
    BY <2>1 DEF Precedes
<1>2. ASSUME NEW x \in S, NEW y \in S, NEW z \in S, Precedes(cmd, x, y), Precedes(cmd, y, z)
      PROVE  Precedes(cmd, x, z)
  <2>1. /\ x.date \in Nat /\ x.id \in Nat /\ y.date \in Nat /\ y.id \in Nat
        /\ z.date \in Nat /\ z.id \in Nat
    BY DEF ItemSet
  <2> QED
    BY <1>2, <2>1 DEF Precedes
<1> QED
  BY <1>1, <1>2

\* s gives the items of S in the order of the command.
Sorted(cmd, S, s) ==
  /\ s \in [1..Cardinality(S) -> S]
  /\ \A m, n \in 1..Cardinality(S) : m < n => Precedes(cmd, s[m], s[n])

\* A finite set of items can be put in the order of a command: of the subsets
\* that cannot, one lies around none of the others; but what is left without its
\* last item can be ordered, and the last item put at the end.
LEMMA Sortable ==
  ASSUME NEW cmd, NEW S \in SUBSET ItemSet, IsFiniteSet(S)
  PROVE  \E s : Sorted(cmd, S, s)
<1> SUFFICES ASSUME ~ \E s : Sorted(cmd, S, s) PROVE FALSE
  OBVIOUS
<1> DEFINE Bad == {T \in SUBSET S : ~ \E s : Sorted(cmd, T, s)}
<1>1. PICK T \in Bad : \A U \in Bad : ~(<<U, T>> \in StrictSubsetOrdering(S))
  <2>1. Bad \subseteq FiniteSubsetsOf(S) /\ Bad # {}
    <3>1. Bad \subseteq SUBSET S /\ S \in Bad
      OBVIOUS
    <3> HIDE DEF Bad
    <3> QED
      BY <3>1, FS_FiniteSubsetsOfFinite
  <2> HIDE DEF Bad
  <2> QED
    BY <2>1, FS_StrictSubsetOrderingWellFounded, WFMin
<1>2. T \subseteq S /\ IsFiniteSet(T) /\ T \in SUBSET ItemSet
  BY FS_Subset
<1>3. T # {}
  <2>1. Sorted(cmd, {}, [n \in 1..0 |-> 0])
    <3>1. Cardinality({}) = 0 /\ \A n : n \notin 1..0
      BY FS_EmptySet
    <3> QED
      BY <3>1 DEF Sorted
  <2> QED
    BY <2>1
<1>4. PICK last \in T : \A x \in T : ~ Precedes(cmd, last, x)
  <2> DEFINE R == {p \in T \X T : Precedes(cmd, p[1], p[2])}
  <2>1. \A x, y \in T : <<x, y>> \in R <=> Precedes(cmd, x, y)
    OBVIOUS
  <2> HIDE DEF R
  <2>2. /\ \A x \in T : <<x, x>> \notin R
        /\ \A x, y, z \in T : <<x, y>> \in R /\ <<y, z>> \in R => <<x, z>> \in R
    BY <1>2, <2>1, PrecedesOrder
  <2>3. \E m \in T : \A x \in T : <<m, x>> \notin R
    BY <1>2, <1>3, <2>2, Maximal
  <2> QED
    BY <2>1, <2>3
<1>5. \A x \in T \ {last} : Precedes(cmd, x, last)
  BY <1>2, <1>4, PrecedesOrder
<1> DEFINE U == T \ {last}  k == Cardinality(U)
<1>6. Cardinality(T) = k + 1 /\ k \in Nat /\ IsFiniteSet(U)
  <2>1. IsFiniteSet(U) /\ Cardinality(T) \in Nat /\ k \in Nat
    BY <1>2, FS_RemoveElement, FS_CardinalityType
  <2>2. k = Cardinality(T) - 1
    BY <1>2, <1>4, FS_RemoveElement
  <2> HIDE DEF k
  <2> QED
    BY <2>1, <2>2
<1>7. PICK s : Sorted(cmd, U, s)
  <2>1. U \subseteq S /\ U \subseteq T /\ U # T /\ U \in SUBSET S /\ T \in SUBSET S
    BY <1>2
  <2>2. <<U, T>> \in StrictSubsetOrdering(S)
    <3> HIDE DEF U, Bad
    <3> QED
      BY <2>1 DEF StrictSubsetOrdering
  <2> QED
    BY <1>1, <2>1, <2>2
<1> DEFINE t == [n \in 1..(k + 1) |-> IF n = k + 1 THEN last ELSE s[n]]
<1>8. s \in [1..k -> U] /\ \A m, n \in 1..k : m < n => Precedes(cmd, s[m], s[n])
  BY <1>7 DEF Sorted
<1> HIDE DEF k, U
<1>9. U = T \ {last}
  BY DEF U
<1>10. \A n \in 1..(k + 1) : n = k + 1 \/ n \in 1..k
  BY <1>6
<1>11. t \in [1..(k + 1) -> T]
  BY <1>4, <1>8, <1>9, <1>10
<1>12. ASSUME NEW m \in 1..(k + 1), NEW n \in 1..(k + 1), m < n
       PROVE  Precedes(cmd, t[m], t[n])
  <2>1. m \in 1..k /\ t[m] = s[m] /\ t[m] \in U
    BY <1>6, <1>8, <1>12
  <2>2. CASE n = k + 1
    <3>1. t[n] = last
      BY <2>2
    <3> QED
      BY <1>5, <1>9, <2>1, <3>1
  <2>3. CASE n # k + 1
    <3>1. n \in 1..k /\ t[n] = s[n]
      BY <1>10, <2>3
    <3> QED
      BY <1>8, <1>12, <2>1, <3>1
  <2> QED
    BY <2>2, <2>3
<1>13. Sorted(cmd, T, t)
  <2> HIDE DEF t
  <2> QED
    BY <1>6, <1>11, <1>12 DEF Sorted
<1> QED
  BY <1>13

\* ORDER BY gives every item of the set, once, each before those that follow it.
LEMMA OrderedIs ==
  ASSUME NEW cmd, NEW S \in SUBSET ItemSet, IsFiniteSet(S)
  PROVE  LET s == Ordered(cmd, S)
             k == Cardinality(S)
         IN /\ k \in Nat /\ s \in [1..k -> S]
            /\ \A m, n \in 1..k : m < n => Precedes(cmd, s[m], s[n])
            /\ \A m, n \in 1..k : s[m] = s[n] => m = n
            /\ \A x \in S : \E n \in 1..k : s[n] = x
<1> DEFINE k == Cardinality(S)  s == Ordered(cmd, S)
<1>1. Sorted(cmd, S, s)
  <2>1. PICK r : Sorted(cmd, S, r)
    BY Sortable
  <2>2. r \in [1..k -> S] /\ \A m, n \in DOMAIN r : m < n => Precedes(cmd, r[m], r[n])
    BY <2>1 DEF Sorted
  <2>3. s \in [1..k -> S] /\ \A m, n \in DOMAIN s : m < n => Precedes(cmd, s[m], s[n])
    BY <2>2 DEF Ordered
  <2> QED
    BY <2>3 DEF Sorted
<1>2. k \in Nat /\ IsFiniteSet(1..k) /\ Cardinality(1..k) = k
  <2>1. k \in Nat
    BY FS_CardinalityType
  <2> HIDE DEF k
  <2> QED
    BY <2>1, FS_Interval
<1>3. s \in [1..k -> S] /\ \A m, n \in 1..k : m < n => Precedes(cmd, s[m], s[n])
  BY <1>1 DEF Sorted
<1> HIDE DEF s, k
<1>4. ASSUME NEW m \in 1..k, NEW n \in 1..k, s[m] = s[n] PROVE m = n
  <2>1. m < n \/ n < m \/ m = n
    BY <1>2
  <2>2. s[m] \in S
    BY <1>3
  <2> QED
    BY <1>3, <1>4, <2>1, <2>2, PrecedesOrder
<1>5. s \in Injection(1..k, S)
  BY <1>3, <1>4 DEF Injection, IsInjective
<1>6. s \in Surjection(1..k, S)
  BY <1>2, <1>5, FS_Injection DEF k
<1> QED
  BY <1>2, <1>3, <1>4, <1>6 DEF Surjection, s, k

-----------------------------------------------------------------------------
(* The writes, as the tables see them.                                     *)

\* _send_message.
SendWrites(d, new) ==
  \E a, b \in Agents, k \in Keys, c \in Contents, id \in Ids \ DOMAIN d.rows :
    LET conv == ConvOf(d.rows, a, b, id)
    IN /\ ~ OverBudget(d.rows, a)
       /\ new.rows = Insert(d.rows, id, Row(conv, a, b, k, c, clock))
       /\ new.mark = Lift(d.mark, conv, a, b)

\* _agent_send_group_message, whenever it took its date.
GroupWrites(d, new) ==
  \E a \in Agents, k \in Keys \cup {NoKey}, c \in Contents, at \in Nat, id \in Ids \ DOMAIN d.rows :
    /\ ~ OverBudget(d.rows, a)
    /\ new.rows = Insert(d.rows, id, Row(0, a, Group, k, c, at))
    /\ new.mark = d.mark

\* mark_read_conditional.
OpenWrites(d, new) ==
  \E i \in Direct(d.rows) : new.rows = FirstRead(d.rows, i) /\ new.mark = d.mark

\* _mark_conversation_no_reply, and what writes neither rows nor marks.
MarkWrites(d, new) ==
  /\ new.rows = d.rows
  /\ \/ new.mark = d.mark
     \/ \E u \in Readers, c \in Ids :
          LET last == Latest(d.rows, Received(d.rows, c, u))
          IN last # 0 /\ new.mark = [d.mark EXCEPT ![<<u, c>>] = last]

\* A step begins a transaction with one of these writes, commits the one in
\* progress or leaves the tables alone; the clock does not go back.
LEMMA OneWrite ==
  IInv /\ Next =>
    \/ clock' \in Nat /\ clock' >= clock /\ UNCHANGED db /\ (UNCHANGED txn \/ txn' = NoTxn)
    \/ UNCHANGED clock /\ txn # NoTxn /\ db' = txn /\ txn' = NoTxn
    \/ /\ UNCHANGED <<clock, db>> /\ txn = NoTxn
       /\ SendWrites(db, txn') \/ GroupWrites(db, txn') \/ OpenWrites(db, txn') \/ MarkWrites(db, txn')
<1> DEFINE Quiet == /\ clock' \in Nat /\ clock' >= clock
                    /\ UNCHANGED db /\ (UNCHANGED txn \/ txn' = NoTxn)
           Wrote == /\ UNCHANGED <<clock, db>> /\ txn = NoTxn
                    /\ \/ SendWrites(db, txn') \/ GroupWrites(db, txn')
                       \/ OpenWrites(db, txn') \/ MarkWrites(db, txn')
<1> SUFFICES ASSUME IInv, Next PROVE Quiet \/ Commit \/ Wrote
  BY DEF Commit, Locked
<1> HIDE DEF Wrote, Quiet
<1>0. clock \in Nat /\ IsDatabaseRecord(db)
  BY DEF IInv, Typed
<1>1. ASSUME NEW r \in Requests, r[2] # Group, Send(r[1], r[2], r[3], r[4])
      PROVE  Quiet \/ Wrote
  <2> DEFINE a == r[1]  b == r[2]  k == r[3]  c == r[4]  rows == db.rows
  <2>1. a \in Agents /\ b \in Agents /\ k \in Keys /\ c \in Contents
    BY <1>1, MessagingAssumption
  <2>2. txn = NoTxn /\ UNCHANGED <<clock, db>>
    BY <1>1 DEF Send, Locked
  <2>3. CASE UNCHANGED txn
    BY <1>0, <2>2, <2>3 DEF Quiet
  <2>4. CASE ~ UNCHANGED txn
    <3>1. Refusal(a, b) = "none"
          /\ \E id \in Ids \ DOMAIN rows :
             LET conv == ConvOf(rows, a, b, id)
             IN txn' = [db EXCEPT !.rows = Insert(rows, id, Row(conv, a, b, k, c, clock)),
                                  !.mark = Lift(@, conv, a, b)]
      BY <1>1, <2>4 DEF Send
    <3>2. ~ OverBudget(rows, a)
      BY <3>1 DEF Refusal
    <3>3. PICK id \in Ids \ DOMAIN rows :
            LET conv == ConvOf(rows, a, b, id)
            IN txn' = [db EXCEPT !.rows = Insert(rows, id, Row(conv, a, b, k, c, clock)),
                                 !.mark = Lift(@, conv, a, b)]
      BY <3>1
    <3> DEFINE conv == ConvOf(rows, a, b, id)
    <3>4. /\ txn'.rows = Insert(rows, id, Row(conv, a, b, k, c, clock))
          /\ txn'.mark = Lift(db.mark, conv, a, b)
      <4> DEFINE x == Insert(rows, id, Row(conv, a, b, k, c, clock))
                 y == Lift(db.mark, conv, a, b)
      <4>1. txn' = [db EXCEPT !.rows = x, !.mark = y]
        BY <3>3
      <4> HIDE DEF x, y
      <4>2. txn'.rows = x /\ txn'.mark = y
        BY <1>0, <4>1 DEF IsDatabaseRecord
      <4> QED
        BY <4>2 DEF x, y
    <3>5. SendWrites(db, txn')
      BY <2>1, <3>2, <3>3, <3>4 DEF SendWrites
    <3> QED
      BY <2>2, <3>5 DEF Wrote
  <2> QED
    BY <2>3, <2>4
<1>2. ASSUME NEW t \in Threads, SendGroup(t)
      PROVE  Quiet \/ Wrote
  <2> DEFINE w == threads[t]  rows == db.rows
  <2>1. /\ w.from \in Agents /\ w.key \in Keys \cup {NoKey}
        /\ w.content \in Contents /\ w.at \in Nat
    BY <1>2 DEF SendGroup, IInv, Typed, Idle
  <2>2. txn = NoTxn /\ UNCHANGED <<clock, db>>
    BY <1>2 DEF SendGroup, Locked
  <2>3. CASE UNCHANGED txn
    BY <1>0, <2>2, <2>3 DEF Quiet
  <2>4. CASE ~ UNCHANGED txn
    <3>1. GroupRefusal(w.from) = "none"
          /\ \E id \in Ids \ DOMAIN rows :
               txn' = [db EXCEPT !.rows =
                        Insert(rows, id, Row(0, w.from, Group, w.key, w.content, w.at))]
      BY <1>2, <2>4 DEF SendGroup
    <3>2. ~ OverBudget(rows, w.from)
      BY <3>1 DEF GroupRefusal
    <3>3. PICK id \in Ids \ DOMAIN rows :
            txn' = [db EXCEPT !.rows =
                     Insert(rows, id, Row(0, w.from, Group, w.key, w.content, w.at))]
      BY <3>1
    <3>4. /\ txn'.rows = Insert(rows, id, Row(0, w.from, Group, w.key, w.content, w.at))
          /\ txn'.mark = db.mark
      <4> DEFINE x == Insert(rows, id, Row(0, w.from, Group, w.key, w.content, w.at))
      <4>1. txn' = [db EXCEPT !.rows = x]
        BY <3>3
      <4> HIDE DEF x
      <4>2. txn'.rows = x /\ txn'.mark = db.mark
        BY <1>0, <4>1 DEF IsDatabaseRecord
      <4> QED
        BY <4>2 DEF x
    <3> HIDE DEF w
    <3>5. GroupWrites(db, txn')
      BY <2>1, <3>2, <3>3, <3>4 DEF GroupWrites
    <3> QED
      BY <2>2, <3>5 DEF Wrote
  <2> QED
    BY <2>3, <2>4
<1>3. ASSUME NEW t \in Threads, ReadMessage(t)
      PROVE  Wrote
  <2>1. threads[t].id \in Direct(db.rows) /\ txn = NoTxn /\ UNCHANGED <<clock, db>>
    BY <1>3 DEF ReadMessage, Locked, IInv, Typed, Idle
  <2> DEFINE x == FirstRead(db.rows, threads[t].id)
  <2>2. txn' = [db EXCEPT !.rows = x]
    BY <1>3 DEF ReadMessage
  <2> HIDE DEF x
  <2>3. txn'.rows = x /\ txn'.mark = db.mark
    BY <1>0, <2>2 DEF IsDatabaseRecord
  <2>4. OpenWrites(db, txn')
    BY <2>1, <2>3 DEF OpenWrites, x
  <2> QED
    BY <2>1, <2>4 DEF Wrote
<1>4. ASSUME NEW u \in Readers, NEW c \in Ids, MarkNoReply(u, c)
      PROVE  Wrote
  <2> DEFINE last == Latest(db.rows, Received(db.rows, c, u))
  <2>1. /\ txn = NoTxn /\ UNCHANGED <<clock, db>> /\ last # 0
        /\ txn' = [db EXCEPT !.mark[<<u, c>>] = last]
    BY <1>4 DEF MarkNoReply, Locked
  <2> HIDE DEF last
  <2>2. txn'.rows = db.rows /\ txn'.mark = [db.mark EXCEPT ![<<u, c>>] = last]
    <3> DEFINE y == [db.mark EXCEPT ![<<u, c>>] = last]
    <3>1. txn' = [db EXCEPT !.mark = y]
      BY <2>1
    <3> HIDE DEF y
    <3>2. txn'.rows = db.rows /\ txn'.mark = y
      BY <1>0, <3>1 DEF IsDatabaseRecord
    <3> QED
      BY <3>2 DEF y
  <2>3. MarkWrites(db, txn')
    BY <2>1, <2>2 DEF MarkWrites, last
  <2> QED
    BY <2>1, <2>3 DEF Wrote
<1>5. ASSUME NEW by \in Agents, NEW who \in Agents, AddMember(by, who) \/ RemoveMember(by, who)
      PROVE  Wrote
  <2>1. /\ txn = NoTxn /\ UNCHANGED <<clock, db>>
        /\ \E x : txn' = [db EXCEPT !.members = x]
    BY <1>5 DEF AddMember, RemoveMember, Locked
  <2>2. txn'.rows = db.rows /\ txn'.mark = db.mark
    BY <1>0, <2>1 DEF IsDatabaseRecord
  <2> QED
    BY <2>1, <2>2 DEF MarkWrites, Wrote
<1>6. ASSUME UNCHANGED <<clock, db, txn>> PROVE Quiet
  BY <1>0, <1>6 DEF Quiet
<1>7. CASE SendNext
  BY <1>1, <1>2, <1>6, <1>7 DEF SendNext, DateGroupMessage
<1>8. CASE ReadNext
  BY <1>3, <1>4, <1>6, <1>8 DEF ReadNext, LookToRead
<1>9. CASE MemberNext
  BY <1>5, <1>9 DEF MemberNext
<1>10. CASE PageNext
  BY <1>6, <1>10 DEF PageNext, FirstPage, ReadPage, Forget
<1>11. CASE Crash
  BY <1>0, <1>11 DEF Crash, Quiet
<1>12. CASE OrgCommand
  BY <1>6, <1>12 DEF OrgCommand
<1>13. CASE Tick
  BY <1>0, <1>13 DEF Tick, Quiet
<1> QED
  BY <1>7, <1>8, <1>9, <1>10, <1>11, <1>12, <1>13 DEF Next

-----------------------------------------------------------------------------
(* The tables: what a mark names and what counts against a budget.         *)

\* Row m is in S and the others come before it.
LastOf(rows, S, m) == m \in S /\ \A j \in S \ {m} : Before(rows, j, m)

Shape(d) ==
  /\ TableOk(d.rows)
  /\ DOMAIN d.rows \subseteq Ids /\ IsFiniteSet(DOMAIN d.rows)
  /\ \A i \in Direct(d.rows) : d.rows[i].conv \in Ids
  /\ d.mark \in [Agents \X Ids -> Ids \cup {0}]

\* A mark names the last message received: not what CHOOSE would give of none.
Marked(d) ==
  \A u \in Agents, c \in Ids :
    d.mark[<<u, c>>] # 0 => LastOf(d.rows, Received(d.rows, c, u), d.mark[<<u, c>>])

\* Also of a transaction in progress, at any date it may commit.
Spent(d) ==
  \A a \in Agents : Budget[a] # NoLimit =>
    Cardinality(SentSince(d.rows, a, clock - Hour)) <= Budget[a]

\* Rows stay where they are, and as read as they were.
Extends(old, new) ==
  \A i \in DOMAIN old :
    /\ i \in DOMAIN new
    /\ new[i].from = old[i].from /\ new[i].to = old[i].to
    /\ new[i].conv = old[i].conv /\ new[i].at = old[i].at
    /\ old[i].read # 0 => new[i].read = old[i].read

Tables(d) == Shape(d) /\ Marked(d) /\ Spent(d)

\* It holds of what is committed and of what the transaction in progress will
\* commit, which only adds.
TablesInv ==
  /\ Tables(db)
  /\ txn # NoTxn => Tables(txn) /\ Extends(db.rows, txn.rows)

LEMMA RowsOf ==
  ASSUME NEW d, Shape(d)
  PROVE  /\ DOMAIN d.rows \subseteq Nat
         /\ \A i \in DOMAIN d.rows :
              /\ d.rows[i] \in RowSet /\ d.rows[i].at \in Nat /\ d.rows[i].read \in Nat
              /\ i \in Ids /\ i \in Nat \ {0}
         /\ \A c, u : /\ Received(d.rows, c, u) \subseteq Direct(d.rows)
                      /\ Received(d.rows, c, u) \subseteq DOMAIN d.rows
         /\ Direct(d.rows) \subseteq DOMAIN d.rows
<1>1. \A i \in DOMAIN d.rows : d.rows[i] \in RowSet
  BY DEF Shape, TableOk
<1>2. \A i \in DOMAIN d.rows : d.rows[i].at \in Nat /\ d.rows[i].read \in Nat
  BY <1>1 DEF RowSet
<1> QED
  BY <1>1, <1>2, MessagingAssumption DEF Shape, Received, InConv, Direct

\* The only one that comes last.
LEMMA LatestIs ==
  ASSUME NEW rows, NEW S, S \subseteq Nat, \A i \in S : rows[i].at \in Nat,
         NEW m, LastOf(rows, S, m)
  PROVE  Latest(rows, S) = m
<1>1. S # {}
  BY DEF LastOf
<1> DEFINE l == CHOOSE i \in S : \A j \in S \ {i} : Before(rows, j, i)
<1>2. l \in S /\ \A j \in S \ {l} : Before(rows, j, l)
  BY DEF LastOf
<1> HIDE DEF l
<1>3. l = m
  BY <1>2, BeforeOrder DEF LastOf
<1> QED
  BY <1>1, <1>3 DEF Latest, l

LEMMA LatestOf ==
  ASSUME NEW d, Shape(d), NEW S, S \subseteq DOMAIN d.rows, S # {}
  PROVE  LastOf(d.rows, S, Latest(d.rows, S))
<1>1. IsFiniteSet(S)
  BY FS_Subset DEF Shape
<1>2. S \subseteq Nat /\ \A i \in S : d.rows[i].at \in Nat
  BY RowsOf
<1> QED
  BY <1>1, <1>2, HasLatest DEF LastOf

\* What opening a message changes.
LEMMA Opened ==
  ASSUME NEW rows, TableOk(rows), NEW i \in Direct(rows)
  PROVE  LET new == FirstRead(rows, i)
         IN /\ DOMAIN new = DOMAIN rows
            /\ \A j \in DOMAIN rows :
                 /\ new[j].from = rows[j].from /\ new[j].to = rows[j].to
                 /\ new[j].conv = rows[j].conv /\ new[j].at = rows[j].at
            /\ Extends(rows, new)
<1> DEFINE new == FirstRead(rows, i)
           date == IF rows[i].read = 0 THEN clock ELSE rows[i].read
           row == [conv |-> rows[i].conv, from |-> rows[i].from, to |-> rows[i].to,
                   key |-> rows[i].key, content |-> rows[i].content, at |-> rows[i].at,
                   read |-> date]
<1>1. i \in DOMAIN rows /\ rows[i] \in RowSet /\ rows \in [DOMAIN rows -> RowSet]
  BY DEF Direct, TableOk
<1>2. new = [rows EXCEPT ![i] = row]
  <2>1. [rows[i] EXCEPT !.read = date] = row
    BY <1>1 DEF RowSet
  <2>2. new = [rows EXCEPT ![i] = [rows[i] EXCEPT !.read = date]]
    BY DEF FirstRead
  <2> QED
    BY <2>1, <2>2
<1>3. /\ row.from = rows[i].from /\ row.to = rows[i].to /\ row.conv = rows[i].conv
      /\ row.at = rows[i].at /\ (rows[i].read # 0 => row.read = rows[i].read)
  OBVIOUS
<1> HIDE DEF new, row
<1>4. DOMAIN new = DOMAIN rows /\ new[i] = row /\ \A j \in DOMAIN rows : j # i => new[j] = rows[j]
  BY <1>1, <1>2
<1> QED
  BY <1>3, <1>4 DEF Extends, new

\* A row inserted for a sender below its budget: at most one more, whatever date
\* it carries.
LEMMA InsertSpends ==
  ASSUME NEW d, NEW new, Shape(d), Spent(d), clock \in Nat, NEW a \in Agents, ~ OverBudget(d.rows, a),
         NEW id, id \notin DOMAIN d.rows, NEW row, row.from = a,
         new.rows = Insert(d.rows, id, row)
  PROVE  Spent(new)
<1> SUFFICES ASSUME NEW x \in Agents, Budget[x] # NoLimit
             PROVE  Cardinality(SentSince(new.rows, x, clock - Hour)) <= Budget[x]
  BY DEF Spent
<1> DEFINE old == SentSince(d.rows, x, clock - Hour)
           now == SentSince(new.rows, x, clock - Hour)
<1>1. /\ DOMAIN new.rows = DOMAIN d.rows \cup {id} /\ new.rows[id] = row
      /\ \A i \in DOMAIN d.rows : new.rows[i] = d.rows[i]
  BY DEF Insert
<1>2. now \subseteq old \cup {id} /\ (x # a => now \subseteq old)
  BY <1>1 DEF SentSince
<1>3. IsFiniteSet(old) /\ Cardinality(old) \in Nat
  <2>1. old \subseteq DOMAIN d.rows
    BY DEF SentSince
  <2> QED
    BY <2>1, FS_Subset, FS_CardinalityType DEF Shape
<1>4. Budget[x] \in Nat
  BY MessagingAssumption
<1>5. Cardinality(old) <= Budget[x] /\ (x = a => ~(Cardinality(old) >= Budget[x]))
  BY DEF Spent, OverBudget
<1> HIDE DEF old, now
<1>6. CASE x = a
  <2>1. IsFiniteSet(old \cup {id}) /\ Cardinality(old \cup {id}) <= Cardinality(old) + 1
        /\ Cardinality(old \cup {id}) \in Nat
    <3>1. /\ IsFiniteSet(old \cup {id})
          /\ Cardinality(old \cup {id}) =
               IF id \in old THEN Cardinality(old) ELSE Cardinality(old) + 1
      BY <1>3, FS_AddElement
    <3> QED
      BY <1>3, <3>1
  <2>2. Cardinality(now) <= Cardinality(old \cup {id}) /\ Cardinality(now) \in Nat
    BY <1>2, <2>1, FS_Subset, FS_CardinalityType
  <2>3. Cardinality(old) + 1 <= Budget[x]
    BY <1>3, <1>4, <1>5, <1>6
  <2> QED
    BY <1>3, <1>4, <2>1, <2>2, <2>3 DEF now
<1>7. CASE x # a
  <2>1. Cardinality(now) <= Cardinality(old) /\ Cardinality(now) \in Nat
    BY <1>2, <1>3, <1>7, FS_Subset, FS_CardinalityType
  <2> QED
    BY <1>3, <1>4, <1>5, <2>1 DEF now
<1> QED
  BY <1>6, <1>7

\* What was not written keeps its place in the order.
LEMMA LastStays ==
  ASSUME NEW rows, NEW new, NEW S, NEW m, LastOf(rows, S, m),
         \A i \in S : new[i].at = rows[i].at
  PROVE  LastOf(new, S, m)
BY DEF LastOf, Before

LEMMA SendTables ==
  ASSUME Tables(db), clock \in Nat, NEW new, TableOk(new.rows), SendWrites(db, new)
  PROVE  Tables(new) /\ Extends(db.rows, new.rows)
<1> DEFINE rows == db.rows
<1>1. PICK a \in Agents, b \in Agents, k \in Keys, c \in Contents, id \in Ids \ DOMAIN rows :
        /\ ~ OverBudget(rows, a)
        /\ new.rows = Insert(rows, id, Row(ConvOf(rows, a, b, id), a, b, k, c, clock))
        /\ new.mark = Lift(db.mark, ConvOf(rows, a, b, id), a, b)
  BY DEF SendWrites
<1> DEFINE conv == ConvOf(rows, a, b, id)
           row  == Row(conv, a, b, k, c, clock)
<1>2. /\ DOMAIN new.rows = DOMAIN rows \cup {id} /\ new.rows[id] = row
      /\ \A i \in DOMAIN rows : new.rows[i] = rows[i]
      /\ Extends(rows, new.rows)
  BY <1>1 DEF Insert, Extends
<1>3. row.from = a /\ row.to = b /\ row.conv = conv
  BY DEF Row
<1>4. conv \in Ids
  <2>1. CASE Between(rows, a, b) = {}
    BY <2>1 DEF ConvOf
  <2>2. CASE Between(rows, a, b) # {}
    <3>1. PICK i \in Between(rows, a, b) : conv = rows[i].conv
      BY <2>2 DEF ConvOf
    <3> QED
      BY <3>1 DEF Between, Tables, Shape
  <2> QED
    BY <2>1, <2>2
<1> HIDE DEF conv, row
<1>5. Direct(new.rows) \subseteq Direct(rows) \cup {id}
  BY <1>2 DEF Direct
<1>6. new.mark \in [Agents \X Ids -> Ids \cup {0}]
  BY <1>1 DEF Lift, Tables, Shape
<1>7. Shape(new)
  <2>1. IsFiniteSet(DOMAIN new.rows)
    BY <1>2, FS_AddElement DEF Tables, Shape
  <2>2. \A i \in Direct(new.rows) : new.rows[i].conv \in Ids
    <3>1. \A i \in Direct(rows) : i \in DOMAIN rows
      BY DEF Direct
    <3> QED
      BY <1>2, <1>3, <1>4, <1>5, <3>1 DEF Tables, Shape
  <2> QED
    BY <1>2, <1>6, <2>1, <2>2 DEF Tables, Shape
<1>8. Marked(new)
  <2> SUFFICES ASSUME NEW u \in Agents, NEW d \in Ids, new.mark[<<u, d>>] # 0
               PROVE  LastOf(new.rows, Received(new.rows, d, u), new.mark[<<u, d>>])
    BY DEF Marked
  <2>1. new.mark[<<u, d>>] = db.mark[<<u, d>>] /\ (d # conv \/ u # b)
    BY <1>1 DEF Lift, Tables, Shape, conv
  <2>2. Received(new.rows, d, u) = Received(rows, d, u)
    BY <1>2, <1>3, <2>1 DEF Received, InConv, Direct
  <2>3. LastOf(rows, Received(rows, d, u), db.mark[<<u, d>>])
    BY <2>1 DEF Tables, Marked
  <2>4. \A i \in Received(rows, d, u) : new.rows[i].at = rows[i].at
    BY <1>2 DEF Received, InConv, Direct
  <2> QED
    BY <2>1, <2>2, <2>3, <2>4, LastStays
<1>9. Spent(new)
  BY <1>1, <1>3, InsertSpends DEF Tables, row, conv
<1> QED
  BY <1>2, <1>7, <1>8, <1>9 DEF Tables

LEMMA GroupTables ==
  ASSUME Tables(db), clock \in Nat, NEW new, TableOk(new.rows), GroupWrites(db, new)
  PROVE  Tables(new) /\ Extends(db.rows, new.rows)
<1> DEFINE rows == db.rows
<1>1. PICK a \in Agents, k \in Keys \cup {NoKey}, c \in Contents, at \in Nat, id \in Ids \ DOMAIN rows :
        /\ ~ OverBudget(rows, a)
        /\ new.rows = Insert(rows, id, Row(0, a, Group, k, c, at))
        /\ new.mark = db.mark
  BY DEF GroupWrites
<1> DEFINE row == Row(0, a, Group, k, c, at)
<1>2. /\ DOMAIN new.rows = DOMAIN rows \cup {id} /\ new.rows[id] = row
      /\ \A i \in DOMAIN rows : new.rows[i] = rows[i]
      /\ Extends(rows, new.rows)
  BY <1>1 DEF Insert, Extends
<1>3. row.from = a /\ row.to = Group
  BY DEF Row
<1> HIDE DEF row
<1>4. Direct(new.rows) = Direct(rows) /\ \A i \in Direct(rows) : i \in DOMAIN rows
  BY <1>2, <1>3 DEF Direct
<1>5. Shape(new)
  <2>1. IsFiniteSet(DOMAIN new.rows)
    BY <1>2, FS_AddElement DEF Tables, Shape
  <2> QED
    BY <1>1, <1>2, <1>4, <2>1 DEF Tables, Shape
<1>6. Marked(new)
  <2> SUFFICES ASSUME NEW u \in Agents, NEW d \in Ids, new.mark[<<u, d>>] # 0
               PROVE  LastOf(new.rows, Received(new.rows, d, u), new.mark[<<u, d>>])
    BY DEF Marked
  <2>1. Received(new.rows, d, u) = Received(rows, d, u)
    BY <1>2, <1>4 DEF Received, InConv
  <2>2. LastOf(rows, Received(rows, d, u), new.mark[<<u, d>>])
    BY <1>1 DEF Tables, Marked
  <2>3. \A i \in Received(rows, d, u) : new.rows[i].at = rows[i].at
    BY <1>2, <1>4 DEF Received, InConv
  <2> QED
    BY <2>1, <2>2, <2>3, LastStays
<1>7. Spent(new)
  BY <1>1, <1>3, InsertSpends DEF Tables, row
<1> QED
  BY <1>2, <1>5, <1>6, <1>7 DEF Tables

LEMMA OpenTables ==
  ASSUME Tables(db), NEW new, TableOk(new.rows), OpenWrites(db, new)
  PROVE  Tables(new) /\ Extends(db.rows, new.rows)
<1> DEFINE rows == db.rows
<1>1. PICK o \in Direct(rows) : new.rows = FirstRead(rows, o) /\ new.mark = db.mark
  BY DEF OpenWrites
<1>2. /\ DOMAIN new.rows = DOMAIN rows
      /\ \A j \in DOMAIN rows :
           /\ new.rows[j].from = rows[j].from /\ new.rows[j].to = rows[j].to
           /\ new.rows[j].conv = rows[j].conv /\ new.rows[j].at = rows[j].at
      /\ Extends(rows, new.rows)
  BY <1>1, Opened DEF Tables, Shape
<1>3. Direct(new.rows) = Direct(rows) /\ \A i \in Direct(rows) : i \in DOMAIN rows
  BY <1>2 DEF Direct
<1>4. Shape(new)
  BY <1>1, <1>2, <1>3 DEF Tables, Shape
<1>5. Marked(new)
  <2> SUFFICES ASSUME NEW u \in Agents, NEW d \in Ids, new.mark[<<u, d>>] # 0
               PROVE  LastOf(new.rows, Received(new.rows, d, u), new.mark[<<u, d>>])
    BY DEF Marked
  <2>1. Received(new.rows, d, u) = Received(rows, d, u)
    BY <1>2, <1>3 DEF Received, InConv
  <2>2. LastOf(rows, Received(rows, d, u), new.mark[<<u, d>>])
    BY <1>1 DEF Tables, Marked
  <2>3. \A i \in Received(rows, d, u) : new.rows[i].at = rows[i].at
    BY <1>2, <1>3 DEF Received, InConv
  <2> QED
    BY <2>1, <2>2, <2>3, LastStays
<1>6. \A x, s : SentSince(new.rows, x, s) = SentSince(rows, x, s)
  BY <1>2 DEF SentSince
<1>7. Spent(new)
  BY <1>6 DEF Tables, Spent
<1> QED
  BY <1>2, <1>4, <1>5, <1>7 DEF Tables

LEMMA MarkTables ==
  ASSUME Tables(db), NEW new, MarkWrites(db, new)
  PROVE  Tables(new) /\ Extends(db.rows, new.rows)
<1>1. new.rows = db.rows
  BY DEF MarkWrites
<1>2. Extends(db.rows, new.rows) /\ Spent(new)
  BY <1>1 DEF Extends, Tables, Spent
<1>3. CASE new.mark = db.mark
  BY <1>1, <1>2, <1>3 DEF Tables, Shape, Marked
<1>4. CASE new.mark # db.mark
  <2>1. PICK u \in Readers, c \in Ids :
          LET last == Latest(db.rows, Received(db.rows, c, u))
          IN last # 0 /\ new.mark = [db.mark EXCEPT ![<<u, c>>] = last]
    BY <1>4 DEF MarkWrites
  <2> DEFINE S == Received(db.rows, c, u)  last == Latest(db.rows, S)
  <2>2. LastOf(db.rows, S, last) /\ last \in Ids
    <3>1. S # {}
      BY <2>1 DEF Latest
    <3>2. LastOf(db.rows, S, last) /\ S \subseteq Ids
      BY <3>1, LatestOf, RowsOf DEF Tables, Shape
    <3> QED
      BY <3>2 DEF LastOf
  <2> HIDE DEF S, last
  <2>3. new.mark = [db.mark EXCEPT ![<<u, c>>] = last]
    BY <2>1 DEF S, last
  <2>4. Shape(new)
    BY <1>1, <2>2, <2>3 DEF Tables, Shape
  <2>5. Marked(new)
    <3> SUFFICES ASSUME NEW v \in Agents, NEW d \in Ids, new.mark[<<v, d>>] # 0
                 PROVE  LastOf(db.rows, Received(db.rows, d, v), new.mark[<<v, d>>])
      BY <1>1 DEF Marked
    <3>1. CASE v = u /\ d = c
      BY <2>2, <2>3, <3>1 DEF S, Tables, Shape
    <3>2. CASE ~(v = u /\ d = c)
      <4>1. new.mark[<<v, d>>] = db.mark[<<v, d>>]
        BY <2>3, <3>2 DEF Tables, Shape
      <4> QED
        BY <4>1 DEF Tables, Marked
    <3> QED
      BY <3>1, <3>2
  <2> QED
    BY <1>2, <2>4, <2>5 DEF Tables
<1> QED
  BY <1>3, <1>4

\* Time passes: what counts against a budget only falls.
LEMMA TimePasses ==
  ASSUME clock \in Nat, clock' \in Nat, clock' >= clock, NEW d, Tables(d)
  PROVE  \A a \in Agents : Budget[a] # NoLimit =>
           Cardinality(SentSince(d.rows, a, clock' - Hour)) <= Budget[a]
<1> SUFFICES ASSUME NEW a \in Agents, Budget[a] # NoLimit
             PROVE  Cardinality(SentSince(d.rows, a, clock' - Hour)) <= Budget[a]
  OBVIOUS
<1> DEFINE old == SentSince(d.rows, a, clock - Hour)
           now == SentSince(d.rows, a, clock' - Hour)
<1>1. IsFiniteSet(old)
  <2>1. old \subseteq DOMAIN d.rows
    BY DEF SentSince
  <2> QED
    BY <2>1, FS_Subset DEF Tables, Shape
<1>2. now \subseteq old
  <2>1. Hour \in Nat
    BY MessagingAssumption
  <2>2. \A i \in DOMAIN d.rows : d.rows[i].at \in Nat
    BY RowsOf DEF Tables
  <2>3. \A x \in Nat : x > clock' - Hour => x > clock - Hour
    <3>1. \A p, q, h, x \in Nat : q >= p /\ x > q - h => x > p - h
      OBVIOUS
    <3> QED
      BY <2>1, <3>1
  <2> QED
    BY <2>2, <2>3 DEF SentSince
<1>3. Budget[a] \in Nat /\ Cardinality(old) <= Budget[a]
  BY MessagingAssumption DEF Tables, Spent
<1>4. Cardinality(now) <= Cardinality(old) /\ Cardinality(now) \in Nat /\ Cardinality(old) \in Nat
  <2> HIDE DEF old, now
  <2> QED
    BY <1>1, <1>2, FS_Subset, FS_CardinalityType
<1> QED
  BY <1>3, <1>4

LEMMA InitTablesInv == Init => TablesInv
<1> SUFFICES ASSUME Init PROVE TablesInv
  OBVIOUS
<1>1. DOMAIN db.rows = {} /\ Direct(db.rows) = {} /\ txn = NoTxn
  BY DEF Init, Direct
<1>2. TableOk(db.rows)
  BY InitIInv DEF IInv, Typed
<1>3. /\ db.mark \in [Agents \X Ids -> Ids \cup {0}]
      /\ \A u \in Agents, c \in Ids : db.mark[<<u, c>>] = 0
  BY DEF Init
<1>4. Shape(db) /\ Marked(db)
  BY <1>1, <1>2, <1>3, FS_EmptySet DEF Shape, Marked
<1>5. Spent(db)
  <2>1. \A a : SentSince(db.rows, a, clock - Hour) = {}
    BY <1>1 DEF SentSince
  <2>2. \A a \in Agents : Budget[a] # NoLimit => Budget[a] \in Nat
    BY MessagingAssumption
  <2> QED
    BY <2>1, <2>2, FS_EmptySet DEF Spent
<1> QED
  BY <1>1, <1>4, <1>5 DEF TablesInv, Tables

LEMMA StepTablesInv == IInv /\ TablesInv /\ [Next]_vars => TablesInv'
<1> SUFFICES ASSUME IInv, TablesInv, [Next]_vars PROVE TablesInv'
  OBVIOUS
<1>0. clock \in Nat
  BY DEF IInv, Typed
<1>1. ASSUME UNCHANGED db, UNCHANGED txn \/ txn' = NoTxn, clock' \in Nat, clock' >= clock
      PROVE  TablesInv'
  <2>1. ASSUME NEW d, Tables(d)
        PROVE  \A a \in Agents : Budget[a] # NoLimit =>
                 Cardinality(SentSince(d.rows, a, clock' - Hour)) <= Budget[a]
    BY <1>0, <1>1, <2>1, TimePasses
  <2>2. Tables(db)'
    BY <1>1, <2>1 DEF TablesInv, Tables, Spent
  <2>3. txn' # NoTxn => Tables(txn)' /\ Extends(db.rows, txn.rows)'
    BY <1>1, <2>1 DEF TablesInv, Tables, Spent
  <2> QED
    BY <2>2, <2>3 DEF TablesInv
<1>2. ASSUME txn # NoTxn, db' = txn, txn' = NoTxn, UNCHANGED clock PROVE TablesInv'
  <2>1. Tables(txn)
    BY <1>2 DEF TablesInv
  <2>2. Tables(db)'
    BY <1>2, <2>1 DEF Tables, Spent
  <2> QED
    BY <1>2, <2>2 DEF TablesInv
<1>3. ASSUME UNCHANGED <<clock, db>>, txn = NoTxn,
             \/ SendWrites(db, txn') \/ GroupWrites(db, txn')
             \/ OpenWrites(db, txn') \/ MarkWrites(db, txn')
      PROVE  TablesInv'
  <2>1. CASE txn' = NoTxn
    BY <1>0, <1>1, <1>3, <2>1
  <2>2. CASE txn' # NoTxn
    <3>1. TableOk(txn'.rows)
      BY <2>2, StepIInv DEF IInv, Pending
    <3>2. Tables(db)
      BY DEF TablesInv
    <3> DEFINE new == txn'
    <3>3. Tables(new) /\ Extends(db.rows, new.rows)
      <4> HIDE DEF new
      <4> QED
      BY <1>0, <1>3, <3>1, <3>2, SendTables, GroupTables, OpenTables, MarkTables DEF new
    <3>4. Tables(db)' /\ Tables(txn)'
      BY <1>3, <3>2, <3>3 DEF Tables, Spent
    <3> QED
      BY <1>3, <3>3, <3>4 DEF TablesInv
  <2> QED
    BY <2>1, <2>2
<1>4. CASE UNCHANGED vars
  BY <1>0, <1>1, <1>4 DEF vars
<1>5. CASE Next
  BY <1>1, <1>2, <1>3, <1>5, OneWrite
<1> QED
  BY <1>4, <1>5

-----------------------------------------------------------------------------
(* Listings page by page.                                                  *)
\* The item of a row.
Key(rows, i) == Item(rows[i].at, i)

PageRecord(p) ==
  p = [phase |-> p.phase, cmd |-> p.cmd, user |-> p.user, filter |-> p.filter,
       boundary |-> p.boundary, last |-> p.last, got |-> p.got, first |-> p.first]

\* A listing that nothing drops out of.
Whole(p) == ~ (p.cmd = "get_messages" /\ p.filter = "unread")

\* What was given lies at or before the cursor, what was there at the first page
\* and was not given lies after it and is still there.
Listing(p) ==
  /\ p.got \in Seq(DOMAIN db.rows) /\ IsInjective(p.got)
  /\ p.phase = "asked" => p.got = <<>> /\ p.last = <<>>
  /\ p.phase = "open" =>
       /\ p.last # <<>> /\ p.last[1] \in ItemSet
       /\ \A n \in 1..Len(p.got) : ~ Precedes(p.cmd, p.last[1], Key(db.rows, p.got[n]))
  /\ Whole(p) /\ p.phase = "open" =>
       \A i \in p.first \ Range(p.got) :
         /\ Precedes(p.cmd, p.last[1], Key(db.rows, i))
         /\ i \in DOMAIN db.rows /\ Key(db.rows, i) \in Items(p.cmd, p.user, p.filter, p.boundary)
  /\ Whole(p) /\ p.phase = "done" => p.first \subseteq Range(p.got)

PageInv ==
  page # NoPage =>
    /\ PageRecord(page) /\ page.phase \in {"asked", "open", "done"}
    /\ page.cmd \in PagedByRow => Listing(page)

\* The listings of messages, row by row.
LEMMA ItemsAre ==
  ASSUME Shape(db), NEW cmd \in PagedByRow, NEW u, NEW f, NEW b
  PROVE  /\ \A x \in Items(cmd, u, f, b) :
              \E i \in DOMAIN db.rows : x = Key(db.rows, i) /\ x.id = i
         /\ Items(cmd, u, f, b) \in SUBSET ItemSet
         /\ IsFiniteSet(Items(cmd, u, f, b))
<1> DEFINE rows == db.rows  items == Items(cmd, u, f, b)
<1>1. ASSUME NEW S, S \subseteq DOMAIN rows, NEW x \in RowItems(UpTo(rows, S, b))
      PROVE  \E i \in DOMAIN rows : x = Key(rows, i) /\ x.id = i
  BY <1>1 DEF RowItems, UpTo, Key, Item
<1>2. /\ {i \in {j \in Direct(rows) : rows[j].to = u} :
            CASE f = "unread" -> ~ ReadBy(rows, i, b)
              [] f = "read"   -> ReadBy(rows, i, b)
              [] OTHER        -> TRUE} \subseteq DOMAIN rows
      /\ Between(rows, u, f) \subseteq DOMAIN rows
      /\ Grouped(rows) \subseteq DOMAIN rows
      /\ InConv(rows, f) \subseteq DOMAIN rows
  BY DEF Between, Grouped, InConv, Direct
<1>3. \A x \in items : \E i \in DOMAIN rows : x = Key(rows, i) /\ x.id = i
  <2>1. CASE cmd = "get_messages"
    BY <1>1, <1>2, <2>1 DEF Items
  <2>2. CASE cmd = "get_conversation"
    BY <1>1, <1>2, <2>2 DEF Items
  <2>3. CASE cmd = "get_org_conversation"
    BY <1>1, <1>2, <2>3 DEF Items
  <2>4. CASE cmd = "get_group_messages"
    BY <1>1, <1>2, <2>4 DEF Items
  <2> QED
    BY <2>1, <2>2, <2>3, <2>4 DEF PagedByRow
<1>4. \A i \in DOMAIN rows : Key(rows, i) \in ItemSet
  <2>1. \A i \in DOMAIN rows : i \in Nat /\ rows[i].at \in Nat
    BY RowsOf
  <2> QED
    BY <2>1 DEF Key, Item, ItemSet
<1> HIDE DEF items
<1>5. IsFiniteSet(items)
  <2> DEFINE K == {Key(rows, i) : i \in DOMAIN rows}
             key == [i \in DOMAIN rows |-> Key(rows, i)]
  <2>1. key \in Surjection(DOMAIN rows, K)
    BY DEF Surjection
  <2> HIDE DEF key
  <2>2. IsFiniteSet(K)
    <3> HIDE DEF K
    <3> QED
      BY <2>1, FS_Surjection DEF Shape
  <2>3. items \subseteq K
    BY <1>3
  <2> HIDE DEF K
  <2> QED
    BY <2>2, <2>3, FS_Subset
<1> QED
  BY <1>3, <1>4, <1>5 DEF items

\* What is committed later adds to a listing, and takes nothing from it: rows
\* are not removed and a message that was read stays so.
LEMMA ItemsGrow ==
  ASSUME Shape(db), Extends(db.rows, db'.rows), NEW cmd \in PagedByRow, NEW u, NEW f, NEW b,
         ~ (cmd = "get_messages" /\ f = "unread")
  PROVE  \A i \in DOMAIN db.rows :
           Key(db.rows, i) \in Items(cmd, u, f, b) => Key(db'.rows, i) \in Items(cmd, u, f, b)'
<1> DEFINE old == db.rows  new == db'.rows
           Mine(rows) == {i \in {j \in Direct(rows) : rows[j].to = u} :
                            CASE f = "unread" -> ~ ReadBy(rows, i, b)
                              [] f = "read"   -> ReadBy(rows, i, b)
                              [] OTHER        -> TRUE}
<1>1. \A i \in DOMAIN old : i \in DOMAIN new /\ Key(new, i) = Key(old, i)
  BY DEF Extends, Key
<1>2. ASSUME NEW S, NEW T, S \subseteq T, S \subseteq DOMAIN old, NEW i \in DOMAIN old,
             Key(old, i) \in RowItems(UpTo(old, S, b))
      PROVE  Key(new, i) \in {Item(new[j].at, j) : j \in UpTo(new, T, b)}
  <2>1. PICK j \in S : Key(old, i) = Item(old[j].at, j) /\ old[j].at <= b
    BY <1>2 DEF RowItems, UpTo
  <2>2. j = i
    BY <2>1 DEF Key, Item
  <2>3. i \in UpTo(new, T, b)
    BY <1>2, <2>1, <2>2 DEF UpTo, Extends
  <2> QED
    BY <2>3 DEF Key
<1>3. \A S : RowItems(S)' = {Item(new[j].at, j) : j \in S'}
  BY DEF RowItems
<1>4. /\ Direct(old) \subseteq Direct(new) /\ Direct(old) \subseteq DOMAIN old
      /\ Grouped(old) \subseteq Grouped(new) /\ Grouped(old) \subseteq DOMAIN old
  BY DEF Extends, Direct, Grouped
<1>5. InConv(old, f) \subseteq InConv(new, f) /\ InConv(old, f) \subseteq DOMAIN old
  BY <1>4 DEF Extends, InConv
<1>6. Between(old, u, f) \subseteq Between(new, u, f) /\ Between(old, u, f) \subseteq DOMAIN old
  BY <1>4 DEF Extends, Between
<1>7. ASSUME cmd = "get_messages" PROVE Mine(old) \subseteq Mine(new) /\ Mine(old) \subseteq DOMAIN old
  <2>1. f # "unread"
    BY <1>7
  <2>2. \A i \in Direct(old) : ReadBy(old, i, b) => ReadBy(new, i, b)
    BY <1>4 DEF Extends, ReadBy
  <2> QED
    BY <1>4, <2>1, <2>2 DEF Extends
<1> SUFFICES ASSUME NEW i \in DOMAIN old, Key(old, i) \in Items(cmd, u, f, b)
             PROVE  Key(new, i) \in Items(cmd, u, f, b)'
  OBVIOUS
<1>8. CASE cmd = "get_messages"
  <2>1. /\ Items(cmd, u, f, b) = RowItems(UpTo(old, Mine(old), b))
        /\ Items(cmd, u, f, b)' = {Item(new[j].at, j) : j \in UpTo(new, Mine(new), b)}
    BY <1>8 DEF Items, RowItems
  <2> HIDE DEF Mine
  <2> QED
    BY <1>2, <1>7, <1>8, <2>1
<1>9. CASE cmd = "get_conversation"
  <2>1. /\ Items(cmd, u, f, b) = RowItems(UpTo(old, Between(old, u, f), b))
        /\ Items(cmd, u, f, b)' = {Item(new[j].at, j) : j \in UpTo(new, Between(new, u, f), b)}
    BY <1>9 DEF Items, RowItems
  <2> QED
    BY <1>2, <1>6, <2>1
<1>10. CASE cmd = "get_group_messages"
  <2>1. /\ Items(cmd, u, f, b) = RowItems(UpTo(old, Grouped(old), b))
        /\ Items(cmd, u, f, b)' = {Item(new[j].at, j) : j \in UpTo(new, Grouped(new), b)}
    BY <1>10 DEF Items, RowItems
  <2> QED
    BY <1>2, <1>4, <2>1
<1>11. CASE cmd = "get_org_conversation"
  <2>1. /\ Items(cmd, u, f, b) = RowItems(UpTo(old, InConv(old, f), b))
        /\ Items(cmd, u, f, b)' = {Item(new[j].at, j) : j \in UpTo(new, InConv(new, f), b)}
    BY <1>11 DEF Items, RowItems
  <2> QED
    BY <1>2, <1>5, <2>1
<1> QED
  BY <1>8, <1>9, <1>10, <1>11 DEF PagedByRow

\* A commit between two pages.
LEMMA PageStays ==
  ASSUME PageInv, Shape(db), Extends(db.rows, db'.rows), UNCHANGED page
  PROVE  PageInv'
<1> SUFFICES ASSUME page # NoPage, page.cmd \in PagedByRow
             PROVE  Listing(page)'
  BY DEF PageInv
<1>0. Listing(page)
  BY DEF PageInv
<1>1. \A i \in DOMAIN db.rows : i \in DOMAIN db'.rows /\ Key(db'.rows, i) = Key(db.rows, i)
  BY DEF Extends, Key
<1> DEFINE cmd == page.cmd  got == page.got
<1>2. got \in Seq(DOMAIN db'.rows) /\ \A n \in 1..Len(got) : got[n] \in DOMAIN db.rows
  <2>1. got \in Seq(DOMAIN db.rows)
    BY <1>0 DEF Listing
  <2>2. DOMAIN db.rows \subseteq DOMAIN db'.rows
    BY <1>1
  <2> HIDE DEF got
  <2> QED
    BY <2>1, <2>2
<1>3. ASSUME page.phase = "open"
      PROVE  \A n \in 1..Len(got) : ~ Precedes(cmd, page.last[1], Key(db'.rows, got[n]))
  BY <1>0, <1>1, <1>2, <1>3 DEF Listing
<1>4. ASSUME Whole(page), page.phase = "open", NEW i \in page.first \ Range(got)
      PROVE  /\ Precedes(cmd, page.last[1], Key(db'.rows, i))
             /\ i \in DOMAIN db'.rows
             /\ Key(db'.rows, i) \in Items(cmd, page.user, page.filter, page.boundary)'
  <2>1. /\ Precedes(cmd, page.last[1], Key(db.rows, i)) /\ i \in DOMAIN db.rows
        /\ Key(db.rows, i) \in Items(cmd, page.user, page.filter, page.boundary)
    BY <1>0, <1>4 DEF Listing
  <2>2. Key(db'.rows, i) \in Items(cmd, page.user, page.filter, page.boundary)'
    BY <1>4, <2>1, ItemsGrow DEF Whole
  <2> QED
    BY <1>1, <2>1, <2>2
<1> QED
  BY <1>0, <1>2, <1>3, <1>4 DEF Listing, Whole

LEMMA Appended ==
  ASSUME NEW S, NEW p \in Seq(S), NEW q \in Seq(S), NEW new, new = p \o q
  PROVE  /\ new \in Seq(S) /\ Len(new) = Len(p) + Len(q)
         /\ \A n \in 1..Len(p) : new[n] = p[n]
         /\ \A n \in 1..Len(q) : new[Len(p) + n] = q[n]
         /\ \A n \in 1..Len(new) : n \in 1..Len(p) \/ n - Len(p) \in 1..Len(q)
         /\ Len(p) \in Nat /\ DOMAIN new = 1..Len(new)
<1>1. new \in Seq(S) /\ Len(new) = Len(p) + Len(q)
  OBVIOUS
<1>2. Len(p) \in Nat /\ Len(q) \in Nat /\ DOMAIN new = 1..Len(new)
  BY <1>1
<1>3. \A n \in 1..Len(p) : new[n] = p[n]
  BY <1>2
<1>4. ASSUME NEW n \in 1..Len(q) PROVE new[Len(p) + n] = q[n]
  BY <1>2
<1>5. \A n \in 1..Len(new) : n \in 1..Len(p) \/ n - Len(p) \in 1..Len(q)
  BY <1>1, <1>2
<1> QED
  BY <1>1, <1>2, <1>3, <1>4, <1>5

\* A page read: some of what was left, put after what was given.
LEMMA ReadPageStep ==
  ASSUME PageInv, Shape(db), NEW cmd, NEW u, NEW f, ReadPage(cmd, u, f)
  PROVE  PageInv'
<1>0. /\ page # NoPage /\ page.phase \in {"asked", "open"}
      /\ page.cmd = cmd /\ page.user = u /\ page.filter = f /\ UNCHANGED db
      /\ PageRecord(page)
  BY DEF ReadPage, Bound, PageInv, NoPage
<1> DEFINE b     == page.boundary
           got   == page.got
           items == Items(cmd, u, f, b)
           R     == After(cmd, items, page.last)
           s     == Ordered(cmd, R)
           more  == Len(s) > Limit
           shown == SubSeq(s, 1, IF more THEN Limit ELSE Len(s))
           ids   == [n \in DOMAIN shown |-> shown[n].id]
           phase == IF more THEN "open" ELSE "done"
           last  == IF more THEN <<shown[Limit]>> ELSE <<>>
           first == IF page.phase = "asked" THEN {x.id : x \in items} ELSE page.first
<1>1. CASE page' = NoPage
  BY <1>1 DEF PageInv
<1>2. CASE page' # NoPage
  <2>1. page' = [page EXCEPT !.phase = phase, !.last = last, !.got = got \o ids, !.first = first]
    BY <1>0, <1>2 DEF ReadPage
  <2>2. /\ PageRecord(page') /\ page'.phase = phase /\ page'.cmd = cmd /\ page'.user = u
        /\ page'.filter = f /\ page'.boundary = b /\ page'.last = last
        /\ page'.got = got \o ids /\ page'.first = first
    <3> HIDE DEF phase, last, ids, first, b, got
    <3> DEFINE all == got \o ids
    <3>1. page' = [page EXCEPT !.phase = phase, !.last = last, !.got = all, !.first = first]
      BY <2>1
    <3> HIDE DEF all
    <3>2. /\ PageRecord(page') /\ page'.phase = phase /\ page'.cmd = page.cmd
          /\ page'.user = page.user /\ page'.filter = page.filter
          /\ page'.boundary = page.boundary /\ page'.last = last
          /\ page'.got = all /\ page'.first = first
      BY <1>0, <3>1 DEF PageRecord
    <3> QED
      BY <1>0, <3>2 DEF all, b
  <2>3. CASE cmd \notin PagedByRow
    BY <1>0, <2>2, <2>3 DEF PageInv, PageRecord
  <2>4. CASE cmd \in PagedByRow
    <3> DEFINE k == Cardinality(R)  top == IF more THEN Limit ELSE k
    <3>0. Listing(page) /\ Limit \in Nat \ {0}
      BY <1>0, <2>4, MessagingAssumption DEF PageInv
    <3>1. /\ \A x \in items : \E i \in DOMAIN db.rows : x = Key(db.rows, i) /\ x.id = i
          /\ items \in SUBSET ItemSet /\ IsFiniteSet(items)
      BY <2>4, ItemsAre
    <3>2. /\ R \subseteq items /\ R \in SUBSET ItemSet /\ IsFiniteSet(R)
          /\ page.phase = "asked" => R = items
          /\ page.phase = "open" => \A x : x \in R <=> x \in items /\ Precedes(cmd, page.last[1], x)
      <4>1. R \subseteq items
        BY DEF After
      <4>2. R \in SUBSET ItemSet /\ IsFiniteSet(R)
        <5> HIDE DEF R, items
        <5> QED
          BY <3>1, <4>1, FS_Subset
      <4> QED
        BY <3>0, <4>1, <4>2 DEF After, Listing
    <3> HIDE DEF R, items
    <3>3. /\ k \in Nat /\ s \in [1..k -> R]
          /\ \A m, n \in 1..k : m < n => Precedes(cmd, s[m], s[n])
          /\ \A m, n \in 1..k : s[m] = s[n] => m = n
          /\ \A x \in R : \E n \in 1..k : s[n] = x
      BY <3>2, OrderedIs
    <3> HIDE DEF s, k
    <3>4. s \in Seq(R) /\ Len(s) = k /\ top \in 0..k /\ top <= Limit /\ (more => top = Limit)
      BY <3>0, <3>3
    <3>5. /\ shown \in Seq(R) /\ Len(shown) = top
          /\ \A n \in 1..top : shown[n] = s[n]
      BY <3>0, <3>3, <3>4
    <3> HIDE DEF shown, top, more
    <3>6. /\ Len(ids) = top /\ DOMAIN ids = 1..top
          /\ \A n \in 1..top : ids[n] = s[n].id /\ ids[n] \in DOMAIN db.rows
                               /\ s[n] = Key(db.rows, ids[n])
          /\ ids \in Seq(DOMAIN db.rows)
      <4>1. DOMAIN ids = 1..top /\ \A n \in 1..top : ids[n] = s[n].id
        BY <3>4, <3>5
      <4>2. \A n \in 1..top : s[n] \in R
        BY <3>3, <3>4
      <4>3. \A n \in 1..top : ids[n] \in DOMAIN db.rows /\ s[n] = Key(db.rows, ids[n])
        BY <3>1, <3>2, <4>1, <4>2
      <4>4. ids \in [1..top -> DOMAIN db.rows]
        BY <4>1, <4>3
      <4> HIDE DEF ids
      <4> QED
        BY <3>4, <4>1, <4>3, <4>4
    <3> HIDE DEF ids
    <3>7. /\ got \in Seq(DOMAIN db.rows)
          /\ \A m, n \in 1..Len(got) : got[m] = got[n] => m = n
          /\ page.phase = "asked" => Len(got) = 0
          /\ page.phase = "open" =>
               \A n \in 1..Len(got) : ~ Precedes(cmd, page.last[1], Key(db.rows, got[n]))
      BY <1>0, <3>0 DEF Listing, IsInjective
    <3> HIDE DEF got
    <3> DEFINE new == got \o ids
    <3>8. /\ new \in Seq(DOMAIN db.rows) /\ Len(new) = Len(got) + top
          /\ \A n \in 1..Len(got) : new[n] = got[n]
          /\ \A n \in 1..top : new[Len(got) + n] = ids[n]
          /\ \A n \in 1..Len(new) : n \in 1..Len(got) \/ n - Len(got) \in 1..top
          /\ Len(got) \in Nat /\ DOMAIN new = 1..Len(new)
      <4>1. got \in Seq(DOMAIN db.rows) /\ ids \in Seq(DOMAIN db.rows) /\ new = got \o ids
        BY <3>6, <3>7
      <4> HIDE DEF new
      <4>2. /\ new \in Seq(DOMAIN db.rows) /\ Len(new) = Len(got) + Len(ids)
            /\ \A n \in 1..Len(got) : new[n] = got[n]
            /\ \A n \in 1..Len(ids) : new[Len(got) + n] = ids[n]
            /\ \A n \in 1..Len(new) : n \in 1..Len(got) \/ n - Len(got) \in 1..Len(ids)
            /\ Len(got) \in Nat /\ DOMAIN new = 1..Len(new)
        BY <4>1, Appended
      <4> QED
        BY <3>6, <4>2
    <3> HIDE DEF new
    \* What is read now was not given before.
    <3>9. \A m \in 1..Len(got), n \in 1..top : got[m] # ids[n]
      <4> SUFFICES ASSUME NEW m \in 1..Len(got), NEW n \in 1..top, got[m] = ids[n] PROVE FALSE
        OBVIOUS
      <4>1. page.phase = "open"
        BY <1>0, <3>7
      <4>2. s[n] \in R
        BY <3>3, <3>4
      <4> QED
        BY <3>2, <3>6, <3>7, <4>1, <4>2
    <3>10. \A m, n \in 1..top : ids[m] = ids[n] => m = n
      BY <3>3, <3>4, <3>6
    <3>11. IsInjective(new)
      <4> SUFFICES ASSUME NEW m \in 1..Len(new), NEW n \in 1..Len(new), new[m] = new[n]
                   PROVE  m = n
        BY <3>8 DEF IsInjective
      <4>0. m \in Nat /\ n \in Nat /\ Len(got) \in Nat
        BY <3>8
      <4>1. CASE m \in 1..Len(got) /\ n \in 1..Len(got)
        BY <3>7, <3>8, <4>1
      <4>2. CASE m \in 1..Len(got) /\ n - Len(got) \in 1..top
        <5>1. new[n] = ids[n - Len(got)]
          BY <3>8, <4>0, <4>2
        <5> QED
          BY <3>8, <3>9, <4>2, <5>1
      <4>3. CASE m - Len(got) \in 1..top /\ n \in 1..Len(got)
        <5>1. new[m] = ids[m - Len(got)]
          BY <3>8, <4>0, <4>3
        <5> QED
          BY <3>8, <3>9, <4>3, <5>1
      <4>4. CASE m - Len(got) \in 1..top /\ n - Len(got) \in 1..top
        <5>1. new[m] = ids[m - Len(got)] /\ new[n] = ids[n - Len(got)]
          BY <3>8, <4>0, <4>4
        <5>2. m - Len(got) = n - Len(got)
          BY <3>10, <4>4, <5>1
        <5> QED
          BY <4>0, <5>2
      <4> QED
        BY <3>8, <4>1, <4>2, <4>3, <4>4
    <3>12. ASSUME more
           PROVE  /\ last # <<>> /\ last[1] = s[Limit] /\ last[1] \in ItemSet /\ Limit \in 1..k
                  /\ \A n \in 1..Len(new) : ~ Precedes(cmd, last[1], Key(db.rows, new[n]))
      <4>1. top = Limit /\ Limit \in 1..top /\ Limit \in 1..k
        BY <3>0, <3>4, <3>12
      <4>2. last = <<s[Limit]>> /\ s[Limit] \in R
        BY <3>3, <3>5, <3>12, <4>1
      <4> HIDE DEF last
      <4>3. last # <<>> /\ last[1] = s[Limit] /\ last[1] \in ItemSet
        BY <3>2, <4>2
      <4>4. \A x, y \in R : Precedes(cmd, x, y) => ~ Precedes(cmd, y, x)
        BY <3>2, PrecedesOrder
      <4>5. ASSUME NEW n \in 1..top PROVE ~ Precedes(cmd, s[Limit], s[n])
        <5>1. n < Limit \/ n = Limit
          BY <4>1
        <5>2. n \in 1..k /\ s[n] \in R
          BY <3>3, <3>4
        <5>3. CASE n < Limit
          BY <3>3, <4>1, <4>2, <4>4, <5>2, <5>3
        <5>4. CASE n = Limit
          BY <3>2, <4>2, <5>4, PrecedesOrder
        <5> QED
          BY <5>1, <5>3, <5>4
      <4>6. ASSUME NEW n \in 1..Len(got) PROVE ~ Precedes(cmd, s[Limit], Key(db.rows, got[n]))
        <5> SUFFICES ASSUME Precedes(cmd, s[Limit], Key(db.rows, got[n])) PROVE FALSE
          OBVIOUS
        <5>1. page.phase = "open"
          BY <1>0, <3>7
        <5>2. /\ page.last[1] \in ItemSet /\ Precedes(cmd, page.last[1], s[Limit])
              /\ ~ Precedes(cmd, page.last[1], Key(db.rows, got[n]))
          BY <3>0, <3>2, <3>7, <4>2, <5>1 DEF Listing
        <5>3. Key(db.rows, got[n]) \in ItemSet
          <6>1. got[n] \in DOMAIN db.rows
            BY <3>7
          <6>2. got[n] \in Nat /\ db.rows[got[n]].at \in Nat
            BY <6>1, RowsOf
          <6> QED
            BY <6>2 DEF Key, Item, ItemSet
        <5> DEFINE x == page.last[1]  y == s[Limit]  z == Key(db.rows, got[n])
        <5>4. x \in ItemSet /\ y \in ItemSet /\ z \in ItemSet
          BY <3>2, <4>2, <5>2, <5>3
        <5>5. Precedes(cmd, x, y) /\ Precedes(cmd, y, z) /\ ~ Precedes(cmd, x, z)
          BY <5>2
        <5> HIDE DEF x, y, z
        <5> QED
          BY <5>4, <5>5, PrecedesOrder
      <4>7. ASSUME NEW n \in 1..Len(new) PROVE ~ Precedes(cmd, last[1], Key(db.rows, new[n]))
        <5>0. n \in Nat /\ Len(got) \in Nat
          BY <3>8
        <5>1. CASE n \in 1..Len(got)
          BY <3>8, <4>3, <4>6, <5>1
        <5>2. CASE n - Len(got) \in 1..top
          <6>1. new[n] = ids[n - Len(got)]
            BY <3>8, <5>0, <5>2
          <6> QED
            BY <3>6, <4>3, <4>5, <5>2, <6>1
        <5> QED
          BY <3>8, <5>1, <5>2
      <4> QED
        BY <4>1, <4>3, <4>7
    \* What was there at first is given or still to come.
    <3>13. Range(new) = Range(got) \cup Range(ids)
      <4>1. Range(got) = {got[n] : n \in 1..Len(got)} /\ Range(ids) = {ids[n] : n \in 1..top}
            /\ Range(new) = {new[n] : n \in 1..Len(new)}
        BY <3>6, <3>7, <3>8 DEF Range
      <4>2. \A n \in 1..Len(new) : new[n] \in Range(got) \cup Range(ids)
        <5> SUFFICES ASSUME NEW n \in 1..Len(new) PROVE new[n] \in Range(got) \cup Range(ids)
          OBVIOUS
        <5>1. CASE n \in 1..Len(got)
          BY <3>8, <4>1, <5>1
        <5>2. CASE n - Len(got) \in 1..top
          <6>1. new[n] = ids[n - Len(got)]
            BY <3>8, <5>2
          <6> QED
            BY <4>1, <5>2, <6>1
        <5> QED
          BY <3>8, <5>1, <5>2
      <4>3. \A n \in 1..Len(got) : n \in 1..Len(new)
        BY <3>4, <3>8
      <4>4. \A n \in 1..top : Len(got) + n \in 1..Len(new)
        BY <3>4, <3>8
      <4> QED
        BY <3>8, <4>1, <4>2, <4>3, <4>4
    <3>14. ASSUME Whole(page), NEW i \in first
           PROVE  \/ i \in Range(got)
                  \/ i \in DOMAIN db.rows /\ Key(db.rows, i) \in R
      <4>1. CASE page.phase = "asked"
        <5>1. PICK x \in items : i = x.id
          BY <4>1
        <5> QED
          BY <3>1, <3>2, <4>1, <5>1
      <4>2. CASE page.phase = "open"
        <5>1. i \in page.first
          BY <4>2
        <5>2. CASE i \notin Range(got)
          <6>1. /\ Precedes(cmd, page.last[1], Key(db.rows, i))
                /\ i \in DOMAIN db.rows /\ Key(db.rows, i) \in items
            BY <1>0, <3>0, <3>14, <4>2, <5>1, <5>2 DEF Listing, items, got
          <6> QED
            BY <3>2, <4>2, <6>1
        <5> QED
          BY <5>2
      <4> QED
        BY <1>0, <4>1, <4>2
    <3>15. ASSUME Whole(page), NEW i \in first \ Range(new)
           PROVE  /\ more /\ Precedes(cmd, s[Limit], Key(db.rows, i))
                  /\ i \in DOMAIN db.rows /\ Key(db.rows, i) \in items
      <4>1. i \in DOMAIN db.rows /\ Key(db.rows, i) \in R /\ i \notin Range(ids)
        BY <3>13, <3>14, <3>15
      <4>2. PICK n \in 1..k : s[n] = Key(db.rows, i)
        BY <3>3, <4>1
      <4>3. n \notin 1..top
        <5> SUFFICES ASSUME n \in 1..top PROVE FALSE
          OBVIOUS
        <5>1. ids[n] = i
          <6>1. Key(db.rows, i).id = i
            BY DEF Key, Item
          <6> QED
            BY <3>6, <4>2, <6>1
        <5>2. ids[n] \in Range(ids)
          BY <3>6 DEF Range
        <5> QED
          BY <4>1, <5>1, <5>2
      <4>4. more /\ Limit < n /\ Limit \in 1..k
        <5>1. top < n /\ top < k
          BY <3>3, <3>4, <4>3
        <5>2. more
          BY <3>3, <3>4, <5>1 DEF top
        <5> QED
          BY <3>0, <3>3, <3>4, <5>1, <5>2
      <4> QED
        BY <3>2, <3>3, <4>1, <4>2, <4>4
    <3> HIDE DEF last, first
    <3>16. Whole(page') = Whole(page)
      BY <1>0, <2>2 DEF Whole
    <3>17. /\ phase = "open" <=> more
           /\ phase = "done" <=> ~ more
           /\ phase \in {"open", "done"}
      OBVIOUS
    <3> HIDE DEF phase
    <3>18. Listing(page)'
      <4>1. page'.got = new
        BY <2>2 DEF new
      <4>2. /\ new \in Seq(DOMAIN db'.rows) /\ IsInjective(new) /\ page'.phase # "asked"
        BY <1>0, <2>2, <3>8, <3>11, <3>17
      <4>3. page'.phase = "open" =>
              /\ page'.last # <<>> /\ page'.last[1] \in ItemSet
              /\ \A n \in 1..Len(new) : ~ Precedes(page'.cmd, page'.last[1], Key(db'.rows, new[n]))
        BY <1>0, <2>2, <3>12, <3>17
      <4>4. Whole(page') /\ page'.phase = "open" =>
              \A i \in page'.first \ Range(new) :
                /\ Precedes(page'.cmd, page'.last[1], Key(db'.rows, i))
                /\ i \in DOMAIN db'.rows
                /\ Key(db'.rows, i) \in Items(page.cmd, page.user, page.filter, page.boundary)
        BY <1>0, <2>2, <3>12, <3>15, <3>16, <3>17 DEF items
      <4>5. Items(page.cmd, page.user, page.filter, page.boundary)
              = Items(page.cmd, page.user, page.filter, page.boundary)'
        BY <1>0, <2>2 DEF Items, RowItems, NeedsReply, LastRec, ConvsOfOrg
      <4>6. Whole(page') /\ page'.phase = "done" => page'.first \subseteq Range(new)
        BY <2>2, <3>15, <3>16, <3>17
      <4> QED
        BY <4>1, <4>2, <4>3, <4>4, <4>5, <4>6 DEF Listing
    <3> QED
      BY <2>2, <3>17, <3>18 DEF PageInv
  <2> QED
    BY <2>3, <2>4
<1> QED
  BY <1>1, <1>2

\* Only commits change what a listing reads, and only page requests the listing.
LEMMA StepPageInv == IInv /\ TablesInv /\ PageInv /\ [Next]_vars => PageInv'
<1> SUFFICES ASSUME IInv, TablesInv, PageInv, [Next]_vars PROVE PageInv'
  OBVIOUS
<1>0. Shape(db)
  BY DEF TablesInv, Tables
<1>1. ASSUME UNCHANGED <<db, page>> PROVE PageInv'
  <2>1. Extends(db.rows, db'.rows)
    BY <1>1 DEF Extends
  <2> QED
    BY <1>0, <1>1, <2>1, PageStays
<1>2. ASSUME NEW cmd, NEW u, NEW f, FirstPage(cmd, u, f) PROVE PageInv'
  <2> DEFINE p == [phase |-> "asked", cmd |-> cmd, user |-> u, filter |-> f,
                   boundary |-> clock, last |-> <<>>, got |-> <<>>, first |-> {}]
  <2>1. page' = p
    BY <1>2 DEF FirstPage
  <2>2. PageRecord(p) /\ p.phase = "asked" /\ p.got = <<>> /\ p.last = <<>>
    BY DEF PageRecord
  <2> HIDE DEF p
  <2>3. <<>> \in Seq(DOMAIN db'.rows) /\ IsInjective(<<>>)
    BY DEF IsInjective
  <2>4. Listing(page)'
    BY <2>1, <2>2, <2>3 DEF Listing
  <2> QED
    BY <2>1, <2>2, <2>4 DEF PageInv
<1>3. CASE PageNext
  <2>1. CASE Forget
    BY <2>1 DEF Forget, PageInv
  <2>2. CASE ~ Forget
    BY <1>0, <1>2, <1>3, <2>2, ReadPageStep DEF PageNext
  <2> QED
    BY <2>1, <2>2
<1>4. CASE Commit
  <2>1. db' = txn /\ txn # NoTxn /\ UNCHANGED page
    BY <1>4 DEF Commit, Locked
  <2>2. Extends(db.rows, db'.rows)
    BY <2>1 DEF TablesInv
  <2> QED
    BY <1>0, <2>1, <2>2, PageStays
<1>5. CASE Next /\ ~ Commit /\ ~ PageNext
  <2>1. UNCHANGED <<db, page>>
    BY <1>5 DEF Next, SendNext, ReadNext, MemberNext, Send, SendGroup, DateGroupMessage,
                ReadMessage, LookToRead, MarkNoReply, AddMember, RemoveMember, Crash,
                OrgCommand, Tick
  <2> QED
    BY <1>1, <2>1
<1>6. CASE UNCHANGED vars
  BY <1>1, <1>6 DEF vars
<1> QED
  BY <1>3, <1>4, <1>5, <1>6

-----------------------------------------------------------------------------
(* What follows for the tables and the listings.                           *)

LEMMA Invariance == Spec => [](IInv /\ TablesInv)
BY InitIInv, InitTablesInv, StepIInv, StepTablesInv, PTL DEF Spec

\* A no-reply mark is for the last message received, in every reachable state: a
\* send of the same conversation in between lifted it in its own transaction.
THEOREM MarkCorrect == Spec => []MarkIsForLast
<1>1. TablesInv => MarkIsForLast
  <2> SUFFICES ASSUME TablesInv, NEW u \in Agents, NEW c \in Ids, db.mark[<<u, c>>] # 0
               PROVE  db.mark[<<u, c>>] = Latest(db.rows, Received(db.rows, c, u))
    BY DEF MarkIsForLast
  <2> DEFINE S == Received(db.rows, c, u)
  <2>1. LastOf(db.rows, S, db.mark[<<u, c>>])
    BY DEF TablesInv, Tables, Marked
  <2>2. S \subseteq Nat /\ \A i \in S : db.rows[i].at \in Nat
    BY RowsOf DEF TablesInv, Tables
  <2> QED
    BY <2>1, <2>2, LatestIs
<1> QED
  BY <1>1, Invariance, PTL

\* No agent exceeds its hourly budget, for any budgets, hour and clock, whenever
\* group messages took their dates and however long they waited.
THEOREM BudgetCorrect == Spec => []HourlyBudget
<1>1. TablesInv => HourlyBudget
  BY DEF TablesInv, Tables, Spent, HourlyBudget
<1> QED
  BY <1>1, Invariance, PTL

\* reply_status and the query of notification_page agree on every conversation,
\* for every reader and boundary.
THEOREM NotificationsCorrect == Spec => []NotificationsAgree
<1>1. TablesInv => NotificationsAgree
  <2> SUFFICES ASSUME TablesInv, NEW u \in Agents, NEW b \in 1..clock, NEW c \in Convs(db.rows)
               PROVE  (\E l \in NeedsReply(u, b) : db.rows[l].conv = c)
                        <=> ReplyStatus(c, u, b) = "needs_reply"
    BY DEF NotificationsAgree
  <2> DEFINE rows == db.rows
             S    == UpTo(rows, Received(rows, c, u), b)
             last == Latest(rows, S)
             mark == db.mark[<<u, c>>]
  <2>1. Shape(db)
    BY DEF TablesInv, Tables
  <2>2. c \in Ids /\ mark \in Ids \cup {0}
    BY <2>1 DEF Convs, Shape
  <2>3. S \subseteq DOMAIN rows /\ DOMAIN rows \subseteq Ids
        /\ \A i \in DOMAIN rows : i \in Nat \ {0} /\ rows[i].at \in Nat
    BY <2>1, RowsOf DEF UpTo
  <2>4. LastRec(u, b) \cap InConv(rows, c) = {i \in S : \A j \in S : ~ Before(rows, i, j)}
    BY DEF LastRec, InConv, Received, UpTo
  <2>5. \A l : l \in NeedsReply(u, b) /\ rows[l].conv = c
                 => l \in LastRec(u, b) \cap InConv(rows, c)
    BY DEF NeedsReply, LastRec, InConv
  <2>6. CASE S = {}
    <3>1. last = 0
      BY <2>6 DEF Latest
    <3> QED
      BY <2>4, <2>5, <2>6, <3>1 DEF ReplyStatus
  <2>7. CASE S # {}
    <3>1. LastOf(rows, S, last)
      BY <2>1, <2>3, <2>7, LatestOf
    <3>2. S \subseteq Nat /\ \A i \in S : rows[i].at \in Nat
      BY <2>3
    <3> HIDE DEF last, S
    <3>3. {i \in S : \A j \in S : ~ Before(rows, i, j)} = {last}
      BY <3>1, <3>2, BeforeOrder DEF LastOf
    <3>4. last \in DOMAIN rows /\ last # 0 /\ last \in Ids /\ rows[last].conv = c
      BY <2>3, <3>1 DEF LastOf, S, UpTo, Received, InConv
    <3>5. (\E l \in NeedsReply(u, b) : rows[l].conv = c) <=> last \in NeedsReply(u, b)
      BY <2>4, <2>5, <3>3, <3>4
    <3>6. last \in LastRec(u, b)
      BY <2>4, <3>3
    <3>7. last \in NeedsReply(u, b) <=>
            /\ ReadBy(rows, last, b)
            /\ ~ \E i \in UpTo(rows, Sent(rows, c, u), b) : Before(rows, last, i)
            /\ mark # last
      <4>1. (\E x \in InConv(rows, c) :
               /\ rows[x].from = u /\ rows[x].at <= b
               /\ \/ rows[x].at > rows[last].at
                  \/ rows[x].at = rows[last].at /\ x > last)
            <=> \E i \in UpTo(rows, Sent(rows, c, u), b) : Before(rows, last, i)
        <5>1. \A x \in InConv(rows, c) :
                Before(rows, last, x) <=> \/ rows[x].at > rows[last].at
                                          \/ rows[x].at = rows[last].at /\ x > last
          <6>1. \A x \in InConv(rows, c) : x \in DOMAIN rows
            BY DEF InConv, Direct
          <6> QED
            BY <2>3, <3>4, <6>1 DEF Before
        <5> QED
          BY <5>1 DEF UpTo, Sent
      <4>2. mark \in {0} \cup (Ids \ {last}) <=> mark # last
        BY <2>2, <3>4
      <4> QED
        BY <3>4, <3>6, <4>1, <4>2 DEF NeedsReply, ReadBy
    <3>8. ReplyStatus(c, u, b) = "needs_reply" <=>
            /\ ReadBy(rows, last, b)
            /\ ~ \E i \in UpTo(rows, Sent(rows, c, u), b) : Before(rows, last, i)
            /\ mark # last
      BY <3>4 DEF ReplyStatus, last, S
    <3> QED
      BY <3>5, <3>7, <3>8
  <2> QED
    BY <2>6, <2>7
<1> QED
  BY <1>1, Invariance, PTL

\* A listing of messages repeats no row and, when it ends, has given every row
\* there was at its first page, for any size of page and any commits in between.
THEOREM ListingsCorrect == Spec => []PagesComplete
<1>1. Init => PageInv
  BY DEF Init, PageInv
<1>2. Spec => []PageInv
  BY <1>1, Invariance, StepPageInv, PTL DEF Spec
<1>3. PageInv => PagesComplete
  <2> SUFFICES ASSUME PageInv, page.phase # "none", page.cmd \in PagedByRow
               PROVE  /\ IsInjective(page.got)
                      /\ \/ page.phase # "done"
                         \/ page.cmd = "get_messages" /\ page.filter = "unread"
                         \/ page.first \subseteq Range(page.got)
    BY DEF PagesComplete
  <2>1. page # NoPage
    BY DEF NoPage
  <2>2. Listing(page)
    BY <2>1 DEF PageInv
  <2> QED
    BY <2>2 DEF Listing, Whole
<1> QED
  BY <1>2, <1>3, PTL
=============================================================================
