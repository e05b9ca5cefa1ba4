--------------------------- MODULE RowLinksProofs ---------------------------
(***************************************************************************)
(* For any number of rows, keys, tickets and passes: the types hold        *)
(* whatever people do, and, as long as passes exclude each other and the   *)
(* rows under a push stay put, links, stamps and reviews tell the machines *)
(* apart, so that RowLinks implements RowRegistry.                         *)
(***************************************************************************)
EXTENDS RowLinks, FiniteSetTheorems, SequenceTheorems, TLAPS

(* The types, with n links and t tickets.                                   *)
AnyKey == Keys \cup {Blank}

Uids(n) == {KeyUid(k) : k \in Keys} \cup {StampUid(s) : s \in 1..n}

Links(n, t) == [uid : Uids(n), ticket : 1..t, base : AnyKey, stamped : 0..n]

Reviews(n, t) == [uid : Uids(n), key : Keys, candidates : SUBSET (1..t)]

Put(n) == [pos : Nat, key : AnyKey, stamp : 0..n]

PassRecords(n, t) ==
    [pc : {"idle", "row", "ticket", "link"}, op : {"none", "import", "push", "reconcile"},
     rows : Seq(Row), i : Nat, id : 0..n, copy : Links(n, t) \cup {NoLink}, tk : 0..t,
     key : AnyKey, puts : SUBSET Put(n)]

Rest(q) == q.pc = "idle"

(* A pass at a row has a row; its ticket is known once it was saved.        *)
PassForm(q, n) ==
    /\ \A j \in DOMAIN q.rows : q.rows[j].stamp <= n
    /\ q.pc # "idle" => q.i # 0 /\ q.op # "none"
    /\ q.pc \in {"ticket", "link"} =>
          /\ q.i <= Len(q.rows)
          /\ q.op = "import" => q.rows[q.i].key # Blank
          /\ q.id = 0 => q.op = "import"
          /\ q.id # 0 => q.copy # NoLink /\ q.tk # 0
          /\ q.pc = "link" => q.tk # 0

TypeInv ==
    /\ sheet \in Seq(Row)
    /\ \A j \in DOMAIN sheet : sheet[j].stamp <= Len(link)
    /\ ticket \in Seq(AnyKey)
    /\ link \in Seq(Links(Len(link), Len(ticket)))
    /\ review \subseteq Reviews(Len(link), Len(ticket))
    /\ direction \in Directions
    /\ pass \in [Passes -> PassRecords(Len(link), Len(ticket))]
    /\ \A p \in Passes : PassForm(pass[p], Len(link))
    /\ budget \in 0..MaxUserActions
-----------------------------------------------------------------------------
(* The machine whose device a ticket or a link is about.                    *)
MachineOf(t) == Owner[ticket[t]]
LinkMachine(l) == MachineOf(link[l].ticket)

Linked(m) == \E l \in DOMAIN link : LinkMachine(l) = m

(* The stamp is that of a link, which is the machine's and knows it.        *)
StampOf(stamp, m) ==
    stamp \in DOMAIN link /\ link[stamp].stamped = stamp /\ LinkMachine(stamp) = m

(* The link of a row without a stamp says what the row and the ticket say.  *)
SameKey(key, m) ==
    \A l \in DOMAIN link : LinkMachine(l) = m =>
        link[l].uid = KeyUid(key) /\ link[l].base = key /\ ticket[link[l].ticket] = key

GoodRow(row) ==
    /\ row.key # Blank => Owner[row.key] = row.machine
    /\ row.stamp # 0 => row.key # Blank /\ StampOf(row.stamp, row.machine)
    /\ row.stamp = 0 => SameKey(row.key, row.machine)

SheetInv ==
    /\ \A i, j \in DOMAIN sheet : sheet[i].machine = sheet[j].machine => i = j
    /\ \A i \in DOMAIN sheet : GoodRow(sheet[i])

OnSheet(m) == \E i \in DOMAIN sheet : sheet[i].machine = m

LinkInv ==
    \A l \in DOMAIN link :
        /\ link[l].stamped \in {0, l}
        /\ OnSheet(LinkMachine(l))
        /\ \E k \in Keys : link[l].uid = KeyUid(k) /\ Owner[k] = LinkMachine(l)
        /\ \A k \in DOMAIN link : LinkMachine(l) = LinkMachine(k) => l = k

(* A review waits for a row that is still there, without a stamp; its       *)
(* machine has no link, and more than one ticket to choose from.            *)
Unstamped(key) ==
    \E i \in DOMAIN sheet : sheet[i].machine = Owner[key] /\ sheet[i].stamp = 0 /\ sheet[i].key = key

ReviewInv ==
    \A a \in review :
        /\ a.uid = KeyUid(a.key)
        /\ \A t \in a.candidates : ticket[t] = a.key
        /\ ~Linked(Owner[a.key])
        /\ Unstamped(a.key)
        /\ \E t, u \in Candidates(a.key) : t # u
        /\ \A b \in review : Owner[a.key] = Owner[b.key] => a = b

Reviewed(m) == \E a \in review : Owner[a.key] = m

(* A row as read at the start of the pass has the same stamp now, and the   *)
(* same key if it has none.                                                 *)
CopyOf(row) ==
    row.key # Blank =>
        /\ Owner[row.key] = row.machine
        /\ \E i \in DOMAIN sheet : /\ sheet[i].machine = row.machine /\ sheet[i].stamp = row.stamp
                                   /\ row.stamp = 0 => sheet[i].key = row.key

(* The cells queued for a row are its machine's.                            *)
GoodPut(u, rows) ==
    /\ u.pos \in DOMAIN rows
    /\ u.key # Blank /\ Owner[u.key] = rows[u.pos].machine
    /\ u.stamp # 0 => StampOf(u.stamp, rows[u.pos].machine)
    /\ u.stamp = 0 /\ rows[u.pos].stamp = 0 => u.key = rows[u.pos].key

(* The link and the ticket of the row at hand: none yet, or as read.        *)
AtRow(q, row) ==
    /\ row.key # Blank
    /\ q.id = 0 => /\ ~Linked(row.machine) /\ ~Reviewed(row.machine)
                   /\ q.tk # 0 => MachineOf(q.tk) = row.machine
                   /\ q.pc = "link" => ticket[q.tk] = row.key
    /\ q.id # 0 => /\ q.copy = link[q.id] /\ q.tk = link[q.id].ticket
                   /\ LinkMachine(q.id) = row.machine
    /\ q.op # "import" => /\ q.key # Blank /\ Owner[q.key] = row.machine
                          /\ row.stamp = 0 => q.key = row.key

PassInv(q) ==
    q.pc # "idle" =>
        /\ \A j \in DOMAIN q.rows : CopyOf(q.rows[j])
        /\ q.op = "import" => q.puts = {}
        /\ q.op # "import" => q.rows = sheet
        /\ \A u \in q.puts : GoodPut(u, q.rows)
        /\ q.pc \in {"ticket", "link"} => AtRow(q, q.rows[q.i])

Alone == \A p, q \in Passes : ~Idle(p) /\ ~Idle(q) => p = q

MachineInv ==
    /\ \A t \in DOMAIN ticket : ticket[t] # Blank
    /\ SheetInv /\ LinkInv /\ ReviewInv
    /\ Alone
    /\ \A p \in Passes : PassInv(pass[p])
-----------------------------------------------------------------------------
(* A function on 1..n is a sequence.                                        *)
LEMMA FunctionIsSeq ==
    ASSUME NEW S, NEW n \in Nat, NEW f \in [1..n -> S]
    PROVE  f \in Seq(S) /\ Len(f) = n
OBVIOUS

(* InsertAt moves the later elements one place down.                        *)
Inserted(t, s, i, e) ==
    /\ Len(t) = Len(s) + 1
    /\ \A j \in 1..Len(s) + 1 : t[j] = IF j < i THEN s[j] ELSE IF j = i THEN e ELSE s[j - 1]

LEMMA InsertAtProperties ==
    ASSUME NEW S, NEW s \in Seq(S), NEW i \in 1..Len(s) + 1, NEW e \in S
    PROVE  InsertAt(s, i, e) \in Seq(S) /\ Inserted(InsertAt(s, i, e), s, i, e)
<1> DEFINE before == SubSeq(s, 1, i - 1)
           after  == SubSeq(s, i, Len(s))
<1>1. /\ before \in Seq(S) /\ Len(before) = i - 1
      /\ \A j \in 1..i - 1 : before[j] = s[j]
  <2>1. /\ 1 \in Int /\ i - 1 \in Int
        /\ \A j \in 1..i - 1 : s[j] \in S
    BY LenProperties
  <2> QED BY <2>1, SubSeqProperties
<1>2. /\ after \in Seq(S) /\ Len(after) = Len(s) - i + 1
      /\ \A j \in 1..Len(s) - i + 1 : after[j] = s[i + j - 1]
  <2>1. /\ i \in Int /\ Len(s) \in Int
        /\ \A j \in i..Len(s) : s[j] \in S
    BY LenProperties
  <2> QED BY <2>1, SubSeqProperties
<1> HIDE DEF before, after
<1>3. /\ before \o <<e>> \in Seq(S) /\ Len(before \o <<e>>) = i
      /\ \A j \in 1..i : (before \o <<e>>)[j] = IF j < i THEN s[j] ELSE e
  <2>1. <<e>> \in Seq(S) /\ Len(<<e>>) = 1 /\ <<e>>[1] = e
    OBVIOUS
  <2> QED BY <1>1, <2>1, ConcatProperties
<1> DEFINE first == before \o <<e>>
<1>4. /\ first \o after \in Seq(S)
      /\ Len(first \o after) = Len(s) + 1
      /\ \A j \in 1..Len(s) + 1 :
            (first \o after)[j] = IF j <= i THEN first[j] ELSE after[j - i]
  <2>1. first \in Seq(S) /\ Len(first) = i
    BY <1>3
  <2> HIDE DEF first
  <2>2. Len(first) + Len(after) = Len(s) + 1
    BY <1>2, <2>1
  <2>3. \A j \in 1..Len(first) + Len(after) :
            (first \o after)[j] = IF j <= Len(first) THEN first[j] ELSE after[j - Len(first)]
    BY <1>2, <2>1, ConcatProperties
  <2>4. first \o after \in Seq(S) /\ Len(first \o after) = Len(first) + Len(after)
    BY <1>2, <2>1, ConcatProperties
  <2> HIDE DEF after
  <2> QED BY <2>1, <2>2, <2>3, <2>4
<1>5. \A j \in 1..Len(s) + 1 : j > i => after[j - i] = s[j - 1]
  BY <1>2
<1>6. InsertAt(s, i, e) = (before \o <<e>>) \o after
  BY DEF InsertAt, before, after
<1>7. /\ InsertAt(s, i, e) \in Seq(S)
      /\ Len(InsertAt(s, i, e)) = Len(s) + 1
      /\ \A j \in 1..Len(s) + 1 :
            InsertAt(s, i, e)[j] = IF j < i THEN s[j] ELSE IF j = i THEN e ELSE s[j - 1]
  BY <1>3, <1>4, <1>5, <1>6
<1> QED BY <1>7 DEF Inserted

(* What a row of a sequence of rows is made of.                             *)
LEMMA RowTypes ==
    ASSUME NEW rows \in Seq(Row), NEW j \in DOMAIN rows
    PROVE  /\ rows[j] \in Row
           /\ rows[j].machine \in Machines
           /\ rows[j].key \in AnyKey
           /\ rows[j].stamp \in Nat
<1>1. rows[j] \in Row
  BY ElementOfSeq, LenProperties
<1> QED BY <1>1 DEF Row, AnyKey

(* More links and tickets make room for more.                               *)
LEMMA TypesGrow ==
    ASSUME NEW n \in Nat, NEW t \in Nat, NEW n2 \in Nat, NEW t2 \in Nat, n <= n2, t <= t2
    PROVE  /\ Uids(n) \subseteq Uids(n2)
           /\ Links(n, t) \subseteq Links(n2, t2)
           /\ Reviews(n, t) \subseteq Reviews(n2, t2)
           /\ PassRecords(n, t) \subseteq PassRecords(n2, t2)
           /\ \A q \in PassRecords(n, t) : PassForm(q, n) => PassForm(q, n2)
<1>1. Uids(n) \subseteq Uids(n2)
  BY DEF Uids
<1>2. Links(n, t) \subseteq Links(n2, t2)
  BY <1>1 DEF Links
<1>3. Reviews(n, t) \subseteq Reviews(n2, t2)
  BY <1>1 DEF Reviews
<1>4. Put(n) \subseteq Put(n2)
  BY DEF Put
<1>5. PassRecords(n, t) \subseteq PassRecords(n2, t2)
  BY <1>2, <1>4 DEF PassRecords
<1>6. \A q \in PassRecords(n, t) : PassForm(q, n) => PassForm(q, n2)
  <2> SUFFICES ASSUME NEW q \in PassRecords(n, t), PassForm(q, n)
               PROVE  PassForm(q, n2)
    OBVIOUS
  <2>1. \A j \in DOMAIN q.rows : q.rows[j].stamp \in Nat
    <3>1. q.rows \in Seq(Row)
      BY DEF PassRecords
    <3> QED BY <3>1, RowTypes
  <2>2. \A j \in DOMAIN q.rows : q.rows[j].stamp <= n2
    BY <2>1 DEF PassForm
  <2> QED BY <2>2 DEF PassForm
<1> QED BY <1>1, <1>2, <1>3, <1>5, <1>6

(* The typed state of before fits the types of after.                       *)
LEMMA StateGrows ==
    ASSUME TypeInv, Len(link)' \in Nat, Len(ticket)' \in Nat,
           Len(link) <= Len(link)', Len(ticket) <= Len(ticket)'
    PROVE  /\ \A j \in DOMAIN sheet : sheet[j].stamp <= Len(link)'
           /\ link \in Seq(Links(Len(link)', Len(ticket)'))
           /\ review \subseteq Reviews(Len(link)', Len(ticket)')
           /\ pass \in [Passes -> PassRecords(Len(link)', Len(ticket)')]
           /\ \A p \in Passes : PassForm(pass[p], Len(link)')
<1>1. Len(link) \in Nat /\ Len(ticket) \in Nat
  BY LenProperties DEF TypeInv
<1> DEFINE n == Len(link)
           t == Len(ticket)
           n2 == Len(link)'
           t2 == Len(ticket)'
<1>2. /\ Links(n, t) \subseteq Links(n2, t2)
      /\ Reviews(n, t) \subseteq Reviews(n2, t2)
      /\ PassRecords(n, t) \subseteq PassRecords(n2, t2)
      /\ \A q \in PassRecords(n, t) : PassForm(q, n) => PassForm(q, n2)
  BY <1>1, TypesGrow
<1>3. /\ \A j \in DOMAIN sheet : sheet[j].stamp <= n
      /\ link \in Seq(Links(n, t))
      /\ review \subseteq Reviews(n, t)
      /\ pass \in [Passes -> PassRecords(n, t)]
      /\ \A p \in Passes : PassForm(pass[p], n)
      /\ sheet \in Seq(Row)
  BY DEF TypeInv
<1> HIDE DEF n, t, n2, t2
<1>4. n \in Nat /\ n2 \in Nat /\ n <= n2
  BY <1>1 DEF n, n2
<1>5. \A j \in DOMAIN sheet : sheet[j].stamp <= n2
  <2>1. \A j \in DOMAIN sheet : sheet[j].stamp \in Nat
    BY <1>3, RowTypes
  <2> QED BY <1>3, <1>4, <2>1
<1>6. link \in Seq(Links(n2, t2))
  BY <1>2, <1>3, SeqMonotonic
<1>7. review \subseteq Reviews(n2, t2)
  BY <1>2, <1>3
<1>8. pass \in [Passes -> PassRecords(n2, t2)]
  BY <1>2, <1>3
<1>9. \A p \in Passes : PassForm(pass[p], n2)
  BY <1>2, <1>3
<1> QED BY <1>5, <1>6, <1>7, <1>8, <1>9 DEF n2, t2
-----------------------------------------------------------------------------
(* The numbers of links and tickets, and the positions they have.           *)
LEMMA Counts ==
    ASSUME TypeInv
    PROVE  /\ Len(link) \in Nat /\ DOMAIN link = 1..Len(link)
           /\ Len(ticket) \in Nat /\ DOMAIN ticket = 1..Len(ticket)
           /\ Len(sheet) \in Nat /\ DOMAIN sheet = 1..Len(sheet)
BY LenProperties DEF TypeInv

(* The fields of a link.                                                    *)
LEMMA LinkTypes ==
    ASSUME TypeInv, NEW l \in DOMAIN link
    PROVE  /\ link[l] \in Links(Len(link), Len(ticket))
           /\ link[l] # NoLink
           /\ link[l].uid \in Uids(Len(link))
           /\ link[l].ticket \in DOMAIN ticket
           /\ link[l].base \in AnyKey
           /\ link[l].stamped \in 0..Len(link)
           /\ ticket[link[l].ticket] \in AnyKey
           /\ l \in 1..Len(link)
<1>1. link[l] \in Links(Len(link), Len(ticket)) /\ l \in 1..Len(link)
  BY Counts, ElementOfSeq DEF TypeInv
<1>2. link[l].ticket \in DOMAIN ticket
  BY <1>1, Counts DEF Links
<1>3. link[l] # NoLink
  BY <1>2, Counts DEF NoLink
<1>4. ticket[link[l].ticket] \in AnyKey
  BY <1>2, Counts, ElementOfSeq DEF TypeInv
<1> QED BY <1>1, <1>2, <1>3, <1>4 DEF Links

(* The fields of a pass and the form it has.                                *)
LEMMA PassTypes ==
    ASSUME TypeInv, NEW p \in Passes
    PROVE  /\ pass[p] \in PassRecords(Len(link), Len(ticket))
           /\ PassForm(pass[p], Len(link))
           /\ pass[p].rows \in Seq(Row) /\ pass[p].i \in Nat
           /\ pass[p].id \in 0..Len(link) /\ pass[p].tk \in 0..Len(ticket)
           /\ pass[p].copy \in Links(Len(link), Len(ticket)) \cup {NoLink}
           /\ pass[p].key \in AnyKey /\ pass[p].puts \subseteq Put(Len(link))
           /\ pass[p].pc \in {"idle", "row", "ticket", "link"}
           /\ pass[p].op \in {"none", "import", "push", "reconcile"}
<1>1. pass[p] \in PassRecords(Len(link), Len(ticket)) /\ PassForm(pass[p], Len(link))
  BY DEF TypeInv
<1> QED BY <1>1 DEF PassRecords

(* The row at which a pass is.                                              *)
LEMMA RowAt ==
    ASSUME TypeInv, NEW p \in Passes, NEW pc \in {"row", "ticket", "link"}, At(p, pc)
    PROVE  /\ ~Idle(p) /\ pass[p].pc = pc
           /\ pass[p].i \in 1..Len(pass[p].rows)
           /\ pass[p].i \in DOMAIN pass[p].rows
           /\ RowOf(p) \in Row
           /\ RowOf(p).machine \in Machines
           /\ RowOf(p).key \in AnyKey
           /\ RowOf(p).stamp \in 0..Len(link)
<1>1. pass[p].pc = pc /\ pc # "idle" /\ pass[p].i <= Len(pass[p].rows)
  BY DEF At
<1>2. pass[p].i # 0 /\ pass[p].i \in Nat /\ pass[p].rows \in Seq(Row)
  BY <1>1, PassTypes DEF PassForm
<1>3. pass[p].i \in DOMAIN pass[p].rows /\ pass[p].i \in 1..Len(pass[p].rows)
  BY <1>1, <1>2, LenProperties
<1>4. RowOf(p).stamp <= Len(link)
  BY <1>3, PassTypes DEF PassForm, RowOf
<1>5. /\ RowOf(p) \in Row /\ RowOf(p).machine \in Machines
      /\ RowOf(p).key \in AnyKey /\ RowOf(p).stamp \in Nat
  BY <1>2, <1>3, RowTypes DEF RowOf
<1> QED BY <1>1, <1>3, <1>4, <1>5, Counts DEF Idle

(* The searches find links and tickets that exist.                          *)
LEMMA SearchesFind ==
    ASSUME NEW row
    PROVE  /\ ResolveLink(row) \subseteq DOMAIN link
           /\ LinkForImport(row) \subseteq DOMAIN link
           /\ \A key : Candidates(key) \subseteq DOMAIN ticket
BY DEF ResolveLink, LinkForImport, ByStamp, ByUid, Candidates

(* The uid that a row gives to its link.                                    *)
LEMMA UidTypes ==
    ASSUME NEW n \in Nat, NEW row \in Row, row.key # Blank, row.stamp <= n
    PROVE  Uid(row) \in Uids(n)
<1>1. row.stamp \in Nat /\ row.key \in Keys
  BY DEF Row
<1>2. CASE row.stamp = 0
  BY <1>1, <1>2 DEF Uid, Uids
<1>3. CASE row.stamp # 0
  <2>1. row.stamp \in 1..n
    BY <1>1, <1>3
  <2> QED BY <1>3, <2>1 DEF Uid, Uids
<1> QED BY <1>2, <1>3

(* A pass at rest, and a pass that goes on to the next row.                 *)
LEMMA IdlePassType ==
    ASSUME NEW n \in Nat, NEW t \in Nat
    PROVE  IdlePass \in PassRecords(n, t) /\ PassForm(IdlePass, n)
<1>1. IdlePass \in PassRecords(n, t)
  <2>1. <<>> \in Seq(Row)
    BY EmptySeq
  <2>2. Blank \in AnyKey
    BY DEF AnyKey
  <2> HIDE DEF NoLink
  <2> QED BY <2>1, <2>2 DEF IdlePass, PassRecords
<1>2. PassForm(IdlePass, n)
  BY DEF IdlePass, PassForm
<1> QED BY <1>1, <1>2

LEMMA NextRowType ==
    ASSUME NEW n \in Nat, NEW t \in Nat, NEW q \in PassRecords(n, t), PassForm(q, n),
           q.pc # "idle", NEW puts \in SUBSET Put(n)
    PROVE  /\ [NextRow(q) EXCEPT !.puts = puts] \in PassRecords(n, t)
           /\ PassForm([NextRow(q) EXCEPT !.puts = puts], n)
           /\ NextRow(q) \in PassRecords(n, t)
           /\ PassForm(NextRow(q), n)
<1>1. /\ q.rows \in Seq(Row) /\ q.i \in Nat /\ q.op \in {"none", "import", "push", "reconcile"}
      /\ q.puts \in SUBSET Put(n)
  BY DEF PassRecords
<1>2. IdlePass \in PassRecords(n, t)
  BY IdlePassType
<1>3. NextRow(q) \in PassRecords(n, t)
  <2>1. PICK j \in Nat : j = q.i + 1
    BY <1>1
  <2>2. NextRow(q) = [IdlePass EXCEPT !.pc = "row", !.op = q.op, !.rows = q.rows, !.i = j,
                                      !.puts = q.puts]
    BY <2>1 DEF NextRow
  <2>3. [IdlePass EXCEPT !.pc = "row", !.op = q.op, !.rows = q.rows, !.i = j, !.puts = q.puts]
            \in PassRecords(n, t)
    BY <1>1, <1>2, <2>1 DEF PassRecords
  <2> QED BY <2>2, <2>3
<1>4. NextRow(q).pc = "row" /\ NextRow(q).op = q.op /\ NextRow(q).rows = q.rows /\ NextRow(q).i = q.i + 1
  BY <1>2 DEF NextRow, PassRecords
<1>5. [NextRow(q) EXCEPT !.puts = puts] \in PassRecords(n, t)
  BY <1>3 DEF PassRecords
<1>6. LET r == [NextRow(q) EXCEPT !.puts = puts]
      IN  r.pc = "row" /\ r.op = q.op /\ r.rows = q.rows /\ r.i = q.i + 1
  BY <1>3, <1>4 DEF PassRecords
<1>7. PassForm(NextRow(q), n)
  BY <1>1, <1>4 DEF PassForm
<1>8. PassForm([NextRow(q) EXCEPT !.puts = puts], n)
  BY <1>1, <1>6 DEF PassForm
<1> QED BY <1>3, <1>5, <1>7, <1>8

(* A step of one pass leaves the passes what they are.                      *)
LEMMA PassesTyped ==
    ASSUME TypeInv, Len(link)' \in Nat, Len(ticket)' \in Nat,
           Len(link) <= Len(link)', Len(ticket) <= Len(ticket)',
           NEW p \in Passes, NEW q \in PassRecords(Len(link)', Len(ticket)'),
           PassForm(q, Len(link)'), pass' = [pass EXCEPT ![p] = q]
    PROVE  /\ pass' \in [Passes -> PassRecords(Len(link)', Len(ticket)')]
           /\ \A r \in Passes : PassForm(pass'[r], Len(link)')
<1>1. /\ pass \in [Passes -> PassRecords(Len(link)', Len(ticket)')]
      /\ \A r \in Passes : PassForm(pass[r], Len(link)')
  BY StateGrows
<1> DEFINE n2 == Len(link)'
           t2 == Len(ticket)'
<1>2. /\ pass \in [Passes -> PassRecords(n2, t2)] /\ q \in PassRecords(n2, t2)
      /\ \A r \in Passes : PassForm(pass[r], n2)
      /\ PassForm(q, n2)
  BY <1>1
<1> HIDE DEF n2, t2
<1>3. pass' \in [Passes -> PassRecords(n2, t2)]
  BY <1>2
<1>4. \A r \in Passes : pass'[r] = IF r = p THEN q ELSE pass[r]
  BY <1>2
<1> QED BY <1>2, <1>3, <1>4 DEF n2, t2
-----------------------------------------------------------------------------
(* A step that only moves a pass on.                                        *)
LEMMA PassOnlyType ==
    ASSUME TypeInv, UNCHANGED <<sheet, ticket, link, review, direction>>,
           budget' \in 0..MaxUserActions,
           NEW p \in Passes, NEW q \in PassRecords(Len(link), Len(ticket)),
           PassForm(q, Len(link)), pass' = [pass EXCEPT ![p] = q]
    PROVE  TypeInv'
<1>1. /\ Len(link)' = Len(link) /\ Len(ticket)' = Len(ticket)
      /\ Len(link) \in Nat /\ Len(ticket) \in Nat
  BY Counts
<1>2. /\ pass' \in [Passes -> PassRecords(Len(link), Len(ticket))]
      /\ \A r \in Passes : PassForm(pass'[r], Len(link))
  <2>1. /\ q \in PassRecords(Len(link)', Len(ticket)') /\ PassForm(q, Len(link)')
        /\ Len(link) <= Len(link)' /\ Len(ticket) <= Len(ticket)'
        /\ Len(link)' \in Nat /\ Len(ticket)' \in Nat
    BY <1>1
  <2>2. /\ pass' \in [Passes -> PassRecords(Len(link)', Len(ticket)')]
        /\ \A r \in Passes : PassForm(pass'[r], Len(link)')
    BY <2>1, PassesTyped
  <2> QED BY <1>1, <2>2
<1> QED BY <1>1, <1>2 DEF TypeInv

LEMMA BudgetSpentType == ASSUME TypeInv, BudgetSpent PROVE budget' \in 0..MaxUserActions
BY LinksAssumption DEF BudgetSpent, TypeInv

LEMMA InitType == Init => TypeInv
<1> SUFFICES ASSUME Init PROVE TypeInv
  OBVIOUS
<1>1. PICK m \in SUBSET Machines :
         sheet \in [1..Cardinality(m) -> [machine : m, key : Keys, stamp : {0}]]
  BY DEF Init
<1>2. Cardinality(m) \in Nat
  BY LinksAssumption, FS_Subset, FS_CardinalityType
<1>3. sheet \in Seq([machine : m, key : Keys, stamp : {0}]) /\ Len(sheet) = Cardinality(m)
  BY <1>1, <1>2, FunctionIsSeq
<1>4. [machine : m, key : Keys, stamp : {0}] \subseteq Row
  BY DEF Row
<1>5. sheet \in Seq(Row)
  BY <1>3, <1>4, SeqMonotonic
<1>6. link = <<>> /\ Len(link) = 0 /\ link \in Seq(Links(Len(link), Len(ticket)))
  BY EmptySeq DEF Init
<1>7. \A j \in DOMAIN sheet : sheet[j].stamp <= Len(link)
  BY <1>1, <1>6
<1>8. ticket \in Seq(AnyKey) /\ Len(ticket) \in Nat
  <2>1. ticket \in Seq(Keys) /\ Keys \subseteq AnyKey
    BY LinksAssumption DEF Init, AnyKey
  <2> QED BY <2>1, SeqMonotonic, LenProperties
<1>9. review \subseteq Reviews(Len(link), Len(ticket)) /\ direction \in Directions
  BY DEF Init
<1>10. /\ pass \in [Passes -> PassRecords(Len(link), Len(ticket))]
       /\ \A p \in Passes : PassForm(pass[p], Len(link))
  BY <1>6, <1>8, IdlePassType DEF Init
<1>11. budget \in 0..MaxUserActions
  BY LinksAssumption DEF Init
<1> QED BY <1>5, <1>6, <1>7, <1>8, <1>9, <1>10, <1>11 DEF TypeInv

(* A pass begins with all the rows.                                         *)
LEMMA LoadType ==
    ASSUME TypeInv, budget' \in 0..MaxUserActions,
           NEW p \in Passes, NEW op \in {"import", "push", "reconcile"}, Load(p, op)
    PROVE  TypeInv'
<1> DEFINE q == [IdlePass EXCEPT !.pc = "row", !.op = op, !.rows = sheet, !.i = 1]
<1>1. IdlePass \in PassRecords(Len(link), Len(ticket))
  BY Counts, IdlePassType
<1>2. sheet \in Seq(Row) /\ \A j \in DOMAIN sheet : sheet[j].stamp <= Len(link)
  BY DEF TypeInv
<1>3. q \in PassRecords(Len(link), Len(ticket))
  BY <1>1, <1>2 DEF PassRecords
<1>4. q.pc = "row" /\ q.op = op /\ q.rows = sheet /\ q.i = 1
  BY <1>1 DEF PassRecords
<1>5. /\ pass' = [pass EXCEPT ![p] = q]
      /\ UNCHANGED <<sheet, ticket, link, review, direction>>
  BY DEF Load
<1> HIDE DEF q
<1>6. PassForm(q, Len(link))
  BY <1>2, <1>4 DEF PassForm
<1> QED BY <1>3, <1>5, <1>6, PassOnlyType

(* A row's link and its ticket, as read.                                    *)
LEMMA FoundType ==
    ASSUME TypeInv, NEW p \in Passes, NEW l \in DOMAIN link, NEW pc \in {"ticket", "link"},
           At(p, "row"), Found(p, l, pc),
           pass[p].op = "import" => RowOf(p).key # Blank,
           UNCHANGED <<sheet, ticket, link, review, direction, budget>>
    PROVE  TypeInv'
<1> DEFINE q == [pass[p] EXCEPT !.pc = pc, !.id = l, !.copy = link[l],
                                !.tk = link[l].ticket, !.key = ticket[link[l].ticket]]
<1>1. /\ l \in 0..Len(link) /\ l # 0 /\ link[l] \in Links(Len(link), Len(ticket))
      /\ link[l].ticket \in 0..Len(ticket) /\ link[l].ticket # 0
      /\ ticket[link[l].ticket] \in AnyKey
      /\ link[l] # NoLink
  BY LinkTypes, Counts
<1>2. pass[p] \in PassRecords(Len(link), Len(ticket)) /\ PassForm(pass[p], Len(link))
  BY PassTypes
<1>3. q \in PassRecords(Len(link), Len(ticket))
  BY <1>1, <1>2 DEF PassRecords
<1>4. /\ q.pc = pc /\ q.op = pass[p].op /\ q.rows = pass[p].rows /\ q.i = pass[p].i
      /\ q.id = l /\ q.copy = link[l] /\ q.tk = link[l].ticket
  BY <1>2 DEF PassRecords
<1>5. pass' = [pass EXCEPT ![p] = q]
  BY DEF Found
<1> HIDE DEF q
<1>6. PassForm(q, Len(link))
  BY <1>1, <1>2, <1>4, RowAt DEF PassForm, At, RowOf
<1>7. budget' \in 0..MaxUserActions
  BY DEF TypeInv
<1> QED BY <1>3, <1>5, <1>6, <1>7, PassOnlyType

LEMMA ClassifyRowType == ASSUME TypeInv, NEW p \in Passes, ClassifyRow(p) PROVE TypeInv'
<1>1. /\ At(p, "row") /\ pass[p].op = "import" /\ RowOf(p).key # Blank
      /\ UNCHANGED <<sheet, ticket, link, review, direction, budget>>
  BY DEF ClassifyRow
<1>2. ASSUME NEW l \in LinkForImport(RowOf(p)), Found(p, l, "ticket") PROVE TypeInv'
  BY <1>1, <1>2, SearchesFind, FoundType
<1>3. ASSUME NEW t \in {0} \cup Candidates(RowOf(p).key),
             pass' = [pass EXCEPT ![p] = [pass[p] EXCEPT !.pc = "ticket", !.id = 0, !.tk = t]]
      PROVE  TypeInv'
  <2> DEFINE q == [pass[p] EXCEPT !.pc = "ticket", !.id = 0, !.tk = t]
  <2>1. t \in 0..Len(ticket) /\ 0 \in 0..Len(link)
    BY Counts, SearchesFind
  <2>2. pass[p] \in PassRecords(Len(link), Len(ticket)) /\ PassForm(pass[p], Len(link))
    BY PassTypes
  <2>3. q \in PassRecords(Len(link), Len(ticket))
    BY <2>1, <2>2 DEF PassRecords
  <2>4. /\ q.pc = "ticket" /\ q.op = pass[p].op /\ q.rows = pass[p].rows /\ q.i = pass[p].i
        /\ q.id = 0
    BY <2>2 DEF PassRecords
  <2>5. pass' = [pass EXCEPT ![p] = q]
    BY <1>3
  <2> HIDE DEF q
  <2>6. PassForm(q, Len(link))
    BY <1>1, <2>2, <2>4, RowAt DEF PassForm, At, RowOf
  <2>7. budget' \in 0..MaxUserActions
    BY <1>1 DEF TypeInv
  <2> QED BY <1>1, <2>3, <2>5, <2>6, <2>7, PassOnlyType
<1> QED BY <1>2, <1>3 DEF ClassifyRow

LEMMA FindTicketType == ASSUME TypeInv, NEW p \in Passes, FindTicket(p) PROVE TypeInv'
<1>1. /\ At(p, "row") /\ pass[p].op # "import"
      /\ UNCHANGED <<sheet, ticket, link, review, direction, budget>>
  BY DEF FindTicket
<1>2. PICK l \in ResolveLink(RowOf(p)) : Found(p, l, IF pass[p].op = "push" THEN "link" ELSE "ticket")
  BY DEF FindTicket
<1>3. l \in DOMAIN link
  BY SearchesFind
<1>4. CASE Found(p, l, "link")
  BY <1>1, <1>3, <1>4, FoundType
<1>5. CASE Found(p, l, "ticket")
  BY <1>1, <1>3, <1>5, FoundType
<1> QED BY <1>2, <1>4, <1>5

(* The pass goes on to the next row, or ends.                               *)
LEMMA SkipRowType == ASSUME TypeInv, NEW p \in Passes, SkipRow(p) PROVE TypeInv'
<1>1. /\ At(p, "row") /\ pass' = [pass EXCEPT ![p] = NextRow(pass[p])]
      /\ UNCHANGED <<sheet, ticket, link, review, direction, budget>>
  BY DEF SkipRow
<1>2. pass[p].pc # "idle" /\ {} \in SUBSET Put(Len(link))
  BY <1>1 DEF At
<1>3. NextRow(pass[p]) \in PassRecords(Len(link), Len(ticket)) /\ PassForm(NextRow(pass[p]), Len(link))
  BY <1>2, Counts, PassTypes, NextRowType
<1>4. budget' \in 0..MaxUserActions
  BY <1>1 DEF TypeInv
<1> QED BY <1>1, <1>3, <1>4, PassOnlyType

LEMMA WriteFailsType == ASSUME TypeInv, NEW p \in Passes, WriteFails(p) PROVE TypeInv'
<1>1. /\ pass' = [pass EXCEPT ![p] = IdlePass] /\ budget' \in 0..MaxUserActions
      /\ UNCHANGED <<sheet, ticket, link, review, direction>>
  BY DEF WriteFails, TypeInv
<1> QED BY <1>1, Counts, IdlePassType, PassOnlyType

LEMMA RestartType == ASSUME TypeInv, Restart PROVE TypeInv'
<1>1. /\ pass' = [p \in Passes |-> IdlePass] /\ budget' \in 0..MaxUserActions
      /\ UNCHANGED <<sheet, ticket, link, review, direction>>
  BY LinksAssumption DEF Restart, BudgetSpent, TypeInv
<1>2. IdlePass \in PassRecords(Len(link), Len(ticket)) /\ PassForm(IdlePass, Len(link))
  BY Counts, IdlePassType
<1>3. /\ pass' \in [Passes -> PassRecords(Len(link), Len(ticket))]
      /\ \A p \in Passes : PassForm(pass'[p], Len(link))
  BY <1>1, <1>2
<1> QED BY <1>1, <1>3 DEF TypeInv

(* The review of a row has the row's uid and the tickets with its key.      *)
LEMMA NewReviewType ==
    ASSUME TypeInv, NEW p \in Passes, At(p, "row"), RowOf(p).key # Blank
    PROVE  [uid |-> Uid(RowOf(p)), key |-> RowOf(p).key, candidates |-> Candidates(RowOf(p).key)]
               \in Reviews(Len(link), Len(ticket))
<1>1. /\ RowOf(p) \in Row /\ RowOf(p).key \in AnyKey /\ RowOf(p).stamp \in 0..Len(link)
  BY RowAt
<1>2. Uid(RowOf(p)) \in Uids(Len(link)) /\ RowOf(p).key \in Keys
  BY <1>1, Counts, UidTypes DEF AnyKey
<1>3. Candidates(RowOf(p).key) \subseteq 1..Len(ticket)
  BY Counts, SearchesFind
<1> QED BY <1>2, <1>3 DEF Reviews

LEMMA RecordAdoptionType == ASSUME TypeInv, NEW p \in Passes, RecordAdoption(p) PROVE TypeInv'
<1>1. /\ At(p, "row") /\ RowOf(p).key # Blank /\ PutUpForReview(p)
      /\ pass' = [pass EXCEPT ![p] = NextRow(pass[p])]
      /\ UNCHANGED <<sheet, ticket, link, direction, budget>>
  BY DEF RecordAdoption
<1>2. review' \subseteq Reviews(Len(link), Len(ticket))
  BY <1>1, NewReviewType DEF PutUpForReview, TypeInv
<1>3. pass[p].pc # "idle" /\ {} \in SUBSET Put(Len(link))
  BY <1>1 DEF At
<1>4. NextRow(pass[p]) \in PassRecords(Len(link), Len(ticket)) /\ PassForm(NextRow(pass[p]), Len(link))
  BY <1>3, Counts, PassTypes, NextRowType
<1>5. Len(link)' = Len(link) /\ Len(ticket)' = Len(ticket)
  BY <1>1
<1>6. /\ pass' \in [Passes -> PassRecords(Len(link), Len(ticket))]
      /\ \A r \in Passes : PassForm(pass'[r], Len(link))
  BY <1>1, <1>4 DEF TypeInv
<1> QED BY <1>1, <1>2, <1>5, <1>6 DEF TypeInv

(* A step of a pass that writes to the tickets or to the links.             *)
LEMMA PassWritesType ==
    ASSUME TypeInv, UNCHANGED <<sheet, review, direction>>, budget' \in 0..MaxUserActions,
           ticket' \in Seq(AnyKey), Len(ticket) <= Len(ticket)',
           link' \in Seq(Links(Len(link)', Len(ticket)')), Len(link) <= Len(link)',
           NEW p \in Passes, NEW q \in PassRecords(Len(link)', Len(ticket)'),
           PassForm(q, Len(link)'), pass' = [pass EXCEPT ![p] = q]
    PROVE  TypeInv'
<1>1. Len(link)' \in Nat /\ Len(ticket)' \in Nat
  BY LenProperties
<1>2. /\ pass' \in [Passes -> PassRecords(Len(link)', Len(ticket)')]
      /\ \A r \in Passes : PassForm(pass'[r], Len(link)')
  BY <1>1, PassesTyped
<1>3. /\ \A j \in DOMAIN sheet : sheet[j].stamp <= Len(link)'
      /\ review \subseteq Reviews(Len(link)', Len(ticket)')
  BY <1>1, StateGrows
<1> QED BY <1>2, <1>3 DEF TypeInv

(* A ticket is made, or gets a key; the pass is at its link then.           *)
LEMMA NewTicketType ==
    ASSUME TypeInv, NEW key \in AnyKey
    PROVE  /\ Append(ticket, key) \in Seq(AnyKey)
           /\ Len(Append(ticket, key)) = Len(ticket) + 1
           /\ \A t \in DOMAIN ticket : Append(ticket, key)[t] = ticket[t]
           /\ Append(ticket, key)[Len(ticket) + 1] = key
BY Counts, AppendProperties DEF TypeInv

LEMMA TicketKeyType ==
    ASSUME TypeInv, NEW key \in AnyKey, NEW t \in DOMAIN ticket
    PROVE  /\ [ticket EXCEPT ![t] = key] \in Seq(AnyKey)
           /\ Len([ticket EXCEPT ![t] = key]) = Len(ticket)
           /\ DOMAIN [ticket EXCEPT ![t] = key] = DOMAIN ticket
           /\ \A u \in DOMAIN ticket : [ticket EXCEPT ![t] = key][u] = IF u = t THEN key ELSE ticket[u]
BY Counts, ExceptSeq DEF TypeInv

LEMMA AtLinkType ==
    ASSUME TypeInv, NEW p \in Passes, At(p, "ticket"),
           NEW n \in Nat, NEW t \in Nat, Len(link) <= n, Len(ticket) <= t,
           NEW tk \in 0..t, tk # 0, NEW q, q = [pass[p] EXCEPT !.pc = "link", !.tk = tk]
    PROVE  q \in PassRecords(n, t) /\ PassForm(q, n)
<1>1. pass[p] \in PassRecords(n, t) /\ PassForm(pass[p], n)
  BY Counts, PassTypes, TypesGrow
<1>2. q \in PassRecords(n, t)
  BY <1>1 DEF PassRecords
<1>3. /\ q.pc = "link" /\ q.tk = tk /\ q.op = pass[p].op /\ q.rows = pass[p].rows
      /\ q.i = pass[p].i /\ q.id = pass[p].id /\ q.copy = pass[p].copy
  BY <1>1 DEF PassRecords
<1>4. PassForm(q, n)
  BY <1>1, <1>3 DEF PassForm, At
<1> QED BY <1>2, <1>4

LEMMA ApplyCreateType == ASSUME TypeInv, NEW p \in Passes, ApplyCreate(p) PROVE TypeInv'
<1>1. /\ At(p, "ticket") /\ UNCHANGED <<sheet, link, review, direction>>
      /\ ticket' = Append(ticket, RowOf(p).key)
  BY DEF ApplyCreate
<1>2. budget' \in 0..MaxUserActions
  BY BudgetSpentType DEF ApplyCreate, TypeInv
<1>3. RowOf(p).key \in AnyKey
  BY <1>1, RowAt
<1>4. link \in Seq(Links(Len(link), Len(ticket))) /\ Len(link)' = Len(link) /\ Len(link) \in Nat
  BY <1>1, Counts DEF TypeInv
<1>5. ticket' \in Seq(AnyKey) /\ Len(ticket)' = Len(ticket) + 1
  BY <1>1, <1>3, NewTicketType
<1>6. PICK t \in Nat : t = Len(ticket) + 1 /\ Len(ticket) <= t /\ t # 0 /\ t \in 0..t
  BY Counts
<1>7. link' \in Seq(Links(Len(link)', Len(ticket)'))
  BY <1>1, <1>4, <1>5, <1>6, StateGrows
<1>8. Len(link) <= Len(link) /\ Len(link) <= Len(link)' /\ Len(ticket) <= Len(ticket)'
  BY <1>4, <1>5, <1>6
<1>9. ASSUME NEW q, q \in PassRecords(Len(link), t), PassForm(q, Len(link)),
             pass' = [pass EXCEPT ![p] = q]
      PROVE  TypeInv'
  <2>1. q \in PassRecords(Len(link)', Len(ticket)') /\ PassForm(q, Len(link)')
    BY <1>4, <1>5, <1>6, <1>9
  <2> QED BY <1>1, <1>2, <1>5, <1>7, <1>8, <1>9, <2>1, PassWritesType
<1>10. CASE pass' = [pass EXCEPT ![p] = [pass[p] EXCEPT !.pc = "link", !.tk = Len(ticket) + 1]]
  <2>1. PICK q : q = [pass[p] EXCEPT !.pc = "link", !.tk = t]
    OBVIOUS
  <2>2. q \in PassRecords(Len(link), t) /\ PassForm(q, Len(link))
    BY <1>1, <1>4, <1>6, <1>8, <2>1, AtLinkType
  <2> QED BY <1>6, <1>9, <1>10, <2>1, <2>2
<1>11. CASE pass' = [pass EXCEPT ![p] = NextRow(pass[p])]
  <2>1. pass[p].pc # "idle" /\ {} \in SUBSET Put(Len(link))
    BY <1>1 DEF At
  <2>2. pass[p] \in PassRecords(Len(link), t) /\ PassForm(pass[p], Len(link))
    BY <1>4, <1>6, <1>8, Counts, PassTypes, TypesGrow
  <2>3. NextRow(pass[p]) \in PassRecords(Len(link), t) /\ PassForm(NextRow(pass[p]), Len(link))
    BY <1>4, <2>1, <2>2, NextRowType
  <2> QED BY <1>9, <1>11, <2>3
<1> QED BY <1>10, <1>11 DEF ApplyCreate

LEMMA ApplyToTicketType == ASSUME TypeInv, NEW p \in Passes, ApplyToTicket(p) PROVE TypeInv'
<1>1. /\ At(p, "ticket") /\ UNCHANGED <<sheet, link, review, direction, budget>>
      /\ pass[p].tk # 0
  BY DEF ApplyToTicket
<1>2. RowOf(p).key \in AnyKey
  BY <1>1, RowAt
<1>3. /\ link \in Seq(Links(Len(link), Len(ticket))) /\ Len(link)' = Len(link) /\ Len(link) \in Nat
      /\ budget' \in 0..MaxUserActions
  BY <1>1, Counts DEF TypeInv
<1>4. CASE pass[p].tk \in assigned
  <2>1. /\ ticket' = [ticket EXCEPT ![pass[p].tk] = RowOf(p).key]
        /\ pass' = [pass EXCEPT ![p].pc = "link"]
    BY <1>4 DEF ApplyToTicket
  <2>2. pass[p].tk \in DOMAIN ticket /\ pass[p].tk \in 0..Len(ticket)
    BY <1>1, Counts, PassTypes
  <2>3. ticket' \in Seq(AnyKey) /\ Len(ticket)' = Len(ticket) /\ Len(ticket) \in Nat
    BY <1>2, <2>1, <2>2, TicketKeyType, Counts
  <2> DEFINE q == [pass[p] EXCEPT !.pc = "link", !.tk = pass[p].tk]
  <2>4. q \in PassRecords(Len(link)', Len(ticket)') /\ PassForm(q, Len(link)')
    <3>1. q = [pass[p] EXCEPT !.pc = "link", !.tk = pass[p].tk]
      OBVIOUS
    <3> HIDE DEF q
    <3>2. Len(link) <= Len(link) /\ Len(ticket) <= Len(ticket)
      BY <1>3, <2>3
    <3>3. q \in PassRecords(Len(link), Len(ticket)) /\ PassForm(q, Len(link))
      BY <1>1, <1>3, <2>2, <2>3, <3>1, <3>2, AtLinkType
    <3> QED BY <1>3, <2>3, <3>3
  <2>5. q = [pass[p] EXCEPT !.pc = "link"]
    BY PassTypes DEF PassRecords
  <2>6. pass' = [pass EXCEPT ![p] = q]
    BY <2>1, <2>5
  <2> HIDE DEF q
  <2>7. /\ Len(link) <= Len(link)' /\ Len(ticket) <= Len(ticket)'
        /\ link' \in Seq(Links(Len(link)', Len(ticket)'))
    BY <1>1, <1>3, <2>3
  <2> QED BY <1>1, <1>3, <2>3, <2>4, <2>6, <2>7, PassWritesType
<1>5. CASE pass[p].tk \notin assigned
  <2>1. UNCHANGED ticket /\ pass' = [pass EXCEPT ![p] = NextRow(pass[p])]
    BY <1>5 DEF ApplyToTicket
  <2>2. pass[p].pc # "idle" /\ {} \in SUBSET Put(Len(link))
    BY <1>1 DEF At
  <2>3. NextRow(pass[p]) \in PassRecords(Len(link), Len(ticket)) /\ PassForm(NextRow(pass[p]), Len(link))
    BY <2>2, Counts, PassTypes, NextRowType
  <2> QED BY <1>1, <1>3, <2>1, <2>3, PassOnlyType
<1> QED BY <1>4, <1>5

LEMMA MergeTicketType == ASSUME TypeInv, NEW p \in Passes, MergeTicket(p) PROVE TypeInv'
<1>1. /\ At(p, "ticket") /\ pass[p].op = "reconcile" /\ UNCHANGED <<sheet, link, review, direction, budget>>
      /\ ticket' \in {ticket, [ticket EXCEPT ![pass[p].tk] = RowOf(p).key]}
      /\ pass' = [pass EXCEPT ![p].pc = "link"]
  BY DEF MergeTicket
<1>2. RowOf(p).key \in AnyKey
  BY <1>1, RowAt
<1>3. link \in Seq(Links(Len(link), Len(ticket))) /\ Len(link)' = Len(link) /\ Len(link) \in Nat
  BY <1>1, Counts DEF TypeInv
<1>4. pass[p].tk \in DOMAIN ticket /\ pass[p].tk \in 0..Len(ticket) /\ pass[p].tk # 0
  BY <1>1, Counts, PassTypes DEF PassForm, At
<1>5. ticket' \in Seq(AnyKey) /\ Len(ticket)' = Len(ticket) /\ Len(ticket) \in Nat
  <2>1. ticket \in Seq(AnyKey) /\ Len(ticket) \in Nat
    BY Counts DEF TypeInv
  <2>2. CASE ticket' = [ticket EXCEPT ![pass[p].tk] = RowOf(p).key]
    BY <1>2, <1>4, <2>1, <2>2, TicketKeyType
  <2>3. CASE ticket' = ticket
    BY <2>1, <2>3
  <2> QED BY <1>1, <2>2, <2>3
<1> DEFINE q == [pass[p] EXCEPT !.pc = "link", !.tk = pass[p].tk]
<1>6. q \in PassRecords(Len(link)', Len(ticket)') /\ PassForm(q, Len(link)')
  <2>1. q = [pass[p] EXCEPT !.pc = "link", !.tk = pass[p].tk]
    OBVIOUS
  <2> HIDE DEF q
  <2>2. Len(link) <= Len(link) /\ Len(ticket) <= Len(ticket)
    BY <1>3, <1>5
  <2>3. q \in PassRecords(Len(link), Len(ticket)) /\ PassForm(q, Len(link))
    BY <1>1, <1>3, <1>4, <1>5, <2>1, <2>2, AtLinkType
  <2> QED BY <1>3, <1>5, <2>3
<1>7. q = [pass[p] EXCEPT !.pc = "link"]
  BY PassTypes DEF PassRecords
<1>8. pass' = [pass EXCEPT ![p] = q]
  BY <1>1, <1>7
<1> HIDE DEF q
<1>9. /\ Len(link) <= Len(link)' /\ Len(ticket) <= Len(ticket)'
      /\ link' \in Seq(Links(Len(link)', Len(ticket)'))
  BY <1>1, <1>3, <1>5
<1>10. budget' \in 0..MaxUserActions
  BY <1>1 DEF TypeInv
<1> QED BY <1>1, <1>5, <1>6, <1>8, <1>9, <1>10, PassWritesType

(* What a pass saves for a row is a link.                                   *)
LEMMA SavedLinkType ==
    ASSUME TypeInv, NEW p \in Passes, At(p, "link")
    PROVE  /\ pass[p].id = 0 =>
                 NewLink(p) \in Links(Len(link) + 1, Len(ticket)) /\ pass[p].op = "import"
           /\ pass[p].id # 0 => /\ pass[p].id \in DOMAIN link
                                /\ PushedLink(p) \in Links(Len(link), Len(ticket))
                                /\ MergedLink(p) \in Links(Len(link), Len(ticket))
                                /\ ImportedLink(p) \in Links(Len(link), Len(ticket))
           /\ Puts(p) \subseteq Put(Len(link))
<1> DEFINE n == Len(link)
           t == Len(ticket)
<1>1. n \in Nat /\ t \in Nat
  BY Counts
<1>2. /\ pass[p].pc = "link" /\ RowOf(p) \in Row /\ RowOf(p).key \in AnyKey /\ RowOf(p).stamp \in 0..n
      /\ pass[p].i \in Nat
  BY RowAt
<1>3. /\ pass[p].id \in 0..n /\ pass[p].tk \in 0..t /\ pass[p].key \in AnyKey
      /\ pass[p].copy \in Links(n, t) \cup {NoLink}
      /\ PassForm(pass[p], n)
  BY PassTypes
<1>4. pass[p].tk # 0 /\ pass[p].tk \in 1..t
  BY <1>1, <1>2, <1>3 DEF PassForm
<1>5. ASSUME pass[p].id = 0
      PROVE  NewLink(p) \in Links(n + 1, t) /\ pass[p].op = "import"
  <2>1. pass[p].op = "import" /\ RowOf(p).key # Blank
    BY <1>2, <1>3, <1>5 DEF PassForm, RowOf
  <2>2. Uid(RowOf(p)) \in Uids(n + 1)
    <3>1. n + 1 \in Nat /\ RowOf(p).stamp <= n + 1
      BY <1>1, <1>2
    <3> QED BY <1>2, <2>1, <3>1, UidTypes
  <2>3. RowOf(p).stamp \in 0..n + 1
    BY <1>1, <1>2
  <2> QED BY <1>2, <1>4, <2>1, <2>2, <2>3 DEF NewLink, Links
<1>6. ASSUME pass[p].id # 0
      PROVE  /\ pass[p].id \in DOMAIN link /\ PushedLink(p) \in Links(n, t)
             /\ MergedLink(p) \in Links(n, t) /\ ImportedLink(p) \in Links(n, t)
  <2>1. pass[p].copy \in Links(n, t)
    BY <1>2, <1>3, <1>6 DEF PassForm
  <2>2. pass[p].id \in DOMAIN link
    BY <1>1, <1>3, <1>6, Counts
  <2>3. PushedLink(p) \in Links(n, t)
    BY <1>3, <2>1 DEF PushedLink, Links
  <2>4. MergedLink(p) \in Links(n, t)
    <3>1. PICK b \in AnyKey : MergedLink(p) = [pass[p].copy EXCEPT !.base = b]
      <4>1. pass[p].copy.base \in AnyKey
        BY <2>1 DEF Links
      <4> QED BY <1>2, <1>3, <4>1 DEF MergedLink
    <3> QED BY <2>1, <3>1 DEF Links
  <2>5. ImportedLink(p) \in Links(n, t)
    <3>1. PICK s \in 0..n :
             ImportedLink(p) = [pass[p].copy EXCEPT !.ticket = pass[p].tk, !.base = RowOf(p).key,
                                                    !.stamped = s]
      <4>1. pass[p].copy.stamped \in 0..n
        BY <2>1 DEF Links
      <4> QED BY <1>2, <4>1 DEF ImportedLink
    <3> QED BY <1>2, <1>4, <2>1, <3>1 DEF Links
  <2> QED BY <2>2, <2>3, <2>4, <2>5
<1>7. Puts(p) \subseteq Put(n)
  BY <1>1, <1>2, <1>3 DEF Puts, Put
<1> QED BY <1>5, <1>6, <1>7

LEMMA SaveLinkType == ASSUME TypeInv, NEW p \in Passes, SaveLink(p) PROVE TypeInv'
<1> DEFINE n == Len(link)
           t == Len(ticket)
           puts == pass[p].puts \cup Puts(p)
           q == [NextRow(pass[p]) EXCEPT !.puts = puts]
<1>1. /\ At(p, "link") /\ pass' = [pass EXCEPT ![p] = q]
      /\ UNCHANGED <<sheet, ticket, review, direction, budget>>
  BY DEF SaveLink
<1>2. n \in Nat /\ t \in Nat /\ n <= n + 1 /\ n + 1 \in Nat /\ t <= t
  BY Counts
<1>3. pass[p] \in PassRecords(n, t) /\ PassForm(pass[p], n) /\ pass[p].pc # "idle"
  BY <1>1, PassTypes DEF At
<1>4. puts \in SUBSET Put(n)
  BY <1>1, PassTypes, SavedLinkType
<1>5. q \in PassRecords(n, t) /\ PassForm(q, n)
  <2> HIDE DEF puts
  <2> QED BY <1>2, <1>3, <1>4, NextRowType
<1> HIDE DEF q
<1>6. ticket' \in Seq(AnyKey) /\ Len(ticket)' = t /\ budget' \in 0..MaxUserActions
  BY <1>1 DEF TypeInv
<1>7. link \in Seq(Links(n, t))
  BY DEF TypeInv
<1>8. CASE pass[p].id = 0
  <2>1. link' = Append(link, NewLink(p)) /\ NewLink(p) \in Links(n + 1, t)
    BY <1>1, <1>8, SavedLinkType DEF SaveLink
  <2>2. link \in Seq(Links(n + 1, t))
    <3>1. Links(n, t) \subseteq Links(n + 1, t)
      BY <1>2, TypesGrow
    <3> QED BY <1>7, <3>1, SeqMonotonic
  <2>3. link' \in Seq(Links(n + 1, t)) /\ Len(link)' = n + 1
    BY <2>1, <2>2, AppendProperties
  <2>4. q \in PassRecords(n + 1, t) /\ PassForm(q, n + 1)
    <3>1. PassRecords(n, t) \subseteq PassRecords(n + 1, t)
      BY <1>2, TypesGrow
    <3>2. \A r \in PassRecords(n, t) : PassForm(r, n) => PassForm(r, n + 1)
      BY <1>2, TypesGrow
    <3> QED BY <1>5, <3>1, <3>2
  <2>5. /\ q \in PassRecords(Len(link)', Len(ticket)') /\ PassForm(q, Len(link)')
        /\ link' \in Seq(Links(Len(link)', Len(ticket)'))
        /\ Len(link) <= Len(link)' /\ Len(ticket) <= Len(ticket)'
    BY <1>2, <1>6, <2>3, <2>4
  <2> QED BY <1>1, <1>6, <2>5, PassWritesType
<1>9. CASE pass[p].id # 0
  <2>1. PICK new \in Links(n, t) : link' = [link EXCEPT ![pass[p].id] = new]
    BY <1>1, <1>9, SavedLinkType DEF SaveLink
  <2>2. pass[p].id \in 1..Len(link)
    BY <1>1, <1>9, SavedLinkType, Counts
  <2>3. link' \in Seq(Links(n, t)) /\ Len(link)' = n
    BY <1>7, <2>1, <2>2, ExceptSeq
  <2>4. /\ q \in PassRecords(Len(link)', Len(ticket)') /\ PassForm(q, Len(link)')
        /\ link' \in Seq(Links(Len(link)', Len(ticket)'))
        /\ Len(link) <= Len(link)' /\ Len(ticket) <= Len(ticket)'
    BY <1>2, <1>5, <1>6, <2>3
  <2> QED BY <1>1, <1>6, <2>4, PassWritesType
<1> QED BY <1>8, <1>9

(* WriteCells puts keys and stamps into rows.                               *)
LEMMA EndPassType == ASSUME TypeInv, NEW p \in Passes, EndPass(p) PROVE TypeInv'
<1>1. /\ pass' = [pass EXCEPT ![p] = IdlePass]
      /\ UNCHANGED <<ticket, link, review, direction, budget>>
  BY DEF EndPass
<1>2. ASSUME NEW i \in DOMAIN sheet
      PROVE  sheet'[i] \in Row /\ sheet'[i].stamp \in 0..Len(link)
  <2>1. /\ sheet[i] \in Row /\ sheet[i].stamp \in 0..Len(link)
    BY RowTypes, Counts DEF TypeInv
  <2>2. CASE \E u \in pass[p].puts : u.pos = i
    <3> DEFINE u == CHOOSE u \in pass[p].puts : u.pos = i
               stamp == IF u.stamp # 0 THEN u.stamp ELSE sheet[i].stamp
    <3>1. sheet'[i] = [sheet[i] EXCEPT !.key = u.key, !.stamp = stamp]
      BY <2>2 DEF EndPass
    <3>2. u \in pass[p].puts
      BY <2>2
    <3>3. u \in Put(Len(link))
      BY <3>2, PassTypes
    <3> HIDE DEF u
    <3>4. u.key \in AnyKey /\ u.stamp \in 0..Len(link)
      BY <3>3 DEF Put
    <3>5. stamp \in 0..Len(link) /\ stamp \in Nat
      BY <2>1, <3>4, Counts
    <3> HIDE DEF stamp
    <3> QED BY <2>1, <3>1, <3>4, <3>5 DEF Row, AnyKey
  <2>3. CASE ~\E u \in pass[p].puts : u.pos = i
    BY <2>1, <2>3 DEF EndPass
  <2> QED BY <2>2, <2>3
<1>3. sheet' \in Seq(Row) /\ DOMAIN sheet' = DOMAIN sheet
  <2>1. sheet' \in [1..Len(sheet) -> Row]
    BY <1>2, Counts DEF EndPass
  <2> QED BY <2>1, Counts, FunctionIsSeq
<1>4. \A j \in DOMAIN sheet' : sheet'[j].stamp <= Len(link)
  BY <1>2, <1>3, Counts
<1>5. IdlePass \in PassRecords(Len(link), Len(ticket)) /\ PassForm(IdlePass, Len(link))
  BY Counts, IdlePassType
<1>6. /\ pass' \in [Passes -> PassRecords(Len(link), Len(ticket))]
      /\ \A r \in Passes : PassForm(pass'[r], Len(link))
  BY <1>1, <1>5 DEF TypeInv
<1>7. Len(link)' = Len(link) /\ Len(ticket)' = Len(ticket)
  BY <1>1
<1> QED BY <1>1, <1>3, <1>4, <1>6, <1>7 DEF TypeInv

LEMMA PassStepType == ASSUME TypeInv, NEW p \in Passes, PassStep(p) PROVE TypeInv'
BY ClassifyRowType, RecordAdoptionType, FindTicketType, SkipRowType, ApplyCreateType,
   ApplyToTicketType, MergeTicketType, SaveLinkType, EndPassType, WriteFailsType DEF PassStep

(* People change the sheet.                                                 *)
LEMMA SheetActsType ==
    ASSUME TypeInv, SheetActs, sheet' \in Seq(Row),
           \A j \in DOMAIN sheet' : sheet'[j].stamp <= Len(link)
    PROVE  TypeInv'
BY BudgetSpentType DEF SheetActs, TypeInv

LEMMA MoveRowType ==
    ASSUME TypeInv, NEW i \in DOMAIN sheet, NEW j \in DOMAIN sheet, MoveRow(i, j)
    PROVE  TypeInv'
<1>1. sheet \in Seq(Row) /\ sheet[i] \in Row /\ sheet[j] \in Row
  BY RowTypes DEF TypeInv
<1>2. SheetActs /\ sheet' = [sheet EXCEPT ![i] = sheet[j], ![j] = sheet[i]]
  BY DEF MoveRow
<1> DEFINE once == [sheet EXCEPT ![i] = sheet[j]]
<1>3. once \in Seq(Row) /\ Len(once) = Len(sheet) /\ DOMAIN once = DOMAIN sheet
  BY <1>1, Counts, ExceptSeq
<1>4. sheet' = [once EXCEPT ![j] = sheet[i]]
  BY <1>2
<1> HIDE DEF once
<1>5. sheet' \in Seq(Row) /\ DOMAIN sheet' = DOMAIN sheet
  <2>1. j \in 1..Len(once)
    BY <1>3, Counts
  <2> QED BY <1>1, <1>3, <1>4, <2>1, ExceptSeq
<1>6. \A k \in DOMAIN sheet : sheet'[k] \in {sheet[l] : l \in DOMAIN sheet}
  BY <1>1, <1>2
<1>7. \A k \in DOMAIN sheet' : sheet'[k].stamp <= Len(link)
  BY <1>5, <1>6 DEF TypeInv
<1> QED BY <1>2, <1>5, <1>7, SheetActsType

(* A new row comes between the others.                                      *)
LEMMA AddedRow ==
    ASSUME TypeInv, NEW i \in 1..Len(sheet) + 1, NEW m \in Machines, NEW key \in Keys \cup {Blank},
           AddRow(i, m, key), NEW row, row = [machine |-> m, key |-> key, stamp |-> 0]
    PROVE  /\ sheet' \in Seq(Row) /\ DOMAIN sheet' = 1..Len(sheet) + 1
           /\ \A j \in 1..Len(sheet) + 1 :
                 sheet'[j] = IF j < i THEN sheet[j] ELSE IF j = i THEN row ELSE sheet[j - 1]
<1>1. /\ sheet' \in Seq(Row) /\ Len(sheet') = Len(sheet) + 1
      /\ \A j \in 1..Len(sheet) + 1 :
            sheet'[j] = IF j < i THEN sheet[j] ELSE IF j = i THEN row ELSE sheet[j - 1]
  <2>1. sheet \in Seq(Row) /\ row \in Row /\ i \in 1..Len(sheet) + 1
    BY DEF TypeInv, Row
  <2>2. InsertAt(sheet, i, row) \in Seq(Row) /\ Inserted(InsertAt(sheet, i, row), sheet, i, row)
    BY <2>1, InsertAtProperties
  <2>3. sheet' = InsertAt(sheet, i, row)
    BY DEF AddRow
  <2> QED BY <2>2, <2>3 DEF Inserted
<1> QED BY <1>1, LenProperties

LEMMA AddRowType ==
    ASSUME TypeInv, NEW i \in 1..Len(sheet) + 1, NEW m \in Machines, NEW key \in Keys \cup {Blank},
           AddRow(i, m, key)
    PROVE  TypeInv'
<1>1. PICK row : row = [machine |-> m, key |-> key, stamp |-> 0]
  OBVIOUS
<1>2. SheetActs /\ row.stamp = 0
  BY <1>1 DEF AddRow
<1>3. /\ sheet' \in Seq(Row) /\ DOMAIN sheet' = 1..Len(sheet) + 1
      /\ \A j \in 1..Len(sheet) + 1 :
            sheet'[j] = IF j < i THEN sheet[j] ELSE IF j = i THEN row ELSE sheet[j - 1]
  BY <1>1, AddedRow
<1>4. ASSUME NEW j \in DOMAIN sheet' PROVE sheet'[j].stamp <= Len(link)
  <2>1. CASE j < i
    <3>1. j \in DOMAIN sheet /\ sheet'[j] = sheet[j]
      BY <1>3, <2>1, Counts
    <3> QED BY <3>1 DEF TypeInv
  <2>2. CASE j = i
    BY <1>2, <1>3, <2>2, Counts
  <2>3. CASE j > i
    <3>1. j - 1 \in DOMAIN sheet /\ sheet'[j] = sheet[j - 1]
      BY <1>3, <2>3, Counts
    <3> QED BY <3>1 DEF TypeInv
  <2> QED BY <1>3, <2>1, <2>2, <2>3, Counts
<1> QED BY <1>2, <1>3, <1>4, SheetActsType

LEMMA EditKeyType ==
    ASSUME TypeInv, NEW i \in DOMAIN sheet, NEW key \in Keys, EditKey(i, key)
    PROVE  TypeInv'
<1> DEFINE row == [sheet[i] EXCEPT !.key = key]
<1>1. sheet \in Seq(Row) /\ sheet[i] \in Row /\ sheet[i].stamp <= Len(link)
  BY RowTypes DEF TypeInv
<1>2. row \in Row /\ row.stamp = sheet[i].stamp
  BY <1>1 DEF Row
<1>3. SheetActs /\ sheet' = [sheet EXCEPT ![i] = row]
  BY DEF EditKey
<1> HIDE DEF row
<1>4. /\ sheet' \in Seq(Row) /\ DOMAIN sheet' = DOMAIN sheet
      /\ \A j \in DOMAIN sheet : sheet'[j] = IF j = i THEN row ELSE sheet[j]
  BY <1>1, <1>2, <1>3, Counts, ExceptSeq
<1>5. \A j \in DOMAIN sheet' : sheet'[j].stamp <= Len(link)
  BY <1>1, <1>2, <1>4 DEF TypeInv
<1> QED BY <1>3, <1>4, <1>5, SheetActsType

(* People work in the app: tickets, links and reviews change.               *)
LEMMA AppActsType ==
    ASSUME TypeInv, AppActs, review' \subseteq review,
           ticket' \in Seq(AnyKey), Len(ticket) <= Len(ticket)',
           link' \in Seq(Links(Len(link)', Len(ticket)')), Len(link) <= Len(link)'
    PROVE  TypeInv'
<1>1. UNCHANGED <<sheet, direction, pass>> /\ budget' \in 0..MaxUserActions
  BY BudgetSpentType DEF AppActs
<1>2. Len(link)' \in Nat /\ Len(ticket)' \in Nat
  BY LenProperties
<1>3. /\ \A j \in DOMAIN sheet : sheet[j].stamp <= Len(link)'
      /\ review \subseteq Reviews(Len(link)', Len(ticket)')
      /\ pass \in [Passes -> PassRecords(Len(link)', Len(ticket)')]
      /\ \A p \in Passes : PassForm(pass[p], Len(link)')
  BY <1>2, StateGrows
<1> QED BY <1>1, <1>3 DEF TypeInv

LEMMA CreateTicketType == ASSUME TypeInv, NEW key \in Keys, CreateTicket(key) PROVE TypeInv'
<1>1. AppActs /\ ticket' = Append(ticket, key) /\ UNCHANGED <<link, review>> /\ key \in AnyKey
  BY DEF CreateTicket, AnyKey
<1>2. ticket' \in Seq(AnyKey) /\ Len(ticket)' = Len(ticket) + 1
  BY <1>1, NewTicketType
<1>3. Len(link)' = Len(link) /\ Len(link) <= Len(link)' /\ Len(ticket) <= Len(ticket)'
      /\ Len(link)' \in Nat /\ Len(ticket)' \in Nat
  BY <1>1, <1>2, Counts
<1>4. link' \in Seq(Links(Len(link)', Len(ticket)'))
  BY <1>1, <1>3, StateGrows
<1> QED BY <1>1, <1>2, <1>3, <1>4, AppActsType

LEMMA AssignType == ASSUME TypeInv, NEW t \in DOMAIN ticket, Assign(t) PROVE TypeInv'
<1>1. AppActs /\ UNCHANGED <<ticket, link, review>>
  BY DEF Assign
<1>2. /\ ticket' \in Seq(AnyKey) /\ Len(ticket) <= Len(ticket)'
      /\ link' \in Seq(Links(Len(link)', Len(ticket)')) /\ Len(link) <= Len(link)'
  BY <1>1, Counts DEF TypeInv
<1> QED BY <1>1, <1>2, AppActsType

LEMMA EditTicketKeyType ==
    ASSUME TypeInv, NEW t \in DOMAIN ticket, NEW key \in Keys, EditTicketKey(t, key)
    PROVE  TypeInv'
<1>1. /\ AppActs /\ ticket' = [ticket EXCEPT ![t] = key]
      /\ UNCHANGED <<link, review>> /\ key \in AnyKey
  BY DEF EditTicketKey, AnyKey
<1>2. ticket' \in Seq(AnyKey) /\ Len(ticket)' = Len(ticket)
  BY <1>1, TicketKeyType
<1>3. Len(link)' = Len(link) /\ Len(link) <= Len(link)' /\ Len(ticket) <= Len(ticket)'
  BY <1>1, <1>2, Counts
<1>4. link' \in Seq(Links(Len(link)', Len(ticket)'))
  BY <1>1, <1>2 DEF TypeInv
<1> QED BY <1>1, <1>2, <1>3, <1>4, AppActsType

(* The link of an adoption leaves room for itself and its ticket.           *)
LEMMA LinkReviewedType ==
    ASSUME TypeInv, NEW a \in review, NEW t \in 1..Len(ticket)', LinkReviewed(a, t),
           Len(ticket)' \in Nat, Len(ticket) <= Len(ticket)'
    PROVE  /\ link' \in Seq(Links(Len(link)', Len(ticket)'))
           /\ Len(link) <= Len(link)'
<1> DEFINE n == Len(link)
<1>1. PICK t2 \in Nat : t2 = Len(ticket)'
  OBVIOUS
<1>2. n \in Nat /\ n + 1 \in Nat /\ n <= n /\ n <= n + 1 /\ Len(ticket) <= t2 /\ Len(ticket) \in Nat
  BY <1>1, Counts
<1>3. a.uid \in Uids(n) /\ a.key \in AnyKey
  BY DEF TypeInv, Reviews, AnyKey
<1>4. link \in Seq(Links(n, Len(ticket)))
  BY DEF TypeInv
<1>5. Links(n, Len(ticket)) \subseteq Links(n, t2) /\ Links(n, Len(ticket)) \subseteq Links(n + 1, t2)
  BY <1>2, TypesGrow
<1>6. CASE ByUid(a.uid) = {}
  <2> DEFINE new == [uid |-> a.uid, ticket |-> t, base |-> a.key, stamped |-> 0]
  <2>1. link' = Append(link, new)
    BY <1>6 DEF LinkReviewed
  <2>2. Uids(n) \subseteq Uids(n + 1)
    BY <1>2, TypesGrow
  <2>3. new \in Links(n + 1, t2)
    BY <1>1, <1>2, <1>3, <2>2 DEF Links
  <2> HIDE DEF new
  <2>4. link \in Seq(Links(n + 1, t2))
    BY <1>4, <1>5, SeqMonotonic
  <2>5. link' \in Seq(Links(n + 1, t2)) /\ Len(link)' = n + 1
    BY <2>1, <2>3, <2>4, AppendProperties
  <2> QED BY <1>1, <1>2, <2>5
<1>7. CASE ByUid(a.uid) # {}
  <2>1. PICK l \in ByUid(a.uid) : link' = [link EXCEPT ![l].ticket = t, ![l].base = a.key]
    BY <1>7 DEF LinkReviewed
  <2>2. l \in DOMAIN link /\ l \in 1..Len(link)
    BY Counts DEF ByUid
  <2> DEFINE new == [link[l] EXCEPT !.ticket = t, !.base = a.key]
  <2>3. link[l] \in Links(n, t2)
    BY <1>5, <2>2, LinkTypes
  <2>4. new \in Links(n, t2)
    BY <1>1, <1>3, <2>3 DEF Links
  <2>5. link' = [link EXCEPT ![l] = new]
    BY <1>4, <2>1, <2>2
  <2> HIDE DEF new
  <2>6. link \in Seq(Links(n, t2))
    BY <1>4, <1>5, SeqMonotonic
  <2>7. link' \in Seq(Links(n, t2)) /\ Len(link)' = n
    BY <2>2, <2>4, <2>5, <2>6, ExceptSeq
  <2> QED BY <1>1, <1>2, <2>7
<1> QED BY <1>6, <1>7

LEMMA ResolveAdoptionType ==
    ASSUME TypeInv, NEW a \in review, ResolveAdoption(a)
    PROVE  TypeInv'
<1>1. AppActs /\ review' \subseteq review
  BY DEF ResolveAdoption
<1>2. a.key \in AnyKey /\ a.candidates \subseteq DOMAIN ticket
  BY Counts DEF TypeInv, Reviews, AnyKey
<1>3. CASE UNCHANGED <<ticket, link>>
  <2>1. /\ ticket' \in Seq(AnyKey) /\ Len(ticket) <= Len(ticket)'
        /\ link' \in Seq(Links(Len(link)', Len(ticket)')) /\ Len(link) <= Len(link)'
    BY <1>3, Counts DEF TypeInv
  <2> QED BY <1>1, <2>1, AppActsType
<1>4. CASE ticket' = Append(ticket, a.key) /\ LinkReviewed(a, Len(ticket) + 1)
  <2>1. ticket' \in Seq(AnyKey) /\ Len(ticket)' = Len(ticket) + 1
    BY <1>2, <1>4, NewTicketType
  <2>2. /\ Len(ticket) <= Len(ticket)' /\ Len(ticket)' \in Nat
        /\ Len(ticket) + 1 \in 1..Len(ticket)'
    BY <2>1, Counts
  <2>3. link' \in Seq(Links(Len(link)', Len(ticket)')) /\ Len(link) <= Len(link)'
    BY <1>4, <2>2, LinkReviewedType
  <2> QED BY <1>1, <2>1, <2>2, <2>3, AppActsType
<1>5. ASSUME NEW t \in a.candidates, LinkReviewed(a, t),
             ticket' = ticket \/ ticket' = [ticket EXCEPT ![t] = a.key]
      PROVE  TypeInv'
  <2>1. t \in DOMAIN ticket
    BY <1>2
  <2>2. ticket' \in Seq(AnyKey) /\ Len(ticket)' = Len(ticket)
    <3>1. ticket \in Seq(AnyKey)
      BY DEF TypeInv
    <3> QED BY <1>2, <1>5, <2>1, <3>1, TicketKeyType
  <2>3. Len(ticket) <= Len(ticket)' /\ Len(ticket)' \in Nat /\ t \in 1..Len(ticket)'
    BY <2>1, <2>2, Counts
  <2>4. link' \in Seq(Links(Len(link)', Len(ticket)')) /\ Len(link) <= Len(link)'
    BY <1>5, <2>3, LinkReviewedType
  <2> QED BY <1>1, <2>2, <2>3, <2>4, AppActsType
<1>6. CASE ticket' = Append(ticket, a.key) /\ UNCHANGED link
  <2>1. ticket' \in Seq(AnyKey) /\ Len(ticket)' = Len(ticket) + 1
    BY <1>2, <1>6, NewTicketType
  <2>2. /\ Len(ticket) <= Len(ticket)' /\ Len(ticket)' \in Nat
        /\ Len(link)' = Len(link) /\ Len(link) <= Len(link)' /\ Len(link)' \in Nat
    BY <1>6, <2>1, Counts
  <2>3. link' \in Seq(Links(Len(link)', Len(ticket)'))
    BY <1>6, <2>2, StateGrows
  <2> QED BY <1>1, <2>1, <2>2, <2>3, AppActsType
<1>7. ASSUME NEW t \in a.candidates, LinkReviewed(a, t),
             ticket' = [ticket EXCEPT ![t] = IF t \in assigned THEN a.key ELSE ticket[t]]
      PROVE  TypeInv'
  <2>1. ticket' = ticket \/ ticket' = [ticket EXCEPT ![t] = a.key]
    <3>1. [ticket EXCEPT ![t] = ticket[t]] = ticket
      BY <1>2 DEF TypeInv
    <3> QED BY <1>7, <3>1
  <2> QED BY <1>5, <1>7, <2>1
<1> QED BY <1>3, <1>4, <1>6, <1>7 DEF ResolveAdoption

(* Every step keeps the types.                                              *)
LEMMA StepType == ASSUME TypeInv, [Next]_vars PROVE TypeInv'
<1>1. CASE ScheduledPass
  <2>1. budget' \in 0..MaxUserActions
    BY <1>1 DEF ScheduledPass, TypeInv
  <2> QED BY <1>1, <2>1, LinksAssumption, LoadType DEF ScheduledPass
<1>2. ASSUME NEW p \in Passes, NEW op \in {"import", "push", "reconcile"}, RequestedPass(p, op)
      PROVE  TypeInv'
  BY <1>2, BudgetSpentType, LoadType DEF RequestedPass
<1>3. ASSUME NEW p \in Passes, PassStep(p) PROVE TypeInv'
  BY <1>3, PassStepType
<1>4. ASSUME NEW i \in DOMAIN sheet, NEW j \in DOMAIN sheet, MoveRow(i, j) PROVE TypeInv'
  BY <1>4, MoveRowType
<1>5. ASSUME NEW i \in 1..Len(sheet) + 1, NEW m \in Machines, NEW key \in Keys \cup {Blank},
             AddRow(i, m, key)
      PROVE  TypeInv'
  BY <1>5, AddRowType
<1>6. ASSUME NEW i \in DOMAIN sheet, NEW key \in Keys, EditKey(i, key) PROVE TypeInv'
  BY <1>6, EditKeyType
<1>7. ASSUME NEW key \in Keys, CreateTicket(key) PROVE TypeInv'
  BY <1>7, CreateTicketType
<1>8. ASSUME NEW t \in DOMAIN ticket, NEW key \in Keys, EditTicketKey(t, key) PROVE TypeInv'
  BY <1>8, EditTicketKeyType
<1>9. ASSUME NEW a \in review, ResolveAdoption(a) PROVE TypeInv'
  BY <1>9, ResolveAdoptionType
<1>10. CASE Restart
  BY <1>10, RestartType
<1>11. ASSUME NEW t \in DOMAIN ticket, Assign(t) PROVE TypeInv'
  BY <1>11, AssignType
<1>12. CASE UNCHANGED vars
  BY <1>12 DEF vars, TypeInv
<1> QED
  BY <1>1, <1>2, <1>3, <1>4, <1>5, <1>6, <1>7, <1>8, <1>9, <1>10, <1>11, <1>12 DEF Next

(* Tickets are assigned that exist.                                         *)
AssignedInv == assigned \subseteq DOMAIN ticket

LEMMA InitAssigned == Init => AssignedInv
<1> SUFFICES ASSUME Init PROVE AssignedInv
  OBVIOUS
<1>1. DOMAIN ticket = 1..Len(ticket) /\ Len(ticket) \in Nat
  BY InitType, Counts
<1>2. PICK n \in 0..Len(ticket) : assigned = 1..n
  BY DEF Init
<1> QED BY <1>1, <1>2 DEF AssignedInv

(* A step assigns only a ticket that it makes, or somebody assigns one that *)
(* is there; tickets stay.                                                  *)
LEMMA StepAssigns ==
    ASSUME TypeInv, TypeInv', AssignedInv, [Next]_vars
    PROVE  AssignedInv'
<1>1. DOMAIN ticket = 1..Len(ticket) /\ Len(ticket) \in Nat
  BY Counts
<1> DEFINE New(key) == ticket' = Append(ticket, key) /\ assigned' \subseteq assigned \cup {Len(ticket) + 1}
           Same == DOMAIN ticket' = DOMAIN ticket /\ assigned' \subseteq DOMAIN ticket
<1>2. ASSUME NEW key, New(key) PROVE AssignedInv'
  <2>1. DOMAIN Append(ticket, key) = 1..Len(ticket) + 1
    BY DEF TypeInv
  <2> QED BY <1>1, <1>2, <2>1 DEF AssignedInv
<1>3. Same => AssignedInv'
  BY DEF AssignedInv
<1>4. CASE UNCHANGED <<ticket, assigned>>
  BY <1>4 DEF AssignedInv
<1>5. ASSUME NEW p \in Passes, PassStep(p) PROVE AssignedInv'
  <2>1. CASE ApplyCreate(p)
    <3>1. New(RowOf(p).key)
      BY <2>1 DEF ApplyCreate
    <3> QED BY <1>2, <3>1
  <2>2. CASE ApplyToTicket(p)
    <3>1. Same
      BY <2>2 DEF ApplyToTicket, AssignedInv, TypeInv
    <3> QED BY <1>3, <3>1
  <2>3. CASE MergeTicket(p)
    <3>1. Same
      BY <2>3 DEF MergeTicket, AssignedInv, TypeInv
    <3> QED BY <1>3, <3>1
  <2>4. CASE ClassifyRow(p) \/ RecordAdoption(p) \/ FindTicket(p) \/ SkipRow(p)
    BY <1>4, <2>4 DEF ClassifyRow, RecordAdoption, FindTicket, SkipRow
  <2>5. CASE SaveLink(p) \/ EndPass(p) \/ WriteFails(p)
    BY <1>4, <2>5 DEF SaveLink, EndPass, WriteFails
  <2> QED BY <1>5, <2>1, <2>2, <2>3, <2>4, <2>5 DEF PassStep
<1>6. ASSUME NEW key \in Keys, CreateTicket(key) PROVE AssignedInv'
  <2>1. New(key)
    BY <1>6 DEF CreateTicket
  <2> QED BY <1>2, <2>1
<1>7. ASSUME NEW t \in DOMAIN ticket, NEW key \in Keys, EditTicketKey(t, key) PROVE AssignedInv'
  <2>1. Same
    BY <1>7 DEF EditTicketKey, AssignedInv, TypeInv
  <2> QED BY <1>3, <2>1
<1>8. ASSUME NEW t \in DOMAIN ticket, Assign(t) PROVE AssignedInv'
  <2>1. Same
    BY <1>8 DEF Assign, AssignedInv
  <2> QED BY <1>3, <2>1
<1>9. ASSUME NEW a \in review, ResolveAdoption(a) PROVE AssignedInv'
  <2>1. CASE UNCHANGED <<ticket, assigned>>
    BY <1>4, <2>1
  <2>2. CASE New(a.key)
    BY <1>2, <2>2
  <2>3. ASSUME NEW t \in a.candidates, UNCHANGED assigned,
               ticket' = [ticket EXCEPT ![t] = IF t \in assigned THEN a.key ELSE ticket[t]]
        PROVE  AssignedInv'
    <3>1. Same
      BY <2>3 DEF AssignedInv, TypeInv
    <3> QED BY <1>3, <3>1
  <2> QED BY <1>9, <2>1, <2>2, <2>3 DEF ResolveAdoption
<1>10. CASE ScheduledPass \/ Restart \/ UNCHANGED vars
  BY <1>4, <1>10 DEF ScheduledPass, Load, Restart, vars
<1>11. ASSUME NEW p \in Passes, NEW op \in {"import", "push", "reconcile"}, RequestedPass(p, op)
       PROVE  AssignedInv'
  BY <1>4, <1>11 DEF RequestedPass, Load
<1>12. ASSUME SheetActs PROVE AssignedInv'
  BY <1>4, <1>12 DEF SheetActs
<1> QED
  BY <1>5, <1>6, <1>7, <1>8, <1>9, <1>10, <1>11, <1>12 DEF Next, MoveRow, AddRow, EditKey

LEMMA TypesImplyTypeOK == TypeInv /\ AssignedInv => TypeOK
<1> SUFFICES ASSUME TypeInv, AssignedInv PROVE TypeOK
  OBVIOUS
<1>1. ASSUME NEW l \in DOMAIN link
      PROVE  /\ link[l].uid \in {KeyUid(k) : k \in Keys} \cup {StampUid(n) : n \in DOMAIN link}
             /\ link[l].ticket \in DOMAIN ticket
             /\ link[l].base \in Keys \cup {Blank}
             /\ link[l].stamped \in 0..Len(link)
  BY LinkTypes, Counts DEF Uids, AnyKey
<1>2. \A a \in review : a.candidates \subseteq DOMAIN ticket
  BY Counts DEF TypeInv, Reviews
<1>3. \A p \in Passes : /\ pass[p].rows \in Seq(Row)
                        /\ pass[p].id \in 0..Len(link)
                        /\ pass[p].tk \in 0..Len(ticket)
  BY PassTypes
<1>4. /\ sheet \in Seq(Row) /\ ticket \in Seq(Keys \cup {Blank})
      /\ direction \in Directions /\ budget \in 0..MaxUserActions
      /\ assigned \subseteq DOMAIN ticket
  BY DEF TypeInv, AnyKey, AssignedInv
<1> QED BY <1>1, <1>2, <1>3, <1>4 DEF TypeOK

LEMMA TypesHold == Spec => []TypeInv
<1>1. TypeInv /\ [Next]_vars => TypeInv'
  BY StepType
<1> QED BY <1>1, InitType, PTL DEF Spec

(* Whatever passes and people do, at the same time or not, and wherever     *)
(* rows move: links, reviews and passes name tickets that exist, and the    *)
(* stamp that a link remembers or is known by is that of a link.            *)
THEOREM TypesCorrect == Spec => []TypeOK
<1>1. TypeInv /\ TypeInv' /\ AssignedInv /\ [Next]_vars => AssignedInv'
  BY StepAssigns
<1> QED BY <1>1, InitAssigned, TypesHold, TypesImplyTypeOK, PTL DEF Spec
-----------------------------------------------------------------------------
(* From here on passes exclude each other, rows stay put under a push or a  *)
(* reconcile, and the key of a row changes only once it has a stamp.  With  *)
(* any one of these hazards RowLinks no longer implements RowRegistry; the  *)
(* fourth, a review that the database rejects, does no harm here.           *)
Orderly == Hazards \cap {"overlap", "move_during_write", "rekey_unstamped"} = {}

LinksOf(m) == {l \in DOMAIN link : LinkMachine(l) = m}

LEMMA KeyUidInjective == \A a, b : KeyUid(a) = KeyUid(b) => a = b
BY DEF KeyUid

(* A pass under way is the only one.                                        *)
LEMMA OthersIdle ==
    ASSUME MachineInv, NEW p \in Passes, ~Idle(p), NEW r \in Passes, r # p
    PROVE  Idle(r)
BY DEF MachineInv, Alone

(* The state of a pass is sound in the next state if it was, and nothing it *)
(* speaks of has changed.                                                   *)
LEMMA PassStaysInv ==
    ASSUME UNCHANGED <<sheet, ticket, link, review>>, NEW q, PassInv(q)
    PROVE  PassInv(q)'
<1> SUFFICES ASSUME q.pc # "idle" PROVE PassInv(q)'
  BY DEF PassInv
<1>1. \A j \in DOMAIN q.rows : CopyOf(q.rows[j])'
  BY DEF PassInv, CopyOf
<1>2. \A u \in q.puts : GoodPut(u, q.rows)'
  BY DEF PassInv, GoodPut, StampOf, LinkMachine, MachineOf
<1>3. (q.op = "import" => q.puts = {}) /\ (q.op # "import" => q.rows = sheet')
  BY DEF PassInv
<1>4. q.pc \in {"ticket", "link"} => AtRow(q, q.rows[q.i])'
  BY DEF PassInv, AtRow, Linked, Reviewed, LinkMachine, MachineOf
<1> QED BY <1>1, <1>2, <1>3, <1>4 DEF PassInv

LEMMA PassBecomes ==
    ASSUME NEW r \in Passes, NEW q, PassInv(q)', pass'[r] = q
    PROVE  PassInv(pass[r])'
<1> SUFFICES ASSUME pass'[r].pc # "idle" PROVE PassInv(pass[r])'
  BY DEF PassInv
<1>1. (\A j \in DOMAIN q.rows : CopyOf(q.rows[j]))'
  BY DEF PassInv
<1>2. (\A j \in DOMAIN pass[r].rows : CopyOf(pass[r].rows[j]))'
  BY <1>1 DEF CopyOf
<1>3. /\ pass'[r].op = "import" => pass'[r].puts = {}
      /\ pass'[r].op # "import" => pass'[r].rows = sheet'
  BY DEF PassInv
<1>4. (\A u \in pass[r].puts : GoodPut(u, pass[r].rows))'
  BY DEF PassInv, GoodPut, StampOf, LinkMachine, MachineOf
<1>5. (pass[r].pc \in {"ticket", "link"} => AtRow(pass[r], pass[r].rows[pass[r].i]))'
  BY DEF PassInv, AtRow, Linked, Reviewed, LinkMachine, MachineOf
<1> QED BY <1>2, <1>3, <1>4, <1>5 DEF PassInv

(* If its new state is sound, so are all the passes.                        *)
LEMMA OnePassInv ==
    ASSUME TypeInv, MachineInv, NEW p \in Passes, ~Idle(p), NEW q, PassInv(q)',
           pass' = [pass EXCEPT ![p] = q]
    PROVE  Alone' /\ (\A r \in Passes : PassInv(pass[r]))'
<1>1. \A r \in Passes : pass'[r] = IF r = p THEN q ELSE pass[r]
  BY DEF TypeInv
<1>2. \A r \in Passes : r # p => pass'[r].pc = "idle"
  BY <1>1, OthersIdle DEF Idle
<1>3. Alone'
  BY <1>2 DEF Alone, Idle
<1>4. ASSUME NEW r \in Passes PROVE PassInv(pass[r])'
  <2>1. CASE r = p
    <3>1. pass'[r] = q
      BY <1>1, <2>1
    <3> QED BY <3>1, PassBecomes
  <2>2. CASE r # p
    BY <1>2, <2>2 DEF PassInv
  <2> QED BY <2>1, <2>2
<1> QED BY <1>3, <1>4

(* A step that moves only a pass on needs only look at the pass.            *)
LEMMA PassOnlyInv ==
    ASSUME TypeInv, MachineInv, UNCHANGED <<sheet, ticket, link, review>>,
           NEW p \in Passes, ~Idle(p), NEW q, PassInv(q), pass' = [pass EXCEPT ![p] = q]
    PROVE  MachineInv'
<1>1. PassInv(q)'
  BY PassStaysInv
<1>2. Alone' /\ (\A r \in Passes : PassInv(pass[r]))'
  BY <1>1, OnePassInv
<1>3. (SheetInv /\ LinkInv /\ ReviewInv)'
  BY DEF MachineInv, SheetInv, LinkInv, ReviewInv, GoodRow, SameKey, StampOf, OnSheet, Unstamped,
         Linked, LinkMachine, MachineOf, Candidates
<1>4. (\A t \in DOMAIN ticket : ticket[t] # Blank)'
  BY DEF MachineInv
<1> QED BY <1>2, <1>3, <1>4 DEF MachineInv

(* A copy of a row has the stamp of the row's link.                         *)
LEMMA CopyStamp ==
    ASSUME MachineInv, NEW row, CopyOf(row), row.key # Blank, row.stamp # 0
    PROVE  StampOf(row.stamp, row.machine)
BY DEF MachineInv, SheetInv, GoodRow, CopyOf

(* Both searches find a row's own link, and no other.                       *)
LEMMA CopyLookup ==
    ASSUME TypeInv, MachineInv, NEW row \in Row, CopyOf(row), row.key # Blank
    PROVE  ResolveLink(row) = LinksOf(row.machine) /\ LinkForImport(row) = LinksOf(row.machine)
<1>1. CASE row.stamp # 0
  <2>1. StampOf(row.stamp, row.machine)
    BY <1>1, CopyStamp
  <2>2. \A l \in DOMAIN link : link[l].stamped \in {0, l}
    BY DEF MachineInv, LinkInv
  <2>3. ByStamp(row.stamp) = {row.stamp}
    BY <1>1, <2>1, <2>2 DEF ByStamp, StampOf
  <2>4. LinksOf(row.machine) = {row.stamp}
    BY <2>1 DEF LinksOf, StampOf, MachineInv, LinkInv
  <2> QED BY <2>3, <2>4 DEF ResolveLink, LinkForImport
<1>2. CASE row.stamp = 0
  <2>1. ByStamp(row.stamp) = {} /\ Uid(row) = KeyUid(row.key)
    BY <1>2 DEF ByStamp, Uid
  <2>2. PICK i \in DOMAIN sheet :
           sheet[i].machine = row.machine /\ sheet[i].stamp = 0 /\ sheet[i].key = row.key
    BY <1>2 DEF CopyOf
  <2>3. SameKey(row.key, row.machine)
    BY <2>2 DEF MachineInv, SheetInv, GoodRow
  <2>4. Owner[row.key] = row.machine
    BY DEF CopyOf
  <2>5. ASSUME NEW l \in DOMAIN link
        PROVE  link[l].uid = KeyUid(row.key) <=> LinkMachine(l) = row.machine
    <3>1. PICK k \in Keys : link[l].uid = KeyUid(k) /\ Owner[k] = LinkMachine(l)
      BY DEF MachineInv, LinkInv
    <3> QED BY <2>3, <2>4, <3>1, KeyUidInjective DEF SameKey
  <2>6. ByUid(KeyUid(row.key)) = LinksOf(row.machine)
    BY <2>5 DEF ByUid, LinksOf
  <2> QED BY <2>1, <2>6 DEF ResolveLink, LinkForImport
<1> QED BY <1>1, <1>2

(* A row of the sheet is a copy of itself; a row without a key has no link. *)
LEMMA SheetRowIsCopy ==
    ASSUME TypeInv, MachineInv, NEW i \in DOMAIN sheet
    PROVE  CopyOf(sheet[i])
BY DEF MachineInv, SheetInv, GoodRow, CopyOf

LEMMA BlankRowUnlinked ==
    ASSUME TypeInv, MachineInv, NEW i \in DOMAIN sheet, sheet[i].key = Blank
    PROVE  LinksOf(sheet[i].machine) = {} /\ ResolveLink(sheet[i]) = {}
<1>1. sheet[i].stamp = 0 /\ SameKey(Blank, sheet[i].machine)
  BY DEF MachineInv, SheetInv, GoodRow
<1>2. \A l \in DOMAIN link : link[l].uid # KeyUid(Blank)
  BY LinksAssumption, KeyUidInjective DEF MachineInv, LinkInv
<1>3. LinksOf(sheet[i].machine) = {}
  BY <1>1, <1>2 DEF LinksOf, SameKey
<1>4. ResolveLink(sheet[i]) = {}
  BY <1>1, <1>2 DEF ResolveLink, ByStamp, ByUid
<1> QED BY <1>3, <1>4

LEMMA SheetLookup ==
    ASSUME TypeInv, MachineInv, NEW i \in DOMAIN sheet
    PROVE  ResolveLink(sheet[i]) = LinksOf(sheet[i].machine)
<1>1. sheet[i] \in Row
  BY RowTypes DEF TypeInv
<1> QED BY <1>1, SheetRowIsCopy, BlankRowUnlinked, CopyLookup

LEMMA InitMachineInv == Init => MachineInv
<1> SUFFICES ASSUME Init PROVE MachineInv
  OBVIOUS
<1>1. PICK m \in SUBSET Machines :
         /\ sheet \in [1..Cardinality(m) -> [machine : m, key : Keys, stamp : {0}]]
         /\ \A i \in DOMAIN sheet : /\ Owner[sheet[i].key] = sheet[i].machine
                                    /\ \A j \in DOMAIN sheet : sheet[i].machine = sheet[j].machine => i = j
  BY DEF Init
<1>2. link = <<>> /\ DOMAIN link = {} /\ review = {}
  BY EmptySeq DEF Init
<1>3. \A p \in Passes : pass[p].pc = "idle"
  BY DEF Init, IdlePass
<1>4. \A t \in DOMAIN ticket : ticket[t] # Blank
  <2>1. ticket \in Seq(Keys)
    BY LinksAssumption DEF Init
  <2>2. \A t \in DOMAIN ticket : ticket[t] \in Keys
    BY <2>1, LenProperties, ElementOfSeq
  <2> QED BY <2>2, LinksAssumption
<1>5. SheetInv
  BY <1>1, <1>2 DEF SheetInv, GoodRow, SameKey
<1>6. LinkInv /\ ReviewInv
  BY <1>2 DEF LinkInv, ReviewInv
<1>7. Alone /\ \A p \in Passes : PassInv(pass[p])
  BY <1>3 DEF Alone, Idle, PassInv
<1> QED BY <1>4, <1>5, <1>6, <1>7 DEF MachineInv

(* A pass that comes to a row, with nothing known of it yet.                *)
LEMMA RowPassInv ==
    ASSUME NEW q, q.pc = "row", \A j \in DOMAIN q.rows : CopyOf(q.rows[j]),
           q.op = "import" => q.puts = {}, q.op # "import" => q.rows = sheet,
           \A u \in q.puts : GoodPut(u, q.rows)
    PROVE  PassInv(q)
BY DEF PassInv

LEMMA LoadInv ==
    ASSUME TypeInv, MachineInv, Orderly, NEW p \in Passes,
           NEW op \in {"import", "push", "reconcile"}, Load(p, op)
    PROVE  MachineInv'
<1>1. PICK q \in PassRecords(Len(link), Len(ticket)) :
         q = [IdlePass EXCEPT !.pc = "row", !.op = op, !.rows = sheet, !.i = 1]
  <2>1. IdlePass \in PassRecords(Len(link), Len(ticket))
    BY Counts, IdlePassType
  <2>2. sheet \in Seq(Row)
    BY DEF TypeInv
  <2>3. [IdlePass EXCEPT !.pc = "row", !.op = op, !.rows = sheet, !.i = 1]
            \in PassRecords(Len(link), Len(ticket))
    BY <2>1, <2>2 DEF PassRecords
  <2> QED BY <2>3
<1>2. q.pc = "row" /\ q.op = op /\ q.rows = sheet /\ q.puts = {}
  BY <1>1 DEF IdlePass
<1>3. PassInv(q)
  BY <1>2, SheetRowIsCopy, RowPassInv
<1>4. /\ pass' = [pass EXCEPT ![p] = q]
      /\ UNCHANGED <<sheet, ticket, link, review>>
      /\ \A r \in Passes : Idle(r)
  BY <1>1 DEF Load, Orderly
<1>5. PassInv(q)'
  BY <1>3, <1>4, PassStaysInv
<1>6. \A r \in Passes : pass'[r] = IF r = p THEN q ELSE pass[r]
  BY <1>4 DEF TypeInv
<1>7. \A r \in Passes : r # p => pass'[r].pc = "idle"
  BY <1>4, <1>6 DEF Idle
<1>8. (\A r \in Passes : PassInv(pass[r]))'
  <2> SUFFICES ASSUME NEW r \in Passes PROVE PassInv(pass[r])'
    OBVIOUS
  <2>1. CASE r # p
    BY <1>7, <2>1 DEF PassInv
  <2>2. CASE r = p
    <3>1. pass'[r].pc = "row" /\ pass'[r].op = op /\ pass'[r].rows = sheet /\ pass'[r].puts = {}
      BY <1>2, <1>6, <2>2
    <3>2. \A j \in DOMAIN sheet : CopyOf(sheet[j])
      BY SheetRowIsCopy
    <3> QED BY <1>4, <3>1, <3>2 DEF PassInv, CopyOf
  <2> QED BY <2>1, <2>2
<1>9. (SheetInv /\ LinkInv /\ ReviewInv)' /\ (\A t \in DOMAIN ticket : ticket[t] # Blank)'
  BY <1>4 DEF MachineInv, SheetInv, LinkInv, ReviewInv, GoodRow, SameKey, StampOf, OnSheet, Unstamped,
              Linked, LinkMachine, MachineOf, Candidates
<1> QED BY <1>7, <1>8, <1>9 DEF MachineInv, Alone, Idle

(* What is known of the row at hand, whatever the pass does.                *)
LEMMA AtHand ==
    ASSUME TypeInv, MachineInv, NEW p \in Passes, NEW pc \in {"row", "ticket", "link"}, At(p, pc)
    PROVE  /\ ~Idle(p) /\ pass[p].pc = pc /\ PassInv(pass[p])
           /\ pass[p].i \in DOMAIN pass[p].rows
           /\ RowOf(p) = pass[p].rows[pass[p].i] /\ RowOf(p) \in Row /\ CopyOf(RowOf(p))
           /\ pass[p].op # "import" =>
                  pass[p].i \in DOMAIN sheet /\ RowOf(p) = sheet[pass[p].i] /\ pass[p].rows = sheet
<1>1. /\ ~Idle(p) /\ pass[p].pc = pc /\ pass[p].i \in DOMAIN pass[p].rows
      /\ RowOf(p) \in Row
  BY RowAt
<1>2. PassInv(pass[p]) /\ pass[p].pc # "idle"
  BY <1>1 DEF MachineInv, Idle
<1> QED BY <1>1, <1>2 DEF PassInv, RowOf

(* The link of a row, and its ticket, as read.                              *)
LEMMA FoundInv ==
    ASSUME TypeInv, MachineInv, NEW p \in Passes, NEW pc \in {"ticket", "link"}, At(p, "row"),
           RowOf(p).key # Blank, NEW l \in LinksOf(RowOf(p).machine), Found(p, l, pc),
           UNCHANGED <<sheet, ticket, link, review>>
    PROVE  MachineInv'
<1>1. /\ ~Idle(p) /\ PassInv(pass[p]) /\ pass[p].pc # "idle" /\ CopyOf(RowOf(p))
      /\ pass[p].op # "import" => pass[p].i \in DOMAIN sheet /\ RowOf(p) = sheet[pass[p].i]
  BY AtHand
<1>2. /\ l \in DOMAIN link /\ LinkMachine(l) = RowOf(p).machine
      /\ link[l].ticket \in DOMAIN ticket /\ l # 0
  BY LinkTypes, Counts DEF LinksOf
<1>3. PICK q : q = [pass[p] EXCEPT !.pc = pc, !.id = l, !.copy = link[l],
                                   !.tk = link[l].ticket, !.key = ticket[link[l].ticket]]
  OBVIOUS
<1>4. /\ q.pc = pc /\ q.id = l /\ q.copy = link[l] /\ q.tk = link[l].ticket
      /\ q.key = ticket[link[l].ticket]
      /\ q.op = pass[p].op /\ q.rows = pass[p].rows /\ q.i = pass[p].i /\ q.puts = pass[p].puts
  BY <1>3, PassTypes DEF PassRecords
<1>5. pass' = [pass EXCEPT ![p] = q]
  BY <1>3 DEF Found
<1>6. q.key # Blank /\ Owner[q.key] = RowOf(p).machine
  BY <1>2, <1>4 DEF MachineInv, LinkMachine, MachineOf
<1>7. q.op # "import" /\ RowOf(p).stamp = 0 => q.key = RowOf(p).key
  BY <1>1, <1>2, <1>4 DEF MachineInv, SheetInv, GoodRow, SameKey
<1>8. AtRow(q, RowOf(p))
  BY <1>2, <1>4, <1>6, <1>7 DEF AtRow
<1>9. PassInv(q)
  BY <1>1, <1>4, <1>8 DEF PassInv, RowOf
<1> QED BY <1>1, <1>5, <1>9, PassOnlyInv

(* More than one element.                                                   *)
LEMMA TwoOrMore ==
    ASSUME NEW S, IsFiniteSet(S)
    PROVE  Cardinality(S) > 1 <=> \E t, u \in S : t # u
<1>1. ASSUME NEW t \in S, NEW u \in S, t # u PROVE Cardinality(S) > 1
  <2>1. IsFiniteSet({t}) /\ Cardinality({t}) = 1
    BY FS_Singleton
  <2>2. Cardinality({t} \cup {u}) = 2
    BY <1>1, <2>1, FS_AddElement
  <2>3. {t} \cup {u} \in SUBSET S
    OBVIOUS
  <2>4. Cardinality({t} \cup {u}) <= Cardinality(S) /\ Cardinality(S) \in Nat
    BY <2>3, FS_Subset, FS_CardinalityType
  <2> QED BY <2>2, <2>4
<1>2. ASSUME \A t, u \in S : t = u PROVE ~(Cardinality(S) > 1)
  <2>1. CASE S = {}
    <3>1. Cardinality(S) = 0
      BY <2>1, FS_EmptySet
    <3> QED BY <3>1
  <2>2. CASE S # {}
    <3>1. PICK t \in S : S = {t}
      BY <1>2, <2>2
    <3>2. Cardinality(S) = 1
      BY <3>1, FS_Singleton
    <3> QED BY <3>2
  <2> QED BY <2>1, <2>2
<1> QED BY <1>1, <1>2

LEMMA CandidatesFinite ==
    ASSUME TypeInv, NEW key
    PROVE  IsFiniteSet(Candidates(key))
<1>1. 1 \in Int /\ Len(ticket) \in Int /\ DOMAIN ticket = 1..Len(ticket)
  BY Counts
<1>2. IsFiniteSet(1..Len(ticket))
  BY <1>1, FS_Interval
<1> QED BY <1>1, <1>2, SearchesFind, FS_Subset

(* An open review of the machine of a row without a link is the row's own:  *)
(* its key is the row's, and there is more than one ticket with that key.   *)
LEMMA ReviewOfRow ==
    ASSUME TypeInv, MachineInv, NEW row \in Row, CopyOf(row), row.key # Blank,
           NEW a \in review, Owner[a.key] = row.machine
    PROVE  /\ a.key = row.key /\ row.stamp = 0
           /\ Cardinality(Candidates(row.key)) > 1
<1>1. PICK i \in DOMAIN sheet :
         sheet[i].machine = Owner[a.key] /\ sheet[i].stamp = 0 /\ sheet[i].key = a.key
  BY DEF MachineInv, ReviewInv, Unstamped
<1>2. PICK j \in DOMAIN sheet : /\ sheet[j].machine = row.machine /\ sheet[j].stamp = row.stamp
                                /\ row.stamp = 0 => sheet[j].key = row.key
  BY DEF CopyOf
<1>3. i = j
  BY <1>1, <1>2 DEF MachineInv, SheetInv
<1>4. a.key = row.key /\ row.stamp = 0
  BY <1>1, <1>2, <1>3
<1>5. \E t, u \in Candidates(row.key) : t # u
  BY <1>4 DEF MachineInv, ReviewInv
<1> QED BY <1>4, <1>5, CandidatesFinite, TwoOrMore

LEMMA ClassifyRowInv ==
    ASSUME TypeInv, MachineInv, NEW p \in Passes, ClassifyRow(p)
    PROVE  MachineInv'
<1> DEFINE row == RowOf(p)
<1>1. /\ At(p, "row") /\ pass[p].op = "import" /\ row.key # Blank
      /\ UNCHANGED <<sheet, ticket, link, review>>
  BY DEF ClassifyRow
<1>2. /\ ~Idle(p) /\ PassInv(pass[p]) /\ pass[p].pc # "idle" /\ CopyOf(row) /\ row \in Row
  BY <1>1, AtHand DEF Idle
<1>3. LinkForImport(row) = LinksOf(row.machine)
  BY <1>1, <1>2, CopyLookup
<1>4. ASSUME NEW l \in LinkForImport(row), Found(p, l, "ticket") PROVE MachineInv'
  BY <1>1, <1>3, <1>4, FoundInv
<1>5. ASSUME LinkForImport(row) = {}, Cardinality(Candidates(row.key)) <= 1,
             NEW t \in {0} \cup Candidates(row.key),
             pass' = [pass EXCEPT ![p] = [pass[p] EXCEPT !.pc = "ticket", !.id = 0, !.tk = t]]
      PROVE  MachineInv'
  <2>1. PICK q : q = [pass[p] EXCEPT !.pc = "ticket", !.id = 0, !.tk = t]
    OBVIOUS
  <2>2. /\ q.pc = "ticket" /\ q.id = 0 /\ q.tk = t
        /\ q.op = pass[p].op /\ q.rows = pass[p].rows /\ q.i = pass[p].i /\ q.puts = pass[p].puts
    BY <2>1, PassTypes DEF PassRecords
  <2>3. ~Linked(row.machine)
    BY <1>3, <1>5 DEF LinksOf, Linked
  <2>4. ~Reviewed(row.machine)
    <3>1. Cardinality(Candidates(row.key)) \in Nat
      BY CandidatesFinite, FS_CardinalityType
    <3> QED BY <1>1, <1>2, <1>5, <3>1, ReviewOfRow DEF Reviewed
  <2>5. t # 0 => MachineOf(t) = row.machine
    BY <1>1, <1>2, <1>5 DEF Candidates, MachineOf, CopyOf
  <2>6. AtRow(q, row)
    BY <1>1, <2>2, <2>3, <2>4, <2>5 DEF AtRow
  <2>7. PassInv(q)
    BY <1>2, <2>2, <2>6 DEF PassInv, RowOf
  <2> QED BY <1>1, <1>2, <1>5, <2>1, <2>7, PassOnlyInv
<1>6. CASE \E l \in LinkForImport(row) : Found(p, l, "ticket")
  BY <1>4, <1>6
<1>7. CASE /\ LinkForImport(row) = {} /\ Cardinality(Candidates(row.key)) <= 1
           /\ \E t \in IF Candidates(row.key) = {} THEN {0} ELSE Candidates(row.key) :
                 pass' = [pass EXCEPT ![p] = [pass[p] EXCEPT !.pc = "ticket", !.id = 0, !.tk = t]]
  BY <1>5, <1>7
<1> QED BY <1>6, <1>7 DEF ClassifyRow

LEMMA FindTicketInv ==
    ASSUME TypeInv, MachineInv, NEW p \in Passes, FindTicket(p)
    PROVE  MachineInv'
<1>1. /\ At(p, "row") /\ pass[p].op # "import" /\ UNCHANGED <<sheet, ticket, link, review>>
  BY DEF FindTicket
<1>2. PICK l \in ResolveLink(RowOf(p)) : Found(p, l, IF pass[p].op = "push" THEN "link" ELSE "ticket")
  BY DEF FindTicket
<1>3. pass[p].i \in DOMAIN sheet /\ RowOf(p) = sheet[pass[p].i]
  BY <1>1, AtHand
<1>4. RowOf(p).key # Blank /\ l \in LinksOf(RowOf(p).machine)
  BY <1>2, <1>3, BlankRowUnlinked, SheetLookup
<1>5. CASE Found(p, l, "link")
  BY <1>1, <1>4, <1>5, FoundInv
<1>6. CASE Found(p, l, "ticket")
  BY <1>1, <1>4, <1>6, FoundInv
<1> QED BY <1>2, <1>5, <1>6

(* The pass goes on to the next row, with what it has queued so far.        *)
LEMMA NextRowFields ==
    ASSUME TypeInv, NEW p \in Passes
    PROVE  LET q == NextRow(pass[p])
           IN  /\ q.pc = "row" /\ q.op = pass[p].op /\ q.rows = pass[p].rows
               /\ q.puts = pass[p].puts
BY DEF NextRow, IdlePass

LEMMA SkipRowInv ==
    ASSUME TypeInv, MachineInv, NEW p \in Passes, SkipRow(p)
    PROVE  MachineInv'
<1>1. /\ At(p, "row") /\ pass' = [pass EXCEPT ![p] = NextRow(pass[p])]
      /\ UNCHANGED <<sheet, ticket, link, review>>
  BY DEF SkipRow
<1>2. ~Idle(p) /\ PassInv(pass[p]) /\ pass[p].pc # "idle"
  BY <1>1, AtHand DEF Idle
<1>3. PICK q : q = NextRow(pass[p])
  OBVIOUS
<1>4. PassInv(q)
  BY <1>2, <1>3, NextRowFields DEF PassInv
<1> QED BY <1>1, <1>2, <1>3, <1>4, PassOnlyInv

(* A pass that stops leaves the rest as it is.                              *)
LEMMA StopInv ==
    ASSUME TypeInv, MachineInv, UNCHANGED <<sheet, ticket, link, review>>,
           \A p \in Passes : pass'[p] = IdlePass \/ pass'[p] = pass[p]
    PROVE  MachineInv'
<1>1. (SheetInv /\ LinkInv /\ ReviewInv)' /\ (\A t \in DOMAIN ticket : ticket[t] # Blank)'
  BY DEF MachineInv, SheetInv, LinkInv, ReviewInv, GoodRow, SameKey, StampOf, OnSheet, Unstamped,
         Linked, LinkMachine, MachineOf, Candidates
<1>2. \A p \in Passes : pass'[p].pc # "idle" => pass'[p] = pass[p]
  BY DEF IdlePass
<1>3. Alone'
  BY <1>2 DEF MachineInv, Alone, Idle
<1>4. ASSUME NEW p \in Passes PROVE PassInv(pass[p])'
  <2>1. CASE pass'[p].pc = "idle"
    BY <2>1 DEF PassInv
  <2>2. CASE pass'[p].pc # "idle"
    <3>1. pass'[p] = pass[p] /\ PassInv(pass[p]) /\ pass[p].pc # "idle"
      BY <1>2, <2>2 DEF MachineInv
    <3>2. PICK q : q = pass[p]
      OBVIOUS
    <3>3. PassInv(q)'
      BY <3>1, <3>2, PassStaysInv
    <3>4. pass'[p] = q
      BY <3>1, <3>2
    <3> QED BY <3>3, <3>4, PassBecomes
  <2> QED BY <2>1, <2>2
<1> QED BY <1>1, <1>3, <1>4 DEF MachineInv

LEMMA WriteFailsInv ==
    ASSUME TypeInv, MachineInv, NEW p \in Passes, WriteFails(p)
    PROVE  MachineInv'
<1>1. /\ UNCHANGED <<sheet, ticket, link, review>>
      /\ \A r \in Passes : pass'[r] = IdlePass \/ pass'[r] = pass[r]
  BY DEF WriteFails, TypeInv
<1> QED BY <1>1, StopInv

LEMMA RestartInv == ASSUME TypeInv, MachineInv, Restart PROVE MachineInv'
BY StopInv DEF Restart

(* An adoption is put up for review, or its open review is refreshed.       *)
LEMMA RecordAdoptionInv ==
    ASSUME TypeInv, MachineInv, NEW p \in Passes, RecordAdoption(p)
    PROVE  MachineInv'
<1> DEFINE row == RowOf(p)
           new == [uid |-> Uid(row), key |-> row.key, candidates |-> Candidates(row.key)]
<1>1. /\ At(p, "row") /\ row.key # Blank /\ LinkForImport(row) = {}
      /\ Cardinality(Candidates(row.key)) > 1
      /\ pass' = [pass EXCEPT ![p] = NextRow(pass[p])]
      /\ UNCHANGED <<sheet, ticket, link>>
  BY DEF RecordAdoption
<1>2. /\ ~Idle(p) /\ PassInv(pass[p]) /\ pass[p].pc # "idle" /\ CopyOf(row) /\ row \in Row
  BY <1>1, AtHand DEF Idle
<1>3. ~Linked(row.machine)
  BY <1>1, <1>2, CopyLookup DEF LinksOf, Linked
<1>4. row.stamp = 0 /\ Owner[row.key] = row.machine /\ Unstamped(row.key)
  <2>1. row.stamp = 0
    BY <1>1, <1>2, <1>3, CopyStamp DEF StampOf, Linked
  <2> QED BY <1>1, <1>2, <2>1 DEF CopyOf, Unstamped
<1>5. new.uid = KeyUid(row.key) /\ new.key = row.key /\ new.candidates = Candidates(row.key)
  BY <1>4 DEF Uid
<1>6. \E t, u \in Candidates(row.key) : t # u
  BY <1>1, CandidatesFinite, TwoOrMore
<1>7. \A b \in review : Owner[b.key] = row.machine => b.key = row.key /\ b.uid = new.uid
  BY <1>1, <1>2, <1>5, ReviewOfRow DEF MachineInv, ReviewInv
<1>8. /\ review' \subseteq review \cup {new}
      /\ new \in review' => \A b \in review' : b = new \/ Owner[b.key] # row.machine
  <2>1. \/ \E a \in review : a.uid = new.uid /\ review' = (review \ {a}) \cup {new}
        \/ (\A a \in review : a.uid # new.uid) /\ review' = review \cup {new}
        \/ (\A a \in review : a.uid # new.uid) /\ review' = review
    <3>1. PutUpForReview(p)
      BY DEF RecordAdoption
    <3> QED BY <3>1 DEF PutUpForReview
  <2> HIDE DEF new
  <2>2. ASSUME NEW a \in review, a.uid = new.uid, review' = (review \ {a}) \cup {new}
        PROVE  \A b \in review' : b = new \/ Owner[b.key] # row.machine
    <3>1. a.key = row.key
      BY <1>5, <2>2, KeyUidInjective DEF MachineInv, ReviewInv
    <3> QED BY <1>4, <2>2, <3>1 DEF MachineInv, ReviewInv
  <2>3. ASSUME \A a \in review : a.uid # new.uid
        PROVE  \A b \in review : Owner[b.key] # row.machine
    BY <1>7, <2>3
  <2> QED BY <2>1, <2>2, <2>3
<1> HIDE DEF new
<1>9. ReviewInv'
  <2> SUFFICES ASSUME NEW a \in review'
               PROVE  /\ a.uid = KeyUid(a.key)
                      /\ \A t \in a.candidates : ticket[t] = a.key
                      /\ ~Linked(Owner[a.key])
                      /\ Unstamped(a.key)
                      /\ \E t, u \in Candidates(a.key) : t # u
                      /\ \A b \in review' : Owner[a.key] = Owner[b.key] => a = b
    BY <1>1 DEF ReviewInv, Unstamped, Linked, LinkMachine, MachineOf, Candidates
  <2>1. CASE a = new
    <3>1. \A t \in a.candidates : ticket[t] = a.key
      BY <1>5, <2>1 DEF Candidates
    <3>2. \A b \in review' : Owner[a.key] = Owner[b.key] => a = b
      BY <1>4, <1>5, <1>8, <2>1
    <3> QED BY <1>3, <1>4, <1>5, <1>6, <2>1, <3>1, <3>2
  <2>2. CASE a # new
    <3>1. a \in review
      BY <1>8, <2>2
    <3>2. \A b \in review' : Owner[a.key] = Owner[b.key] => a = b
      <4>1. \A b \in review : Owner[a.key] = Owner[b.key] => a = b
        BY <3>1 DEF MachineInv, ReviewInv
      <4>2. new \in review' => Owner[a.key] # Owner[new.key]
        BY <1>4, <1>5, <1>8, <2>2
      <4> QED BY <1>8, <4>1, <4>2
    <3> QED BY <3>1, <3>2 DEF MachineInv, ReviewInv
  <2> QED BY <2>1, <2>2
<1>10. PICK q : q = NextRow(pass[p])
  OBVIOUS
<1>11. q.pc = "row" /\ PassInv(q)
  BY <1>2, <1>10, NextRowFields DEF PassInv
<1>12. PassInv(q)'
  BY <1>1, <1>11 DEF PassInv, CopyOf, GoodPut, StampOf, LinkMachine, MachineOf
<1>13. Alone' /\ (\A r \in Passes : PassInv(pass[r]))'
  BY <1>1, <1>2, <1>10, <1>12, OnePassInv
<1>14. (SheetInv /\ LinkInv)' /\ (\A t \in DOMAIN ticket : ticket[t] # Blank)'
  BY <1>1 DEF MachineInv, SheetInv, LinkInv, GoodRow, SameKey, StampOf, OnSheet, LinkMachine, MachineOf
<1> QED BY <1>9, <1>13, <1>14 DEF MachineInv
-----------------------------------------------------------------------------
(* New tickets, and new keys of the same machine, leave everything in place *)
(* if the tickets of unstamped rows and of reviewed ones keep their keys.   *)
TicketsMayChange ==
    /\ UNCHANGED sheet /\ review' \subseteq review
    /\ \A t \in DOMAIN ticket : t \in DOMAIN ticket' /\ Owner[ticket'[t]] = Owner[ticket[t]]
    /\ \A t \in DOMAIN ticket' : ticket'[t] # Blank
    /\ \A i \in DOMAIN sheet, l \in DOMAIN link :
          sheet[i].stamp = 0 /\ LinkMachine(l) = sheet[i].machine =>
              ticket'[link[l].ticket] = ticket[link[l].ticket]
    /\ \A a \in review', t \in DOMAIN ticket : MachineOf(t) = Owner[a.key] => ticket'[t] = ticket[t]

(* A link keeps its ticket and its machine, and links come one at a time.    *)
LinksGrow ==
    /\ \A l \in DOMAIN link : /\ l \in DOMAIN link' /\ link'[l].ticket = link[l].ticket
                              /\ LinkMachine(l)' = LinkMachine(l)
    /\ \/ DOMAIN link' = DOMAIN link
       \/ \E n : DOMAIN link' = DOMAIN link \cup {n} /\ n \notin DOMAIN link

LEMMA MachinesKept ==
    ASSUME TypeInv, TicketsMayChange, UNCHANGED link
    PROVE  /\ \A t \in DOMAIN ticket : MachineOf(t)' = MachineOf(t)
           /\ \A l \in DOMAIN link : LinkMachine(l)' = LinkMachine(l)
           /\ \A m : Linked(m)' <=> Linked(m)
           /\ \A s, m : StampOf(s, m)' <=> StampOf(s, m)
           /\ LinksGrow
<1>1. \A t \in DOMAIN ticket : MachineOf(t)' = MachineOf(t)
  BY DEF TicketsMayChange, MachineOf
<1>2. \A l \in DOMAIN link : LinkMachine(l)' = LinkMachine(l)
  BY LinkTypes DEF TicketsMayChange, LinkMachine, MachineOf
<1>3. \A m : Linked(m)' <=> Linked(m)
  BY <1>2 DEF Linked, TicketsMayChange
<1>4. \A s, m : StampOf(s, m)' <=> StampOf(s, m)
  BY <1>2 DEF StampOf, TicketsMayChange
<1>5. LinksGrow
  BY <1>2 DEF LinksGrow
<1> QED BY <1>1, <1>2, <1>3, <1>4, <1>5

LEMMA TicketsChangeInv ==
    ASSUME TypeInv, MachineInv, TicketsMayChange, UNCHANGED link
    PROVE  (SheetInv /\ LinkInv /\ ReviewInv)' /\ (\A t \in DOMAIN ticket : ticket[t] # Blank)'
<1>1. UNCHANGED <<sheet, link>> /\ review' \subseteq review
  BY DEF TicketsMayChange
<1>2. SheetInv'
  <2>1. ASSUME NEW i \in DOMAIN sheet PROVE GoodRow(sheet[i])'
    <3>1. GoodRow(sheet[i])
      BY DEF MachineInv, SheetInv
    <3>2. sheet[i].stamp # 0 => StampOf(sheet[i].stamp, sheet[i].machine)'
      BY <1>1, <3>1, MachinesKept DEF GoodRow, StampOf
    <3>3. sheet[i].stamp = 0 => SameKey(sheet[i].key, sheet[i].machine)'
      <4> SUFFICES ASSUME sheet[i].stamp = 0, NEW l \in DOMAIN link,
                          LinkMachine(l) = sheet[i].machine
                   PROVE  /\ link[l].uid = KeyUid(sheet[i].key) /\ link[l].base = sheet[i].key
                          /\ ticket'[link[l].ticket] = sheet[i].key
        BY <1>1, MachinesKept DEF SameKey
      <4> QED BY <3>1 DEF GoodRow, SameKey, TicketsMayChange
    <3> QED BY <1>1, <3>1, <3>2, <3>3 DEF GoodRow
  <2> QED BY <1>1, <2>1 DEF MachineInv, SheetInv
<1>3. LinkInv'
  BY <1>1, MachinesKept DEF MachineInv, LinkInv, OnSheet
<1>4. ReviewInv'
  <2> SUFFICES ASSUME NEW a \in review'
               PROVE  /\ a.uid = KeyUid(a.key)
                      /\ \A t \in a.candidates : ticket'[t] = a.key
                      /\ ~Linked(Owner[a.key])'
                      /\ Unstamped(a.key)'
                      /\ (\E t, u \in Candidates(a.key) : t # u)'
                      /\ \A b \in review' : Owner[a.key] = Owner[b.key] => a = b
    BY DEF ReviewInv
  <2>1. a \in review
    BY <1>1
  <2>2. /\ a.uid = KeyUid(a.key)
        /\ \A t \in a.candidates : ticket[t] = a.key
        /\ ~Linked(Owner[a.key])
        /\ Unstamped(a.key)
        /\ \E t, u \in Candidates(a.key) : t # u
        /\ \A b \in review : Owner[a.key] = Owner[b.key] => a = b
    BY <2>1 DEF MachineInv, ReviewInv
  <2>3. a.candidates \subseteq DOMAIN ticket
    BY <2>1, Counts DEF TypeInv, Reviews
  <2>4. \A t \in a.candidates : ticket'[t] = a.key
    BY <2>2, <2>3 DEF TicketsMayChange, MachineOf
  <2>5. ~Linked(Owner[a.key])'
    BY <2>2, MachinesKept
  <2>6. (\E t, u \in Candidates(a.key) : t # u)'
    <3>1. PICK t \in Candidates(a.key), u \in Candidates(a.key) : t # u
      BY <2>2
    <3>2. /\ t \in DOMAIN ticket /\ ticket[t] = a.key
          /\ u \in DOMAIN ticket /\ ticket[u] = a.key
      BY DEF Candidates
    <3>3. /\ t \in DOMAIN ticket' /\ ticket'[t] = a.key
          /\ u \in DOMAIN ticket' /\ ticket'[u] = a.key
      BY <3>2 DEF TicketsMayChange, MachineOf
    <3> QED BY <3>1, <3>3 DEF Candidates
  <2>7. Unstamped(a.key)'
    BY <1>1, <2>2 DEF Unstamped
  <2> QED BY <1>1, <2>2, <2>4, <2>5, <2>6, <2>7
<1>5. (\A t \in DOMAIN ticket : ticket[t] # Blank)'
  BY DEF TicketsMayChange
<1> QED BY <1>2, <1>3, <1>4, <1>5

(* A pass at a row's link, once the ticket is written.                      *)
LEMMA TicketPassInv ==
    ASSUME TypeInv, MachineInv, TicketsMayChange, UNCHANGED <<link, review>>,
           NEW p \in Passes, At(p, "ticket"),
           NEW tk, pass' = [pass EXCEPT ![p] = [pass[p] EXCEPT !.pc = "link", !.tk = tk]],
           pass[p].id # 0 => tk = pass[p].tk,
           pass[p].id = 0 => /\ tk \in DOMAIN ticket' /\ ticket'[tk] = RowOf(p).key
    PROVE  MachineInv' /\ LinksGrow
<1> DEFINE row == RowOf(p)
<1>1. /\ ~Idle(p) /\ pass[p].pc = "ticket" /\ PassInv(pass[p]) /\ CopyOf(row)
      /\ row = pass[p].rows[pass[p].i]
  BY AtHand
<1>2. AtRow(pass[p], row)
  BY <1>1 DEF PassInv
<1>3. PICK q : q = [pass[p] EXCEPT !.pc = "link", !.tk = tk]
  OBVIOUS
<1>4. /\ q.pc = "link" /\ q.tk = tk /\ q.id = pass[p].id /\ q.copy = pass[p].copy
      /\ q.key = pass[p].key
      /\ q.op = pass[p].op /\ q.rows = pass[p].rows /\ q.i = pass[p].i /\ q.puts = pass[p].puts
  BY <1>3, PassTypes DEF PassRecords
<1>5. UNCHANGED <<sheet, link, review>>
  BY DEF TicketsMayChange
<1>6. PICK r : r = row
  OBVIOUS
<1>7. AtRow(q, r)'
  <2>1. r.key # Blank /\ Owner[r.key] = r.machine
    BY <1>1, <1>2, <1>6 DEF AtRow, CopyOf
  <2>2. ASSUME q.id = 0
        PROVE  /\ ~Linked(r.machine)' /\ ~Reviewed(r.machine)'
               /\ MachineOf(q.tk)' = r.machine /\ ticket'[q.tk] = r.key
    <3>1. ~Linked(r.machine) /\ ~Reviewed(r.machine)
      BY <1>2, <1>4, <1>6, <2>2 DEF AtRow
    <3>2. ticket'[q.tk] = r.key
      BY <1>4, <1>6, <2>2
    <3> QED BY <1>5, <2>1, <3>1, <3>2, MachinesKept DEF Reviewed, MachineOf
  <2>3. ASSUME q.id # 0
        PROVE  /\ q.copy = link'[q.id] /\ q.tk = link'[q.id].ticket
               /\ LinkMachine(q.id)' = r.machine
    <3>1. /\ q.copy = link[q.id] /\ q.tk = link[q.id].ticket /\ LinkMachine(q.id) = r.machine
      BY <1>2, <1>4, <1>6, <2>3 DEF AtRow
    <3>2. q.id \in DOMAIN link
      BY <1>4, <2>3, PassTypes, Counts
    <3> QED BY <1>5, <3>1, <3>2, MachinesKept
  <2>4. q.op # "import" => /\ q.key # Blank /\ Owner[q.key] = r.machine
                           /\ r.stamp = 0 => q.key = r.key
    BY <1>2, <1>4, <1>6 DEF AtRow
  <2> QED BY <2>1, <2>2, <2>3, <2>4 DEF AtRow
<1>8. PassInv(q)'
  <2>1. \A j \in DOMAIN q.rows : CopyOf(q.rows[j])'
    <3>1. \A j \in DOMAIN q.rows : CopyOf(q.rows[j])
      BY <1>1, <1>4 DEF PassInv
    <3> QED BY <1>5, <3>1 DEF CopyOf
  <2>2. \A u \in q.puts : GoodPut(u, q.rows)'
    BY <1>1, <1>4, MachinesKept DEF PassInv, GoodPut
  <2>3. /\ q.op = "import" => q.puts = {}
        /\ q.op # "import" => q.rows = sheet'
    BY <1>1, <1>4, <1>5 DEF PassInv
  <2>4. r = q.rows[q.i]
    BY <1>1, <1>4, <1>6
  <2> QED BY <1>7, <2>1, <2>2, <2>3, <2>4 DEF PassInv
<1>9. Alone' /\ (\A s \in Passes : PassInv(pass[s]))'
  BY <1>1, <1>3, <1>8, OnePassInv
<1> QED BY <1>9, MachinesKept, TicketsChangeInv DEF MachineInv

(* A new ticket.                                                            *)
LEMMA AppendMayChange ==
    ASSUME TypeInv, MachineInv, NEW key \in Keys, ticket' = Append(ticket, key),
           UNCHANGED sheet, review' \subseteq review
    PROVE  /\ TicketsMayChange
           /\ Len(ticket) + 1 \in DOMAIN ticket' /\ ticket'[Len(ticket) + 1] = key
<1>1. key \in AnyKey /\ key # Blank
  BY LinksAssumption DEF AnyKey
<1>2. /\ ticket' \in Seq(AnyKey) /\ Len(ticket)' = Len(ticket) + 1
      /\ \A t \in DOMAIN ticket : ticket'[t] = ticket[t]
      /\ ticket'[Len(ticket) + 1] = key
  BY <1>1, NewTicketType
<1>3. DOMAIN ticket' = 1..Len(ticket) + 1 /\ DOMAIN ticket = 1..Len(ticket) /\ Len(ticket) \in Nat
  BY <1>2, LenProperties, Counts
<1>4. \A t \in DOMAIN ticket' : ticket'[t] # Blank
  <2> SUFFICES ASSUME NEW t \in DOMAIN ticket' PROVE ticket'[t] # Blank
    OBVIOUS
  <2>1. t \in DOMAIN ticket \/ t = Len(ticket) + 1
    BY <1>3
  <2> QED BY <1>1, <1>2, <2>1 DEF MachineInv
<1>5. \A l \in DOMAIN link : link[l].ticket \in DOMAIN ticket
  BY LinkTypes
<1>6. \A t \in DOMAIN ticket : t \in DOMAIN ticket'
  BY <1>3
<1>7. TicketsMayChange
  BY <1>2, <1>4, <1>5, <1>6 DEF TicketsMayChange
<1>8. Len(ticket) + 1 \in DOMAIN ticket'
  BY <1>3
<1> QED BY <1>2, <1>7, <1>8

(* A key of the same machine in a ticket.                                   *)
LEMMA KeyMayChange ==
    ASSUME TypeInv, MachineInv, NEW key \in Keys, NEW t \in DOMAIN ticket,
           ticket' = [ticket EXCEPT ![t] = key],
           Owner[key] = MachineOf(t), UNCHANGED sheet, review' \subseteq review,
           \A i \in DOMAIN sheet, l \in DOMAIN link :
               sheet[i].stamp = 0 /\ LinkMachine(l) = sheet[i].machine /\ link[l].ticket = t =>
                   ticket[t] = key,
           \A a \in review' : Owner[a.key] = MachineOf(t) => ticket[t] = key
    PROVE  /\ TicketsMayChange
           /\ DOMAIN ticket' = DOMAIN ticket /\ ticket'[t] = key
<1>1. key \in AnyKey /\ key # Blank
  BY LinksAssumption DEF AnyKey
<1>2. /\ DOMAIN ticket' = DOMAIN ticket
      /\ \A u \in DOMAIN ticket : ticket'[u] = IF u = t THEN key ELSE ticket[u]
  BY <1>1, TicketKeyType
<1>3. \A u \in DOMAIN ticket : Owner[ticket'[u]] = Owner[ticket[u]]
  BY <1>2 DEF MachineOf
<1>4. \A u \in DOMAIN ticket : ticket'[u] # Blank
  BY <1>1, <1>2 DEF MachineInv
<1>5. \A l \in DOMAIN link : link[l].ticket \in DOMAIN ticket
  BY LinkTypes
<1>6. \A i \in DOMAIN sheet, l \in DOMAIN link :
          sheet[i].stamp = 0 /\ LinkMachine(l) = sheet[i].machine =>
              ticket'[link[l].ticket] = ticket[link[l].ticket]
  BY <1>2, <1>5
<1>7. \A a \in review', u \in DOMAIN ticket : MachineOf(u) = Owner[a.key] => ticket'[u] = ticket[u]
  BY <1>2
<1>8. TicketsMayChange
  BY <1>2, <1>3, <1>4, <1>6, <1>7 DEF TicketsMayChange
<1> QED BY <1>2, <1>8

(* A ticket that a pass writes is of the row's machine, and already says    *)
(* what a row without a stamp says.                                         *)
LEMMA RowMayChangeTicket ==
    ASSUME TypeInv, MachineInv, NEW p \in Passes, At(p, "ticket"), pass[p].tk # 0,
           ticket' = [ticket EXCEPT ![pass[p].tk] = RowOf(p).key],
           UNCHANGED <<sheet, link, review>>
    PROVE  /\ TicketsMayChange /\ pass[p].tk \in DOMAIN ticket'
           /\ ticket'[pass[p].tk] = RowOf(p).key
<1> DEFINE row == RowOf(p)
           tk == pass[p].tk
<1>1. /\ pass[p].pc = "ticket" /\ PassInv(pass[p]) /\ CopyOf(row)
      /\ row = pass[p].rows[pass[p].i] /\ row \in Row
  BY AtHand
<1>2. AtRow(pass[p], row)
  BY <1>1 DEF PassInv
<1>3. tk \in DOMAIN ticket /\ pass[p].id \in 0..Len(link)
  BY Counts, PassTypes
<1>4. row.key \in Keys /\ Owner[row.key] = row.machine
  BY <1>1, <1>2 DEF AtRow, CopyOf, Row
<1>5. MachineOf(tk) = row.machine
  BY <1>2 DEF AtRow, LinkMachine
<1>6. ASSUME NEW i \in DOMAIN sheet, NEW l \in DOMAIN link, sheet[i].stamp = 0,
             LinkMachine(l) = sheet[i].machine, link[l].ticket = tk
      PROVE  ticket[tk] = row.key
  <2>1. sheet[i].machine = row.machine
    BY <1>5, <1>6 DEF LinkMachine
  <2>2. PICK j \in DOMAIN sheet : /\ sheet[j].machine = row.machine /\ sheet[j].stamp = row.stamp
                                  /\ row.stamp = 0 => sheet[j].key = row.key
    BY <1>1, <1>2 DEF CopyOf, AtRow
  <2>3. i = j
    BY <2>1, <2>2 DEF MachineInv, SheetInv
  <2>4. sheet[i].key = row.key
    BY <1>6, <2>2, <2>3
  <2>5. SameKey(sheet[i].key, sheet[i].machine)
    BY <1>6 DEF MachineInv, SheetInv, GoodRow
  <2> QED BY <1>6, <2>4, <2>5 DEF SameKey
<1>7. ASSUME NEW a \in review PROVE Owner[a.key] # MachineOf(tk)
  <2>1. CASE pass[p].id = 0
    BY <1>2, <1>5, <2>1 DEF AtRow, Reviewed
  <2>2. CASE pass[p].id # 0
    <3>1. pass[p].id \in DOMAIN link /\ LinkMachine(pass[p].id) = row.machine
      BY <1>2, <1>3, <2>2, Counts DEF AtRow
    <3> QED BY <1>5, <3>1 DEF MachineInv, ReviewInv, Linked
  <2> QED BY <2>1, <2>2
<1>8. review' \subseteq review /\ \A a \in review' : Owner[a.key] = MachineOf(tk) => ticket[tk] = row.key
  BY <1>7
<1>9. \A i \in DOMAIN sheet, l \in DOMAIN link :
         sheet[i].stamp = 0 /\ LinkMachine(l) = sheet[i].machine /\ link[l].ticket = tk =>
             ticket[tk] = row.key
  BY <1>6
<1>10. PICK key \in Keys, t \in DOMAIN ticket : key = row.key /\ t = tk
  BY <1>3, <1>4
<1> HIDE DEF row, tk
<1>11. /\ ticket' = [ticket EXCEPT ![t] = key] /\ UNCHANGED <<sheet, link>>
       /\ Owner[key] = MachineOf(t)
  BY <1>4, <1>5, <1>10 DEF row, tk
<1>12. /\ \A i \in DOMAIN sheet, l \in DOMAIN link :
             sheet[i].stamp = 0 /\ LinkMachine(l) = sheet[i].machine /\ link[l].ticket = t =>
                 ticket[t] = key
       /\ \A a \in review' : Owner[a.key] = MachineOf(t) => ticket[t] = key
       /\ review' \subseteq review
  BY <1>8, <1>9, <1>10
<1>13. TicketsMayChange /\ DOMAIN ticket' = DOMAIN ticket /\ ticket'[t] = key
  BY ONLY TypeInv, MachineInv, <1>11, <1>12, KeyMayChange
<1> QED BY <1>3, <1>10, <1>13 DEF row, tk

(* A pass that leaves its row with a ticket and without a link.             *)
LEMMA UnlinkedTicketInv ==
    ASSUME TypeInv, MachineInv, TicketsMayChange, UNCHANGED <<link, review>>,
           NEW p \in Passes, At(p, "ticket"), pass' = [pass EXCEPT ![p] = NextRow(pass[p])]
    PROVE  MachineInv' /\ LinksGrow
<1>1. ~Idle(p) /\ pass[p].pc = "ticket" /\ PassInv(pass[p])
  BY AtHand
<1>2. PICK q : q = NextRow(pass[p])
  OBVIOUS
<1>3. q.pc = "row" /\ q.op = pass[p].op /\ q.rows = pass[p].rows /\ q.puts = pass[p].puts
  BY <1>2, NextRowFields
<1>4. UNCHANGED <<sheet, link, review>>
  BY DEF TicketsMayChange
<1>5. PassInv(q)'
  <2>1. \A j \in DOMAIN q.rows : CopyOf(q.rows[j])'
    <3>1. \A j \in DOMAIN q.rows : CopyOf(q.rows[j])
      BY <1>1, <1>3 DEF PassInv
    <3> QED BY <1>4, <3>1 DEF CopyOf
  <2>2. \A u \in q.puts : GoodPut(u, q.rows)'
    BY <1>1, <1>3, MachinesKept DEF PassInv, GoodPut
  <2>3. /\ q.op = "import" => q.puts = {}
        /\ q.op # "import" => q.rows = sheet'
    BY <1>1, <1>3, <1>4 DEF PassInv
  <2> QED BY <1>3, <2>1, <2>2, <2>3 DEF PassInv
<1>6. Alone' /\ (\A s \in Passes : PassInv(pass[s]))'
  BY <1>1, <1>2, <1>5, OnePassInv
<1> QED BY <1>6, MachinesKept, TicketsChangeInv DEF MachineInv

LEMMA ApplyCreateInv ==
    ASSUME TypeInv, MachineInv, NEW p \in Passes, ApplyCreate(p)
    PROVE  MachineInv' /\ LinksGrow
<1>1. /\ At(p, "ticket") /\ pass[p].op = "import" /\ pass[p].tk = 0
      /\ UNCHANGED <<sheet, link, review>> /\ ticket' = Append(ticket, RowOf(p).key)
  BY DEF ApplyCreate
<1>2. pass[p].id = 0
  BY <1>1, PassTypes DEF PassForm, At
<1>3. RowOf(p).key \in Keys
  BY <1>1, AtHand DEF PassInv, AtRow, Row
<1>4. /\ TicketsMayChange
      /\ Len(ticket) + 1 \in DOMAIN ticket' /\ ticket'[Len(ticket) + 1] = RowOf(p).key
  BY <1>1, <1>3, AppendMayChange
<1>5. CASE pass' = [pass EXCEPT ![p] = [pass[p] EXCEPT !.pc = "link", !.tk = Len(ticket) + 1]]
  BY <1>1, <1>2, <1>4, <1>5, TicketPassInv
<1>6. CASE pass' = [pass EXCEPT ![p] = NextRow(pass[p])]
  BY <1>1, <1>4, <1>6, UnlinkedTicketInv
<1> QED BY <1>5, <1>6 DEF ApplyCreate

LEMMA ApplyToTicketInv ==
    ASSUME TypeInv, MachineInv, NEW p \in Passes, ApplyToTicket(p)
    PROVE  MachineInv' /\ LinksGrow
<1>1. /\ At(p, "ticket") /\ pass[p].op = "import" /\ pass[p].tk # 0
      /\ UNCHANGED <<sheet, link, review>>
  BY DEF ApplyToTicket
<1>2. CASE pass[p].tk \in assigned
  <2>1. /\ ticket' = [ticket EXCEPT ![pass[p].tk] = RowOf(p).key]
        /\ pass' = [pass EXCEPT ![p].pc = "link"]
    BY <1>2 DEF ApplyToTicket
  <2>2. [pass[p] EXCEPT !.pc = "link", !.tk = pass[p].tk] = [pass[p] EXCEPT !.pc = "link"]
    BY PassTypes DEF PassRecords
  <2>3. pass' = [pass EXCEPT ![p] = [pass[p] EXCEPT !.pc = "link", !.tk = pass[p].tk]]
    BY <2>1, <2>2
  <2>4. /\ TicketsMayChange /\ pass[p].tk \in DOMAIN ticket'
        /\ ticket'[pass[p].tk] = RowOf(p).key
    BY <1>1, <2>1, RowMayChangeTicket
  <2> QED BY <1>1, <2>3, <2>4, TicketPassInv
<1>3. CASE pass[p].tk \notin assigned
  <2>1. UNCHANGED ticket /\ pass' = [pass EXCEPT ![p] = NextRow(pass[p])]
    BY <1>3 DEF ApplyToTicket
  <2>2. TicketsMayChange
    BY <1>1, <2>1, Counts DEF TicketsMayChange, MachineInv
  <2> QED BY <1>1, <2>1, <2>2, UnlinkedTicketInv
<1> QED BY <1>2, <1>3

LEMMA MergeTicketInv ==
    ASSUME TypeInv, MachineInv, NEW p \in Passes, MergeTicket(p)
    PROVE  MachineInv' /\ LinksGrow
<1>1. /\ At(p, "ticket") /\ pass[p].op = "reconcile" /\ UNCHANGED <<sheet, link, review>>
      /\ ticket' = ticket \/ ticket' = [ticket EXCEPT ![pass[p].tk] = RowOf(p).key]
      /\ pass' = [pass EXCEPT ![p].pc = "link"]
  BY DEF MergeTicket
<1>2. [pass[p] EXCEPT !.pc = "link", !.tk = pass[p].tk] = [pass[p] EXCEPT !.pc = "link"]
  BY PassTypes DEF PassRecords
<1>3. pass' = [pass EXCEPT ![p] = [pass[p] EXCEPT !.pc = "link", !.tk = pass[p].tk]]
  BY <1>1, <1>2
<1>4. pass[p].id # 0 /\ pass[p].tk # 0
  BY <1>1, PassTypes DEF PassForm, At
<1>5. TicketsMayChange
  <2>1. CASE ticket' = ticket
    BY <1>1, <2>1, Counts DEF TicketsMayChange, MachineInv
  <2>2. CASE ticket' = [ticket EXCEPT ![pass[p].tk] = RowOf(p).key]
    BY <1>1, <1>4, <2>2, RowMayChangeTicket
  <2> QED BY <1>1, <2>1, <2>2
<1> QED BY <1>1, <1>3, <1>4, <1>5, TicketPassInv
-----------------------------------------------------------------------------
(* A saved link: its baseline is that of a row without a stamp, and its     *)
(* stamp, if it gets one, is its own.                                       *)
LinkSavedAs(l, b, s) ==
    /\ s \in {link[l].stamped, l}
    /\ link' = [link EXCEPT ![l] = [link[l] EXCEPT !.base = b, !.stamped = s]]

LEMMA LinkUpdated ==
    ASSUME TypeInv, MachineInv, UNCHANGED <<sheet, ticket, review>>,
           NEW l \in DOMAIN link, NEW b, NEW s, LinkSavedAs(l, b, s),
           \A i \in DOMAIN sheet : sheet[i].stamp = 0 /\ sheet[i].machine = LinkMachine(l) =>
                                       sheet[i].key = b
    PROVE  /\ (SheetInv /\ LinkInv /\ ReviewInv)'
           /\ \A x, m : StampOf(x, m) => StampOf(x, m)'
           /\ link'[l].stamped = s /\ DOMAIN link' = DOMAIN link
           /\ \A k \in DOMAIN link : LinkMachine(k)' = LinkMachine(k)
           /\ LinksGrow
<1>1. link[l] \in Links(Len(link), Len(ticket))
  BY LinkTypes
<1> DEFINE new == [link[l] EXCEPT !.base = b, !.stamped = s]
<1>2. new.uid = link[l].uid /\ new.ticket = link[l].ticket /\ new.base = b /\ new.stamped = s
  BY <1>1 DEF Links
<1> HIDE DEF new
<1>3. /\ DOMAIN link' = DOMAIN link
      /\ \A k \in DOMAIN link : link'[k] = IF k = l THEN new ELSE link[k]
  BY Counts DEF new, TypeInv, LinkSavedAs
<1>4. \A k \in DOMAIN link : LinkMachine(k)' = LinkMachine(k)
  BY <1>2, <1>3 DEF LinkMachine, MachineOf
<1>5. \A m : Linked(m)' <=> Linked(m)
  BY <1>3, <1>4 DEF Linked
<1>6. \A x, m : StampOf(x, m) => StampOf(x, m)'
  <2> SUFFICES ASSUME NEW x, NEW m, StampOf(x, m) PROVE StampOf(x, m)'
    OBVIOUS
  <2>1. x \in DOMAIN link /\ link[x].stamped = x /\ LinkMachine(x) = m
    BY DEF StampOf
  <2>2. link'[x].stamped = x
    BY <1>2, <1>3, <2>1 DEF LinkSavedAs
  <2> QED BY <1>3, <1>4, <2>1, <2>2 DEF StampOf
<1>7. SheetInv'
  <2>1. ASSUME NEW i \in DOMAIN sheet PROVE GoodRow(sheet[i])'
    <3>1. GoodRow(sheet[i])
      BY DEF MachineInv, SheetInv
    <3>2. sheet[i].stamp # 0 => StampOf(sheet[i].stamp, sheet[i].machine)'
      BY <1>6, <3>1 DEF GoodRow, StampOf
    <3>3. sheet[i].stamp = 0 => SameKey(sheet[i].key, sheet[i].machine)'
      <4> SUFFICES ASSUME sheet[i].stamp = 0, NEW k \in DOMAIN link,
                          LinkMachine(k) = sheet[i].machine
                   PROVE  /\ link'[k].uid = KeyUid(sheet[i].key) /\ link'[k].base = sheet[i].key
                          /\ ticket[link'[k].ticket] = sheet[i].key
        BY <1>3, <1>4 DEF SameKey
      <4>1. /\ link[k].uid = KeyUid(sheet[i].key) /\ link[k].base = sheet[i].key
            /\ ticket[link[k].ticket] = sheet[i].key
        BY <3>1 DEF GoodRow, SameKey
      <4> QED BY <1>2, <1>3, <4>1
    <3> QED BY <3>1, <3>2, <3>3 DEF GoodRow
  <2> QED BY <2>1 DEF MachineInv, SheetInv
<1>8. LinkInv'
  <2> SUFFICES ASSUME NEW k \in DOMAIN link
               PROVE  /\ link'[k].stamped \in {0, k}
                      /\ OnSheet(LinkMachine(k))
                      /\ \E w \in Keys : link'[k].uid = KeyUid(w) /\ Owner[w] = LinkMachine(k)
                      /\ \A j \in DOMAIN link : LinkMachine(k) = LinkMachine(j) => k = j
    BY <1>3, <1>4 DEF LinkInv, OnSheet
  <2>1. /\ link[k].stamped \in {0, k}
        /\ OnSheet(LinkMachine(k))
        /\ \E w \in Keys : link[k].uid = KeyUid(w) /\ Owner[w] = LinkMachine(k)
        /\ \A j \in DOMAIN link : LinkMachine(k) = LinkMachine(j) => k = j
    BY DEF MachineInv, LinkInv
  <2>2. link'[k].stamped \in {0, k} /\ link'[k].uid = link[k].uid
    BY <1>2, <1>3, <2>1 DEF LinkSavedAs
  <2> QED BY <2>1, <2>2
<1>9. ReviewInv'
  BY <1>5 DEF MachineInv, ReviewInv, Unstamped, Candidates, MachineOf
<1>10. LinksGrow
  BY <1>2, <1>3, <1>4 DEF LinksGrow
<1> QED BY <1>2, <1>3, <1>4, <1>6, <1>7, <1>8, <1>9, <1>10

(* A new link, of a machine that has none, for a row without a stamp.       *)
LEMMA LinkAppended ==
    ASSUME TypeInv, MachineInv, TicketsMayChange, NEW key \in Keys, NEW t \in DOMAIN ticket',
           NEW n, n = Len(link) + 1,
           ticket'[t] = key,
           link' = Append(link, [uid |-> KeyUid(key), ticket |-> t, base |-> key, stamped |-> 0]),
           ~Linked(Owner[key]), Unstamped(key), \A a \in review' : Owner[a.key] # Owner[key]
    PROVE  /\ (SheetInv /\ LinkInv /\ ReviewInv)' /\ (\A u \in DOMAIN ticket : ticket[u] # Blank)'
           /\ \A l \in DOMAIN link : l \in DOMAIN link' /\ LinkMachine(l)' = LinkMachine(l)
                                        /\ link'[l] = link[l]
           /\ LinksGrow
<1> DEFINE new == [uid |-> KeyUid(key), ticket |-> t, base |-> key, stamped |-> 0]
<1>1. new.uid = KeyUid(key) /\ new.ticket = t /\ new.base = key /\ new.stamped = 0
  OBVIOUS
<1> HIDE DEF new
<1>2. /\ DOMAIN link' = DOMAIN link \cup {n} /\ n \notin DOMAIN link
      /\ link'[n] = new /\ \A l \in DOMAIN link : link'[l] = link[l]
  <2>1. link \in Seq(Links(Len(link), Len(ticket)) \cup {new})
    <3>1. Links(Len(link), Len(ticket)) \subseteq Links(Len(link), Len(ticket)) \cup {new}
      OBVIOUS
    <3>2. link \in Seq(Links(Len(link), Len(ticket)))
      BY DEF TypeInv
    <3> QED BY <3>1, <3>2, SeqMonotonic
  <2>2. /\ link' \in Seq(Links(Len(link), Len(ticket)) \cup {new}) /\ Len(link') = n
        /\ link'[n] = new /\ \A l \in 1..Len(link) : link'[l] = link[l]
    BY <2>1, AppendProperties DEF new
  <2>3. DOMAIN link' = 1..n /\ DOMAIN link = 1..Len(link) /\ Len(link) \in Nat
    BY <2>2, LenProperties, Counts
  <2> QED BY <2>2, <2>3
<1>3. UNCHANGED sheet /\ review' \subseteq review
  BY DEF TicketsMayChange
<1>4. \A l \in DOMAIN link : LinkMachine(l)' = LinkMachine(l) /\ LinkMachine(l) # Owner[key]
  BY <1>2, LinkTypes DEF TicketsMayChange, LinkMachine, MachineOf, Linked
<1>5. LinkMachine(n)' = Owner[key]
  BY <1>1, <1>2 DEF LinkMachine, MachineOf
<1>6. \A x, m : StampOf(x, m) => StampOf(x, m)'
  BY <1>2, <1>4 DEF StampOf
<1>7. PICK r \in DOMAIN sheet :
         sheet[r].machine = Owner[key] /\ sheet[r].stamp = 0 /\ sheet[r].key = key
  BY DEF Unstamped
<1>8. SheetInv'
  <2>1. ASSUME NEW i \in DOMAIN sheet PROVE GoodRow(sheet[i])'
    <3>1. GoodRow(sheet[i])
      BY DEF MachineInv, SheetInv
    <3>2. sheet[i].stamp # 0 => StampOf(sheet[i].stamp, sheet[i].machine)'
      BY <1>3, <1>6, <3>1 DEF GoodRow, StampOf
    <3>3. sheet[i].stamp = 0 => SameKey(sheet[i].key, sheet[i].machine)'
      <4> SUFFICES ASSUME sheet[i].stamp = 0, NEW l \in DOMAIN link',
                          LinkMachine(l)' = sheet[i].machine
                   PROVE  /\ link'[l].uid = KeyUid(sheet[i].key) /\ link'[l].base = sheet[i].key
                          /\ ticket'[link'[l].ticket] = sheet[i].key
        BY <1>3 DEF SameKey
      <4>1. CASE l = n
        <5>1. sheet[i].machine = sheet[r].machine
          BY <1>5, <1>7, <4>1
        <5>2. i = r
          BY <5>1 DEF MachineInv, SheetInv
        <5> QED BY <1>1, <1>2, <1>7, <4>1, <5>2
      <4>2. CASE l \in DOMAIN link
        <5>1. link'[l] = link[l] /\ LinkMachine(l) = sheet[i].machine
          BY <1>2, <1>4, <4>2
        <5>2. ticket'[link[l].ticket] = ticket[link[l].ticket]
          BY <4>2, <5>1 DEF TicketsMayChange
        <5>3. SameKey(sheet[i].key, sheet[i].machine)
          BY <3>1 DEF GoodRow
        <5> QED BY <4>2, <5>1, <5>2, <5>3 DEF SameKey
      <4> QED BY <1>2, <4>1, <4>2
    <3> QED BY <1>3, <3>1, <3>2, <3>3 DEF GoodRow
  <2> QED BY <1>3, <2>1 DEF MachineInv, SheetInv
<1>9. LinkInv'
  <2>1. ASSUME NEW l \in DOMAIN link
        PROVE  /\ link'[l].stamped \in {0, l}
               /\ \E i \in DOMAIN sheet : sheet[i].machine = LinkMachine(l)'
               /\ \E k \in Keys : link'[l].uid = KeyUid(k) /\ Owner[k] = LinkMachine(l)'
               /\ \A k \in DOMAIN link' : LinkMachine(l)' = LinkMachine(k)' => l = k
    <3>1. /\ link[l].stamped \in {0, l} /\ OnSheet(LinkMachine(l))
          /\ \E k \in Keys : link[l].uid = KeyUid(k) /\ Owner[k] = LinkMachine(l)
          /\ \A k \in DOMAIN link : LinkMachine(l) = LinkMachine(k) => l = k
      BY DEF MachineInv, LinkInv
    <3> QED BY <1>2, <1>3, <1>4, <1>5, <3>1 DEF OnSheet
  <2>2. /\ link'[n].stamped \in {0, n}
        /\ \E i \in DOMAIN sheet : sheet[i].machine = LinkMachine(n)'
        /\ \E k \in Keys : link'[n].uid = KeyUid(k) /\ Owner[k] = LinkMachine(n)'
        /\ \A k \in DOMAIN link' : LinkMachine(n)' = LinkMachine(k)' => n = k
    BY <1>1, <1>2, <1>4, <1>5, <1>7
  <2> QED BY <1>2, <1>3, <2>1, <2>2 DEF LinkInv, OnSheet
<1>10. ReviewInv'
  <2> SUFFICES ASSUME NEW a \in review'
               PROVE  /\ a.uid = KeyUid(a.key)
                      /\ \A u \in a.candidates : ticket'[u] = a.key
                      /\ ~Linked(Owner[a.key])'
                      /\ Unstamped(a.key)'
                      /\ (\E u, w \in Candidates(a.key) : u # w)'
                      /\ \A b \in review' : Owner[a.key] = Owner[b.key] => a = b
    BY DEF ReviewInv
  <2>1. a \in review
    BY <1>3
  <2>2. /\ a.uid = KeyUid(a.key)
        /\ \A u \in a.candidates : ticket[u] = a.key
        /\ ~Linked(Owner[a.key])
        /\ Unstamped(a.key)
        /\ \E u, w \in Candidates(a.key) : u # w
        /\ \A b \in review : Owner[a.key] = Owner[b.key] => a = b
    BY <2>1 DEF MachineInv, ReviewInv
  <2>3. a.candidates \subseteq DOMAIN ticket
    BY <2>1, Counts DEF TypeInv, Reviews
  <2>4. \A u \in a.candidates : ticket'[u] = a.key
    BY <2>2, <2>3 DEF TicketsMayChange, MachineOf
  <2>5. ~Linked(Owner[a.key])'
    <3>1. \A l \in DOMAIN link : LinkMachine(l)' # Owner[a.key]
      BY <1>4, <2>2 DEF Linked
    <3> QED BY <1>2, <1>5, <3>1 DEF Linked
  <2>6. (\E u, w \in Candidates(a.key) : u # w)'
    <3>1. PICK u \in Candidates(a.key), w \in Candidates(a.key) : u # w
      BY <2>2
    <3>2. /\ u \in DOMAIN ticket /\ ticket[u] = a.key
          /\ w \in DOMAIN ticket /\ ticket[w] = a.key
      BY DEF Candidates
    <3>3. /\ u \in DOMAIN ticket' /\ ticket'[u] = a.key
          /\ w \in DOMAIN ticket' /\ ticket'[w] = a.key
      BY <3>2 DEF TicketsMayChange, MachineOf
    <3> QED BY <3>1, <3>3 DEF Candidates
  <2>7. Unstamped(a.key)'
    BY <1>3, <2>2 DEF Unstamped
  <2> QED BY <1>3, <2>2, <2>4, <2>5, <2>6, <2>7
<1>11. (\A u \in DOMAIN ticket : ticket[u] # Blank)'
  BY DEF TicketsMayChange
<1>12. LinksGrow
  BY <1>2, <1>4 DEF LinksGrow
<1> QED BY <1>1, <1>2, <1>4, <1>8, <1>9, <1>10, <1>11, <1>12

(* No ticket changes at all.                                                *)
LEMMA TicketsStay ==
    ASSUME TypeInv, MachineInv, UNCHANGED <<sheet, ticket, review>>
    PROVE  TicketsMayChange
BY Counts DEF TicketsMayChange, MachineInv

(* The pass at the next row, with the cells of this one.                    *)
LEMMA NextPass ==
    ASSUME TypeInv, MachineInv, UNCHANGED sheet, NEW p \in Passes, At(p, "link"),
           pass' = [pass EXCEPT ![p] = [NextRow(pass[p]) EXCEPT !.puts = pass[p].puts \cup Puts(p)]],
           \A x, m : StampOf(x, m) => StampOf(x, m)',
           pass[p].op = "import" => Puts(p) = {},
           NEW rows, rows = pass[p].rows, \A u \in Puts(p) : GoodPut(u, rows)'
    PROVE  Alone' /\ (\A r \in Passes : PassInv(pass[r]))'
<1>1. ~Idle(p) /\ pass[p].pc = "link" /\ PassInv(pass[p])
  BY AtHand
<1>2. PICK q : q = [NextRow(pass[p]) EXCEPT !.puts = pass[p].puts \cup Puts(p)]
  OBVIOUS
<1>3. /\ q.pc = "row" /\ q.op = pass[p].op /\ q.rows = pass[p].rows
      /\ q.puts = pass[p].puts \cup Puts(p)
  BY <1>2 DEF NextRow, IdlePass
<1>4. /\ q.rows = rows /\ \A j \in DOMAIN rows : CopyOf(rows[j])
      /\ q.op = "import" => pass[p].puts = {} /\ Puts(p) = {}
      /\ q.op # "import" => q.rows = sheet
      /\ \A u \in pass[p].puts : GoodPut(u, rows)
  BY <1>1, <1>3 DEF PassInv
<1>5. \A j \in DOMAIN rows : CopyOf(rows[j])'
  BY <1>4 DEF CopyOf
<1>6. \A u \in pass[p].puts : GoodPut(u, rows)'
  <2> SUFFICES ASSUME NEW u \in pass[p].puts PROVE GoodPut(u, rows)'
    OBVIOUS
  <2>1. GoodPut(u, rows)
    BY <1>4
  <2>2. u.stamp # 0 => StampOf(u.stamp, rows[u.pos].machine)'
    BY <2>1 DEF GoodPut
  <2> QED BY <2>1, <2>2 DEF GoodPut
<1>7. PassInv(q)'
  <2>1. q.op = "import" => q.puts = {}
    BY <1>3, <1>4
  <2>2. q.op # "import" => q.rows = sheet'
    BY <1>4
  <2>3. \A u \in q.puts : GoodPut(u, q.rows)'
    BY <1>3, <1>4, <1>6
  <2>4. \A j \in DOMAIN q.rows : CopyOf(q.rows[j])'
    BY <1>4, <1>5
  <2> QED BY <1>3, <2>1, <2>2, <2>3, <2>4 DEF PassInv
<1> QED BY <1>1, <1>2, <1>7, OnePassInv

(* What Push and Reconcile queue for a row: its ticket's key, and, on a     *)
(* push, the link as its stamp.                                             *)
LEMMA PutsGood ==
    ASSUME TypeInv, MachineInv, UNCHANGED sheet, NEW p \in Passes, At(p, "link"), pass[p].id # 0,
           NEW rows, rows = pass[p].rows, NEW id, id = pass[p].id, NEW m, m = RowOf(p).machine,
           pass[p].op = "push" => StampOf(id, m)'
    PROVE  \A u \in Puts(p) : GoodPut(u, rows)'
<1>1. /\ pass[p].pc = "link" /\ PassInv(pass[p])
      /\ pass[p].i \in DOMAIN rows /\ RowOf(p) = rows[pass[p].i]
  BY AtHand
<1>2. AtRow(pass[p], RowOf(p))
  BY <1>1 DEF PassInv
<1> SUFFICES ASSUME NEW u \in Puts(p) PROVE GoodPut(u, rows)'
  OBVIOUS
<1>3. /\ pass[p].op # "import" /\ u.pos = pass[p].i /\ u.key = pass[p].key
      /\ \/ pass[p].op = "push" /\ u.stamp = pass[p].id
         \/ pass[p].op # "push" /\ u.stamp = 0
  <2>1. CASE pass[p].op = "push"
    BY <2>1 DEF Puts
  <2>2. CASE pass[p].op # "push"
    BY <2>2 DEF Puts
  <2> QED BY <2>1, <2>2
<1>4. /\ pass[p].key # Blank /\ Owner[pass[p].key] = RowOf(p).machine
      /\ RowOf(p).stamp = 0 => pass[p].key = RowOf(p).key
  BY <1>2, <1>3 DEF AtRow
<1>5. rows[u.pos] = RowOf(p)
  BY <1>1, <1>3
<1>6. u.stamp # 0 => StampOf(u.stamp, rows[u.pos].machine)'
  <2> SUFFICES ASSUME u.stamp # 0 PROVE StampOf(u.stamp, rows[u.pos].machine)'
    OBVIOUS
  <2>1. pass[p].op = "push" /\ u.stamp = id /\ rows[u.pos].machine = m
    BY <1>3, <1>5
  <2>2. StampOf(id, m)'
    BY <2>1
  <2> QED BY <2>1, <2>2
<1> QED BY <1>1, <1>3, <1>4, <1>5, <1>6 DEF GoodPut

(* A pass saves the link it read: the stamp is the row's, or the link's own *)
(* id, and the baseline is what a row without a stamp says.                 *)
SavedAs(p, l, b, s) ==
    /\ LinkSavedAs(l, b, s)
    /\ RowOf(p).stamp = 0 => b = RowOf(p).key
    /\ pass[p].op = "push" => s = l

LEMMA SavedFields ==
    ASSUME TypeInv, MachineInv, NEW p \in Passes, SaveLink(p), pass[p].id # 0,
           NEW l, l = pass[p].id
    PROVE  \E b, s : SavedAs(p, l, b, s)
<1> DEFINE row == RowOf(p)
<1>1. /\ At(p, "link") /\ pass[p].pc = "link" /\ PassInv(pass[p]) /\ CopyOf(row)
      /\ row = pass[p].rows[pass[p].i]
      /\ pass[p].op # "import" => pass[p].i \in DOMAIN sheet /\ row = sheet[pass[p].i]
  BY AtHand DEF SaveLink
<1>2. AtRow(pass[p], row)
  BY <1>1 DEF PassInv
<1>3. l \in DOMAIN link
  BY Counts, PassTypes
<1>4. /\ pass[p].copy = link[l] /\ pass[p].tk = link[l].ticket /\ LinkMachine(l) = row.machine
      /\ row.key # Blank
  BY <1>2 DEF AtRow
<1>5. link[l] \in Links(Len(link), Len(ticket))
  BY <1>3, LinkTypes
<1>6. CASE pass[p].op = "import"
  <2>1. link' = [link EXCEPT ![l] = ImportedLink(p)]
    BY <1>6 DEF SaveLink
  <2>2. PICK s : s = IF row.stamp # 0 THEN row.stamp ELSE link[l].stamped
    OBVIOUS
  <2>3. ImportedLink(p) = [link[l] EXCEPT !.base = row.key, !.stamped = s]
    BY <1>4, <1>5, <2>2 DEF ImportedLink, Links
  <2>4. row.stamp # 0 => row.stamp = l
    BY <1>1, <1>3, <1>4, CopyStamp DEF StampOf, MachineInv, LinkInv
  <2>5. SavedAs(p, l, row.key, s)
    BY <1>6, <2>1, <2>2, <2>3, <2>4 DEF SavedAs, LinkSavedAs
  <2> QED BY <2>5
<1>7. CASE pass[p].op = "push"
  <2>1. link' = [link EXCEPT ![l] = PushedLink(p)]
    BY <1>7 DEF SaveLink
  <2>2. PushedLink(p) = [link[l] EXCEPT !.base = pass[p].key, !.stamped = l]
    BY <1>4 DEF PushedLink
  <2>3. row.stamp = 0 => pass[p].key = row.key
    BY <1>2, <1>7 DEF AtRow
  <2>4. SavedAs(p, l, pass[p].key, l)
    BY <2>1, <2>2, <2>3 DEF SavedAs, LinkSavedAs
  <2> QED BY <2>4
<1>8. CASE pass[p].op \notin {"import", "push"}
  <2>1. link' = [link EXCEPT ![l] = MergedLink(p)]
    BY <1>8 DEF SaveLink
  <2>2. PICK b \in {row.key, link[l].base, pass[p].key} : MergedLink(p) = [link[l] EXCEPT !.base = b]
    BY <1>4 DEF MergedLink
  <2>3. [link[l] EXCEPT !.base = b, !.stamped = link[l].stamped] = [link[l] EXCEPT !.base = b]
    BY <1>5 DEF Links
  <2>4. row.stamp = 0 => pass[p].key = row.key
    BY <1>2, <1>8 DEF AtRow
  <2>5. row.stamp = 0 => link[l].base = row.key
    BY <1>1, <1>3, <1>4, <1>8 DEF MachineInv, SheetInv, GoodRow, SameKey
  <2>6. SavedAs(p, l, b, link[l].stamped)
    BY <1>8, <2>1, <2>2, <2>3, <2>4, <2>5 DEF SavedAs, LinkSavedAs
  <2> QED BY <2>6
<1> QED BY <1>6, <1>7, <1>8

LEMMA SaveLinkInv ==
    ASSUME TypeInv, MachineInv, NEW p \in Passes, SaveLink(p)
    PROVE  MachineInv' /\ LinksGrow
<1> DEFINE row == RowOf(p)
<1>1. /\ At(p, "link") /\ pass[p].pc = "link" /\ PassInv(pass[p]) /\ CopyOf(row)
      /\ row = pass[p].rows[pass[p].i] /\ row \in Row
      /\ UNCHANGED <<sheet, ticket, review>>
      /\ pass' = [pass EXCEPT ![p] = [NextRow(pass[p]) EXCEPT !.puts = pass[p].puts \cup Puts(p)]]
  BY AtHand DEF SaveLink
<1>2. AtRow(pass[p], row)
  BY <1>1 DEF PassInv
<1>3. PICK rows : rows = pass[p].rows
  OBVIOUS
<1>4. (\A t \in DOMAIN ticket : ticket[t] # Blank)'
  BY <1>1 DEF MachineInv
<1>5. pass[p].op = "import" => Puts(p) = {}
  BY DEF Puts
<1>6. CASE pass[p].id # 0
  <2>1. PICK l \in DOMAIN link : l = pass[p].id /\ LinkMachine(l) = row.machine
    BY <1>2, <1>6, Counts, PassTypes DEF AtRow
  <2>2. PICK b, s : SavedAs(p, l, b, s)
    BY <1>6, <2>1, SavedFields
  <2>3. /\ LinkSavedAs(l, b, s)
        /\ row.stamp = 0 => b = row.key
        /\ pass[p].op = "push" => s = l
    BY <2>2 DEF SavedAs
  <2>4. \A i \in DOMAIN sheet : sheet[i].stamp = 0 /\ sheet[i].machine = LinkMachine(l) =>
                                    sheet[i].key = b
    BY <1>1, <1>2, <2>1, <2>3 DEF AtRow, CopyOf, MachineInv, SheetInv
  <2>5. /\ (SheetInv /\ LinkInv /\ ReviewInv)'
        /\ \A x, m : StampOf(x, m) => StampOf(x, m)'
        /\ link'[l].stamped = s /\ DOMAIN link' = DOMAIN link
        /\ \A k \in DOMAIN link : LinkMachine(k)' = LinkMachine(k)
        /\ LinksGrow
    <3>1. UNCHANGED <<sheet, ticket, review>>
      BY <1>1
    <3> QED BY ONLY TypeInv, MachineInv, <3>1, <2>3, <2>4, LinkUpdated
  <2>6. PICK m : m = row.machine
    OBVIOUS
  <2>7. pass[p].op = "push" => StampOf(l, m)'
    <3>1. pass[p].op = "push" => link'[l].stamped = l
      BY <2>3, <2>5
    <3>2. l \in DOMAIN link' /\ LinkMachine(l)' = m
      BY <2>1, <2>5, <2>6
    <3> QED BY <3>1, <3>2 DEF StampOf
  <2>8. \A u \in Puts(p) : GoodPut(u, rows)'
    BY <1>1, <1>3, <1>6, <2>1, <2>6, <2>7, PutsGood
  <2>9. Alone' /\ (\A r \in Passes : PassInv(pass[r]))'
    BY <1>1, <1>3, <1>5, <2>5, <2>8, NextPass
  <2> QED BY <1>4, <2>5, <2>9 DEF MachineInv
<1>7. CASE pass[p].id = 0
  <2>1. pass[p].op = "import" /\ pass[p].tk # 0
    BY <1>1, <1>7, PassTypes DEF PassForm
  <2>2. /\ ~Linked(row.machine) /\ ~Reviewed(row.machine)
        /\ MachineOf(pass[p].tk) = row.machine /\ ticket[pass[p].tk] = row.key
        /\ row.key # Blank
    BY <1>1, <1>2, <1>7, <2>1 DEF AtRow
  <2>3. row.stamp = 0 /\ Owner[row.key] = row.machine /\ Unstamped(row.key)
    <3>1. row.stamp = 0
      BY <1>1, <2>2, CopyStamp DEF StampOf, Linked
    <3> QED BY <1>1, <2>2, <3>1 DEF CopyOf, Unstamped
  <2>4. PICK key \in Keys, t \in DOMAIN ticket : key = row.key /\ t = pass[p].tk
    <3>1. row.key \in Keys
      BY <1>1, <2>2 DEF Row
    <3>2. pass[p].tk \in DOMAIN ticket
      BY <2>1, Counts, PassTypes
    <3> QED BY <3>1, <3>2
  <2>5. PICK n : n = Len(link) + 1
    OBVIOUS
  <2>6. link' = Append(link, [uid |-> KeyUid(key), ticket |-> t, base |-> key, stamped |-> 0])
    BY <1>7, <2>3, <2>4 DEF SaveLink, NewLink, Uid
  <2>7. /\ ticket'[t] = key /\ t \in DOMAIN ticket'
        /\ ~Linked(Owner[key]) /\ Unstamped(key) /\ \A a \in review' : Owner[a.key] # Owner[key]
    BY <1>1, <2>2, <2>3, <2>4 DEF Reviewed
  <2>8. TicketsMayChange
    BY <1>1, TicketsStay
  <2>9. /\ (SheetInv /\ LinkInv /\ ReviewInv)'
        /\ \A l \in DOMAIN link : l \in DOMAIN link' /\ LinkMachine(l)' = LinkMachine(l)
                                     /\ link'[l] = link[l]
        /\ LinksGrow
    BY ONLY TypeInv, MachineInv, <2>5, <2>6, <2>7, <2>8, LinkAppended
  <2>10. \A x, m : StampOf(x, m) => StampOf(x, m)'
    BY <2>9 DEF StampOf
  <2>11. Puts(p) = {}
    BY <1>5, <2>1
  <2>12. Alone' /\ (\A r \in Passes : PassInv(pass[r]))'
    BY <1>1, <1>3, <1>5, <2>10, <2>11, NextPass
  <2> QED BY <1>4, <2>9, <2>12 DEF MachineInv
<1> QED BY <1>6, <1>7
-----------------------------------------------------------------------------
(* People at work in the app: no pass is under way.                         *)
LEMMA AppActsInv ==
    ASSUME TypeInv, MachineInv, AppActs, (SheetInv /\ LinkInv /\ ReviewInv)',
           (\A t \in DOMAIN ticket : ticket[t] # Blank)'
    PROVE  MachineInv'
<1>1. \A p \in Passes : pass'[p].pc = "idle"
  BY DEF AppActs, Idle
<1> QED BY <1>1 DEF MachineInv, Alone, Idle, PassInv

LEMMA CreateTicketInv ==
    ASSUME TypeInv, MachineInv, NEW key \in Keys, CreateTicket(key)
    PROVE  MachineInv' /\ LinksGrow
<1>1. /\ AppActs /\ ticket' = Append(ticket, key) /\ UNCHANGED <<sheet, link, review>>
  BY DEF CreateTicket, AppActs
<1>2. TicketsMayChange
  BY <1>1, AppendMayChange
<1> QED BY <1>1, <1>2, MachinesKept, TicketsChangeInv, AppActsInv

LEMMA AssignInv ==
    ASSUME TypeInv, MachineInv, NEW t \in DOMAIN ticket, Assign(t)
    PROVE  MachineInv' /\ LinksGrow
<1>1. /\ AppActs /\ UNCHANGED <<sheet, ticket, link, review>>
  BY DEF Assign, AppActs
<1>2. TicketsMayChange
  BY <1>1, TicketsStay
<1> QED BY <1>1, <1>2, MachinesKept, TicketsChangeInv, AppActsInv

LEMMA EditTicketKeyInv ==
    ASSUME TypeInv, MachineInv, Orderly, NEW t \in DOMAIN ticket, NEW key \in Keys,
           EditTicketKey(t, key)
    PROVE  MachineInv' /\ LinksGrow
<1>1. /\ AppActs /\ ticket' = [ticket EXCEPT ![t] = key] /\ UNCHANGED <<sheet, link, review>>
      /\ Owner[key] = MachineOf(t)
  BY DEF EditTicketKey, AppActs, MachineOf
<1>2. PICK j \in DOMAIN sheet : sheet[j].stamp # 0 /\ link[sheet[j].stamp].ticket = t
  BY DEF EditTicketKey, Orderly, Range
<1>3. /\ sheet[j].stamp \in DOMAIN link /\ LinkMachine(sheet[j].stamp) = sheet[j].machine
      /\ sheet[j].machine = MachineOf(t)
  BY <1>2 DEF MachineInv, SheetInv, GoodRow, StampOf, LinkMachine
<1>4. \A i \in DOMAIN sheet, l \in DOMAIN link :
          sheet[i].stamp = 0 /\ LinkMachine(l) = sheet[i].machine => link[l].ticket # t
  BY <1>2, <1>3 DEF MachineInv, SheetInv, LinkMachine
<1>5. \A a \in review' : Owner[a.key] # MachineOf(t)
  BY <1>1, <1>3 DEF MachineInv, ReviewInv, Linked
<1>6. TicketsMayChange
  <2>1. /\ ticket' = [ticket EXCEPT ![t] = key] /\ Owner[key] = MachineOf(t)
        /\ UNCHANGED sheet /\ review' \subseteq review
    BY <1>1
  <2>2. /\ \A i \in DOMAIN sheet, l \in DOMAIN link :
              sheet[i].stamp = 0 /\ LinkMachine(l) = sheet[i].machine /\ link[l].ticket = t =>
                  ticket[t] = key
        /\ \A a \in review' : Owner[a.key] = MachineOf(t) => ticket[t] = key
    BY <1>4, <1>5
  <2> QED BY ONLY TypeInv, MachineInv, <2>1, <2>2, KeyMayChange
<1> QED BY <1>1, <1>6, MachinesKept, TicketsChangeInv, AppActsInv

(* The link of a reviewed row: there is none yet.                           *)
LEMMA ReviewedLink ==
    ASSUME TypeInv, MachineInv, NEW a \in review, NEW t, LinkReviewed(a, t)
    PROVE  /\ link' = Append(link, [uid |-> KeyUid(a.key), ticket |-> t, base |-> a.key, stamped |-> 0])
           /\ ~Linked(Owner[a.key]) /\ Unstamped(a.key)
<1>1. /\ a.uid = KeyUid(a.key) /\ ~Linked(Owner[a.key]) /\ Unstamped(a.key)
  BY DEF MachineInv, ReviewInv
<1>2. ByUid(a.uid) = {}
  <2> SUFFICES ASSUME NEW l \in DOMAIN link, link[l].uid = KeyUid(a.key) PROVE FALSE
    BY <1>1 DEF ByUid
  <2>1. LinkMachine(l) = Owner[a.key]
    BY KeyUidInjective DEF MachineInv, LinkInv
  <2> QED BY <1>1, <2>1 DEF Linked
<1> QED BY <1>1, <1>2 DEF LinkReviewed

LEMMA ResolveAdoptionInv ==
    ASSUME TypeInv, MachineInv, NEW a \in review, ResolveAdoption(a)
    PROVE  MachineInv' /\ LinksGrow
<1>1. AppActs /\ UNCHANGED sheet /\ review' \subseteq review
  BY DEF ResolveAdoption, AppActs
<1>2. a.key \in Keys /\ a.candidates \subseteq DOMAIN ticket
  BY Counts DEF TypeInv, Reviews
<1>3. review' = review \ {a} => \A b \in review' : Owner[b.key] # Owner[a.key]
  BY DEF MachineInv, ReviewInv
<1> PICK n : n = Len(link) + 1
  OBVIOUS
<1>4. PICK key \in Keys : key = a.key /\ n = Len(link) + 1
  BY <1>2
<1>5. CASE UNCHANGED <<ticket, link>>
  <2>1. TicketsMayChange
    BY <1>1, <1>5, Counts DEF TicketsMayChange, MachineInv
  <2> QED BY <1>1, <1>5, <2>1, MachinesKept, TicketsChangeInv, AppActsInv
<1>6. ASSUME NEW t \in DOMAIN ticket', ticket'[t] = key, TicketsMayChange, LinkReviewed(a, t),
             review' = review \ {a}
      PROVE  MachineInv' /\ LinksGrow
  <2>1. /\ link' = Append(link, [uid |-> KeyUid(key), ticket |-> t, base |-> key, stamped |-> 0])
        /\ ~Linked(Owner[key]) /\ Unstamped(key) /\ \A b \in review' : Owner[b.key] # Owner[key]
    BY <1>3, <1>4, <1>6, ReviewedLink
  <2>2. /\ (SheetInv /\ LinkInv /\ ReviewInv)' /\ (\A u \in DOMAIN ticket : ticket[u] # Blank)'
        /\ LinksGrow
    BY ONLY TypeInv, MachineInv, <1>4, <1>6, <2>1, LinkAppended
  <2> QED BY <1>1, <2>2, AppActsInv
<1>7. CASE /\ ticket' = Append(ticket, a.key) /\ LinkReviewed(a, Len(ticket) + 1)
           /\ review' = review \ {a}
  <2>1. PICK t : t = Len(ticket) + 1
    OBVIOUS
  <2>2. ticket' = Append(ticket, key) /\ LinkReviewed(a, t)
    BY <1>4, <1>7, <2>1
  <2>3. TicketsMayChange /\ t \in DOMAIN ticket' /\ ticket'[t] = key
    BY <1>1, <2>1, <2>2, AppendMayChange
  <2> QED BY <1>6, <1>7, <2>2, <2>3
<1>8. ASSUME NEW t \in a.candidates, LinkReviewed(a, t), review' = review \ {a},
             ticket' = [ticket EXCEPT ![t] = IF t \in assigned THEN a.key ELSE ticket[t]]
      PROVE  MachineInv' /\ LinksGrow
  <2>1. t \in DOMAIN ticket /\ ticket[t] = key /\ MachineOf(t) = Owner[key]
    BY <1>2, <1>4 DEF MachineInv, ReviewInv, MachineOf
  <2>2. ticket' = [ticket EXCEPT ![t] = key]
    BY <1>4, <1>8, <2>1
  <2>3. /\ \A l \in DOMAIN link : link[l].ticket # t
        /\ \A b \in review' : Owner[b.key] # MachineOf(t)
    BY <1>3, <1>4, <1>8, <2>1, ReviewedLink DEF Linked, LinkMachine
  <2>4. TicketsMayChange /\ DOMAIN ticket' = DOMAIN ticket /\ ticket'[t] = key
    <3>1. UNCHANGED sheet /\ review' \subseteq review /\ Owner[key] = MachineOf(t)
      BY <1>1, <2>1
    <3>2. /\ \A i \in DOMAIN sheet, l \in DOMAIN link :
                sheet[i].stamp = 0 /\ LinkMachine(l) = sheet[i].machine /\ link[l].ticket = t =>
                    ticket[t] = key
          /\ \A b \in review' : Owner[b.key] = MachineOf(t) => ticket[t] = key
      BY <2>3
    <3> QED BY ONLY TypeInv, MachineInv, <2>1, <2>2, <3>1, <3>2, KeyMayChange
  <2> QED BY <1>6, <1>8, <2>1, <2>4
<1>9. CASE ticket' = Append(ticket, a.key) /\ UNCHANGED <<link, review>>
  <2>1. TicketsMayChange
    BY <1>1, <1>2, <1>9, AppendMayChange
  <2> QED BY <1>1, <1>9, <2>1, MachinesKept, TicketsChangeInv, AppActsInv
<1> QED BY <1>5, <1>7, <1>8, <1>9 DEF ResolveAdoption
-----------------------------------------------------------------------------
(* The sheet may change as long as every row is good, machines keep their   *)
(* rows, and rows that could be under review keep their keys.               *)
SheetMayChange ==
    /\ UNCHANGED <<ticket, link, review>>
    /\ \A j, k \in DOMAIN sheet' : sheet'[j].machine = sheet'[k].machine => j = k
    /\ \A j \in DOMAIN sheet' : GoodRow(sheet'[j])
    /\ \A i \in DOMAIN sheet : \E j \in DOMAIN sheet' :
          /\ sheet'[j].machine = sheet[i].machine
          /\ sheet[i].stamp = 0 /\ sheet[i].key # Blank /\ ~Linked(sheet[i].machine) =>
                 sheet'[j].stamp = 0 /\ sheet'[j].key = sheet[i].key

LEMMA SheetChangesInv ==
    ASSUME TypeInv, MachineInv, SheetMayChange
    PROVE  (SheetInv /\ LinkInv /\ ReviewInv)' /\ (\A t \in DOMAIN ticket : ticket[t] # Blank)'
<1>1. UNCHANGED <<ticket, link, review>>
  BY DEF SheetMayChange
<1>2. SheetInv'
  <2>1. ASSUME NEW j \in DOMAIN sheet' PROVE GoodRow(sheet[j])'
    <3>1. GoodRow(sheet'[j])
      BY DEF SheetMayChange
    <3> QED BY <1>1, <3>1 DEF GoodRow, SameKey, StampOf, LinkMachine, MachineOf
  <2> QED BY <2>1 DEF SheetInv, SheetMayChange
<1>3. \A l \in DOMAIN link : LinkMachine(l)' = LinkMachine(l)
  BY <1>1 DEF LinkMachine, MachineOf
<1>4. LinkInv'
  <2>1. ASSUME NEW l \in DOMAIN link PROVE \E j \in DOMAIN sheet' : sheet'[j].machine = LinkMachine(l)
    <3>1. PICK i \in DOMAIN sheet : sheet[i].machine = LinkMachine(l)
      BY DEF MachineInv, LinkInv, OnSheet
    <3> QED BY <3>1 DEF SheetMayChange
  <2> QED BY <1>1, <1>3, <2>1 DEF MachineInv, LinkInv, OnSheet
<1>5. ReviewInv'
  <2>1. ASSUME NEW a \in review
        PROVE  /\ a.uid = KeyUid(a.key)
               /\ \A t \in a.candidates : ticket[t] = a.key
               /\ ~Linked(Owner[a.key])
               /\ \E t, u \in Candidates(a.key) : t # u
               /\ \A b \in review : Owner[a.key] = Owner[b.key] => a = b
    BY DEF MachineInv, ReviewInv
  <2>2. ASSUME NEW a \in review PROVE Unstamped(a.key)'
    <3>1. PICK i \in DOMAIN sheet :
             sheet[i].machine = Owner[a.key] /\ sheet[i].stamp = 0 /\ sheet[i].key = a.key
      BY DEF MachineInv, ReviewInv, Unstamped
    <3>2. a.key # Blank
      BY LinksAssumption DEF TypeInv, Reviews
    <3>3. ~Linked(sheet[i].machine)
      BY <2>1, <3>1
    <3> QED BY <3>1, <3>2, <3>3 DEF SheetMayChange, Unstamped
  <2> QED BY <1>1, <2>1, <2>2 DEF ReviewInv, Linked, LinkMachine, MachineOf, Candidates
<1>6. (\A t \in DOMAIN ticket : ticket[t] # Blank)'
  BY <1>1 DEF MachineInv
<1> QED BY <1>2, <1>4, <1>5, <1>6

(* WriteCells gives every row cells of its own machine.                     *)
LEMMA WrittenRow ==
    ASSUME TypeInv, MachineInv, NEW p \in Passes, EndPass(p), NEW i \in DOMAIN sheet
    PROVE  /\ sheet'[i].machine = sheet[i].machine
           /\ GoodRow(sheet'[i])
           /\ sheet'[i].stamp # 0 => sheet[i].stamp # 0 \/ Linked(sheet[i].machine)
           /\ sheet'[i].stamp = 0 => sheet'[i].key = sheet[i].key
<1>1. sheet[i] \in Row /\ GoodRow(sheet[i])
  BY RowTypes DEF TypeInv, MachineInv, SheetInv
<1>2. CASE \E u \in pass[p].puts : u.pos = i
  <2>1. PICK u \in pass[p].puts : u = CHOOSE v \in pass[p].puts : v.pos = i
    BY <1>2
  <2>2. PICK stamp : stamp = IF u.stamp # 0 THEN u.stamp ELSE sheet[i].stamp
    OBVIOUS
  <2>3. sheet'[i] = [sheet[i] EXCEPT !.key = u.key, !.stamp = stamp]
    BY <1>2, <2>1, <2>2 DEF EndPass
  <2>4. /\ sheet'[i].machine = sheet[i].machine /\ sheet'[i].key = u.key
        /\ sheet'[i].stamp = stamp
    BY <1>1, <2>3 DEF Row
  <2>5. PassInv(pass[p]) /\ pass[p].pc # "idle"
    BY DEF MachineInv, EndPass
  <2>6. pass[p].rows = sheet /\ GoodPut(u, sheet)
    BY <2>5 DEF PassInv
  <2>7. u.pos = i
    BY <1>2, <2>1
  <2>8. /\ u.key # Blank /\ Owner[u.key] = sheet[i].machine
        /\ u.stamp # 0 => StampOf(u.stamp, sheet[i].machine)
        /\ u.stamp = 0 /\ sheet[i].stamp = 0 => u.key = sheet[i].key
    BY <2>6, <2>7 DEF GoodPut
  <2>9. CASE u.stamp # 0
    <3>1. stamp = u.stamp /\ StampOf(u.stamp, sheet[i].machine)
      BY <2>2, <2>8, <2>9
    <3>2. Linked(sheet[i].machine)
      BY <3>1 DEF StampOf, Linked
    <3> QED BY <2>4, <2>8, <2>9, <3>1, <3>2 DEF GoodRow
  <2>10. CASE u.stamp = 0
    <3>1. stamp = sheet[i].stamp
      BY <2>2, <2>10
    <3>2. stamp = 0 => u.key = sheet[i].key
      BY <2>8, <2>10, <3>1
    <3> QED BY <1>1, <2>4, <2>8, <3>1, <3>2 DEF GoodRow
  <2> QED BY <2>9, <2>10
<1>3. CASE ~\E u \in pass[p].puts : u.pos = i
  <2>1. sheet'[i] = sheet[i]
    BY <1>3 DEF EndPass
  <2> QED BY <1>1, <2>1
<1> QED BY <1>2, <1>3

LEMMA EndPassInv ==
    ASSUME TypeInv, MachineInv, NEW p \in Passes, EndPass(p)
    PROVE  MachineInv'
<1>1. /\ DOMAIN sheet' = DOMAIN sheet /\ UNCHANGED <<ticket, link, review>>
      /\ pass' = [pass EXCEPT ![p] = IdlePass]
  BY DEF EndPass
<1>2. SheetMayChange
  <2>1. \A j, k \in DOMAIN sheet' : sheet'[j].machine = sheet'[k].machine => j = k
    BY <1>1, WrittenRow DEF MachineInv, SheetInv
  <2>2. \A j \in DOMAIN sheet' : GoodRow(sheet'[j])
    BY <1>1, WrittenRow
  <2>3. ASSUME NEW i \in DOMAIN sheet
        PROVE  /\ sheet'[i].machine = sheet[i].machine
               /\ sheet[i].stamp = 0 /\ sheet[i].key # Blank /\ ~Linked(sheet[i].machine) =>
                      sheet'[i].stamp = 0 /\ sheet'[i].key = sheet[i].key
    BY WrittenRow
  <2> QED BY <1>1, <2>1, <2>2, <2>3 DEF SheetMayChange
<1>3. \A r \in Passes : pass'[r].pc = "idle"
  <2>1. \A r \in Passes : pass'[r] = IF r = p THEN IdlePass ELSE pass[r]
    BY <1>1 DEF TypeInv
  <2>2. pass[p].pc # "idle"
    BY DEF EndPass
  <2> QED BY <2>1, <2>2, OthersIdle DEF Idle, IdlePass
<1>4. Alone' /\ (\A r \in Passes : PassInv(pass[r]))'
  BY <1>3 DEF Alone, Idle, PassInv
<1> QED BY <1>2, <1>4, SheetChangesInv DEF MachineInv

(* While people work in the sheet, only an import may be under way: the     *)
(* rows that it read keep their stamps, and their keys if they have none.   *)
LEMMA SheetActsInv ==
    ASSUME TypeInv, MachineInv, Orderly, SheetActs,
           \A j, k \in DOMAIN sheet' : sheet'[j].machine = sheet'[k].machine => j = k,
           \A j \in DOMAIN sheet' : GoodRow(sheet'[j]),
           \A i \in DOMAIN sheet : \E j \in DOMAIN sheet' :
               /\ sheet'[j].machine = sheet[i].machine /\ sheet'[j].stamp = sheet[i].stamp
               /\ sheet[i].stamp = 0 /\ sheet[i].key # Blank => sheet'[j].key = sheet[i].key
    PROVE  MachineInv'
<1>1. /\ UNCHANGED <<ticket, link, review, pass>>
      /\ \A p \in Passes : Idle(p) \/ pass[p].op = "import"
  BY DEF SheetActs, Orderly
<1>2. SheetMayChange
  <2>1. ASSUME NEW i \in DOMAIN sheet
        PROVE  \E j \in DOMAIN sheet' :
                  /\ sheet'[j].machine = sheet[i].machine
                  /\ sheet[i].stamp = 0 /\ sheet[i].key # Blank /\ ~Linked(sheet[i].machine) =>
                         sheet'[j].stamp = 0 /\ sheet'[j].key = sheet[i].key
    <3>1. PICK j \in DOMAIN sheet' :
             /\ sheet'[j].machine = sheet[i].machine /\ sheet'[j].stamp = sheet[i].stamp
             /\ sheet[i].stamp = 0 /\ sheet[i].key # Blank => sheet'[j].key = sheet[i].key
      OBVIOUS
    <3> QED BY <3>1
  <2> QED BY <1>1, <2>1 DEF SheetMayChange
<1>3. ASSUME NEW row, CopyOf(row) PROVE CopyOf(row)'
  <2> SUFFICES ASSUME row.key # Blank
               PROVE  /\ Owner[row.key] = row.machine
                      /\ \E j \in DOMAIN sheet' :
                            /\ sheet'[j].machine = row.machine /\ sheet'[j].stamp = row.stamp
                            /\ row.stamp = 0 => sheet'[j].key = row.key
    BY DEF CopyOf
  <2>1. PICK i \in DOMAIN sheet : /\ sheet[i].machine = row.machine /\ sheet[i].stamp = row.stamp
                                  /\ row.stamp = 0 => sheet[i].key = row.key
    BY <1>3 DEF CopyOf
  <2>2. PICK j \in DOMAIN sheet' :
           /\ sheet'[j].machine = sheet[i].machine /\ sheet'[j].stamp = sheet[i].stamp
           /\ sheet[i].stamp = 0 /\ sheet[i].key # Blank => sheet'[j].key = sheet[i].key
    OBVIOUS
  <2> QED BY <1>3, <2>1, <2>2 DEF CopyOf
<1>4. ASSUME NEW p \in Passes PROVE PassInv(pass[p])'
  <2>1. CASE Idle(p)
    BY <1>1, <2>1 DEF PassInv, Idle
  <2>2. CASE pass[p].op = "import" /\ ~Idle(p)
    <3>1. PassInv(pass[p]) /\ pass[p].pc # "idle"
      BY <2>2 DEF MachineInv, Idle
    <3>2. PICK q : q = pass[p]
      OBVIOUS
    <3>3. \A j \in DOMAIN q.rows : CopyOf(q.rows[j])'
      BY <1>3, <3>1, <3>2 DEF PassInv
    <3>4. q.puts = {} /\ q.op = "import"
      BY <2>2, <3>1, <3>2 DEF PassInv
    <3>5. q.pc \in {"ticket", "link"} => AtRow(q, q.rows[q.i])'
      BY <1>1, <3>1, <3>2 DEF PassInv, AtRow, Linked, Reviewed, LinkMachine, MachineOf
    <3>6. PassInv(q)'
      BY <3>3, <3>4, <3>5 DEF PassInv
    <3>7. pass'[p] = q
      BY <1>1, <3>2
    <3> QED BY <3>6, <3>7, PassBecomes
  <2> QED BY <1>1, <2>1, <2>2
<1>5. Alone'
  BY <1>1 DEF MachineInv, Alone, Idle
<1> QED BY <1>2, <1>4, <1>5, SheetChangesInv DEF MachineInv

LEMMA MoveRowInv ==
    ASSUME TypeInv, MachineInv, Orderly, NEW i \in DOMAIN sheet, NEW j \in DOMAIN sheet, i # j,
           MoveRow(i, j)
    PROVE  MachineInv'
<1>1. SheetActs /\ sheet' = [sheet EXCEPT ![i] = sheet[j], ![j] = sheet[i]]
  BY DEF MoveRow
<1>2. /\ DOMAIN sheet' = DOMAIN sheet
      /\ \A k \in DOMAIN sheet : sheet'[k] = IF k = i THEN sheet[j]
                                             ELSE IF k = j THEN sheet[i] ELSE sheet[k]
  BY <1>1 DEF TypeInv
<1>3. \A k, l \in DOMAIN sheet' : sheet'[k].machine = sheet'[l].machine => k = l
  BY <1>2 DEF MachineInv, SheetInv
<1>4. \A k \in DOMAIN sheet' : GoodRow(sheet'[k])
  BY <1>2 DEF MachineInv, SheetInv
<1>5. ASSUME NEW k \in DOMAIN sheet
      PROVE  \E l \in DOMAIN sheet' :
                /\ sheet'[l].machine = sheet[k].machine /\ sheet'[l].stamp = sheet[k].stamp
                /\ sheet[k].stamp = 0 /\ sheet[k].key # Blank => sheet'[l].key = sheet[k].key
  <2>1. PICK l \in DOMAIN sheet' : sheet'[l] = sheet[k]
    BY <1>2
  <2> QED BY <2>1
<1> QED BY <1>1, <1>3, <1>4, <1>5, SheetActsInv

(* A machine without a row has no link.                                     *)
LEMMA AddRowInv ==
    ASSUME TypeInv, MachineInv, Orderly, NEW i \in 1..Len(sheet) + 1, NEW m \in Machines,
           NEW key \in Keys \cup {Blank}, AddRow(i, m, key)
    PROVE  MachineInv'
<1>1. PICK row : row = [machine |-> m, key |-> key, stamp |-> 0]
  OBVIOUS
<1>2. /\ SheetActs /\ \A j \in DOMAIN sheet : sheet[j].machine # m
      /\ key # Blank => Owner[key] = m
      /\ row.machine = m /\ row.key = key /\ row.stamp = 0
  BY <1>1 DEF AddRow
<1>3. /\ DOMAIN sheet' = 1..Len(sheet) + 1
      /\ \A j \in 1..Len(sheet) + 1 :
            sheet'[j] = IF j < i THEN sheet[j] ELSE IF j = i THEN row ELSE sheet[j - 1]
  BY <1>1, AddedRow
<1>4. GoodRow(row)
  <2>1. \A l \in DOMAIN link : LinkMachine(l) # m
    BY <1>2 DEF MachineInv, LinkInv, OnSheet
  <2> QED BY <1>2, <2>1 DEF GoodRow, SameKey
<1>5. \A j \in DOMAIN sheet' : \/ j = i /\ sheet'[j] = row
                               \/ j < i /\ j \in DOMAIN sheet /\ sheet'[j] = sheet[j]
                               \/ j > i /\ j - 1 \in DOMAIN sheet /\ sheet'[j] = sheet[j - 1]
  <2> SUFFICES ASSUME NEW j \in DOMAIN sheet'
               PROVE  \/ j = i /\ sheet'[j] = row
                      \/ j < i /\ j \in DOMAIN sheet /\ sheet'[j] = sheet[j]
                      \/ j > i /\ j - 1 \in DOMAIN sheet /\ sheet'[j] = sheet[j - 1]
    OBVIOUS
  <2>1. j \in 1..Len(sheet) + 1 /\ DOMAIN sheet = 1..Len(sheet) /\ Len(sheet) \in Nat /\ i \in Nat
    BY <1>3, Counts
  <2>2. CASE j < i
    BY <1>3, <2>1, <2>2
  <2>3. CASE j = i
    BY <1>3, <2>1, <2>3
  <2>4. CASE j > i
    BY <1>3, <2>1, <2>4
  <2> QED BY <2>1, <2>2, <2>3, <2>4
<1>6. \A j, k \in DOMAIN sheet' : sheet'[j].machine = sheet'[k].machine => j = k
  <2> SUFFICES ASSUME NEW j \in DOMAIN sheet', NEW k \in DOMAIN sheet',
                      sheet'[j].machine = sheet'[k].machine
               PROVE  j = k
    OBVIOUS
  <2>1. \A a, b \in DOMAIN sheet : sheet[a].machine = sheet[b].machine => a = b
    BY DEF MachineInv, SheetInv
  <2>2. j \in Nat /\ k \in Nat /\ i \in Nat
    BY <1>3, Counts
  <2>3. CASE j = i
    BY <1>2, <1>5, <2>3
  <2>4. CASE k = i
    BY <1>2, <1>5, <2>4
  <2>5. CASE j # i /\ k # i
    BY <1>5, <2>1, <2>2, <2>5
  <2> QED BY <2>3, <2>4, <2>5
<1>7. \A j \in DOMAIN sheet' : GoodRow(sheet'[j])
  BY <1>4, <1>5 DEF MachineInv, SheetInv
<1>8. ASSUME NEW k \in DOMAIN sheet
      PROVE  \E j \in DOMAIN sheet' :
                /\ sheet'[j].machine = sheet[k].machine /\ sheet'[j].stamp = sheet[k].stamp
                /\ sheet[k].stamp = 0 /\ sheet[k].key # Blank => sheet'[j].key = sheet[k].key
  <2>1. k \in Nat /\ k \in 1..Len(sheet) /\ Len(sheet) \in Nat /\ i \in Nat
    BY Counts
  <2>2. CASE k < i
    <3>1. k \in DOMAIN sheet' /\ sheet'[k] = sheet[k]
      BY <1>3, <2>1, <2>2
    <3> QED BY <3>1
  <2>3. CASE ~(k < i)
    <3>1. PICK j : j = k + 1
      OBVIOUS
    <3>2. j \in 1..Len(sheet) + 1 /\ ~(j < i) /\ j # i /\ j - 1 = k
      BY <2>1, <2>3, <3>1
    <3>3. j \in DOMAIN sheet' /\ sheet'[j] = sheet[k]
      BY <1>3, <3>2
    <3> QED BY <3>3
  <2> QED BY <2>2, <2>3
<1> QED BY <1>2, <1>6, <1>7, <1>8, SheetActsInv

LEMMA EditKeyInv ==
    ASSUME TypeInv, MachineInv, Orderly, NEW i \in DOMAIN sheet, NEW key \in Keys, EditKey(i, key)
    PROVE  MachineInv'
<1>1. /\ SheetActs /\ Owner[key] = sheet[i].machine
      /\ sheet[i].stamp # 0 \/ sheet[i].key = Blank
      /\ sheet' = [sheet EXCEPT ![i] = [sheet[i] EXCEPT !.key = key]]
      /\ key # Blank
  BY LinksAssumption DEF EditKey, Orderly
<1>2. PICK row : row = [sheet[i] EXCEPT !.key = key]
  OBVIOUS
<1>3. row.machine = sheet[i].machine /\ row.key = key /\ row.stamp = sheet[i].stamp
  BY <1>2, RowTypes DEF TypeInv, Row
<1>4. /\ DOMAIN sheet' = DOMAIN sheet
      /\ \A j \in DOMAIN sheet : sheet'[j] = IF j = i THEN row ELSE sheet[j]
  BY <1>1, <1>2 DEF TypeInv
<1>5. GoodRow(row)
  <2>1. GoodRow(sheet[i])
    BY DEF MachineInv, SheetInv
  <2>2. CASE sheet[i].stamp # 0
    BY <1>1, <1>3, <2>1, <2>2 DEF GoodRow
  <2>3. CASE sheet[i].stamp = 0
    <3>1. LinksOf(sheet[i].machine) = {}
      BY <1>1, <2>3, BlankRowUnlinked
    <3> QED BY <1>1, <1>3, <2>3, <3>1 DEF GoodRow, SameKey, LinksOf
  <2> QED BY <2>2, <2>3
<1>6. \A j, k \in DOMAIN sheet' : sheet'[j].machine = sheet'[k].machine => j = k
  BY <1>3, <1>4 DEF MachineInv, SheetInv
<1>7. \A j \in DOMAIN sheet' : GoodRow(sheet'[j])
  BY <1>4, <1>5 DEF MachineInv, SheetInv
<1>8. ASSUME NEW k \in DOMAIN sheet
      PROVE  \E j \in DOMAIN sheet' :
                /\ sheet'[j].machine = sheet[k].machine /\ sheet'[j].stamp = sheet[k].stamp
                /\ sheet[k].stamp = 0 /\ sheet[k].key # Blank => sheet'[j].key = sheet[k].key
  BY <1>1, <1>3, <1>4
<1> QED BY <1>1, <1>6, <1>7, <1>8, SheetActsInv
-----------------------------------------------------------------------------
(* A step that leaves tickets and links alone.                              *)
LEMMA LinksStay == ASSUME UNCHANGED <<ticket, link>> PROVE LinksGrow
BY DEF LinksGrow, LinkMachine, MachineOf

LEMMA PassStepInv ==
    ASSUME TypeInv, MachineInv, NEW p \in Passes, PassStep(p)
    PROVE  MachineInv' /\ LinksGrow
<1>1. CASE ClassifyRow(p)
  BY <1>1, ClassifyRowInv, LinksStay DEF ClassifyRow
<1>2. CASE RecordAdoption(p)
  BY <1>2, RecordAdoptionInv, LinksStay DEF RecordAdoption
<1>3. CASE FindTicket(p)
  BY <1>3, FindTicketInv, LinksStay DEF FindTicket
<1>4. CASE SkipRow(p)
  BY <1>4, SkipRowInv, LinksStay DEF SkipRow
<1>5. CASE ApplyCreate(p) \/ ApplyToTicket(p)
  BY <1>5, ApplyCreateInv, ApplyToTicketInv
<1>6. CASE MergeTicket(p)
  BY <1>6, MergeTicketInv
<1>7. CASE SaveLink(p)
  BY <1>7, SaveLinkInv
<1>8. CASE EndPass(p)
  BY <1>8, EndPassInv, LinksStay DEF EndPass
<1>9. CASE WriteFails(p)
  BY <1>9, WriteFailsInv, LinksStay DEF WriteFails
<1> QED BY <1>1, <1>2, <1>3, <1>4, <1>5, <1>6, <1>7, <1>8, <1>9 DEF PassStep

LEMMA StepInv ==
    ASSUME TypeInv, MachineInv, Orderly, [Next]_vars
    PROVE  MachineInv' /\ LinksGrow
<1>1. CASE ScheduledPass
  <2>1. PICK op \in {"import", "push", "reconcile"} : Load(AutoPass, op)
    BY <1>1 DEF ScheduledPass
  <2> QED BY <2>1, LinksAssumption, LoadInv, LinksStay DEF Load
<1>2. ASSUME NEW p \in Passes, NEW op \in {"import", "push", "reconcile"}, RequestedPass(p, op)
      PROVE  MachineInv' /\ LinksGrow
  BY <1>2, LoadInv, LinksStay DEF RequestedPass, Load
<1>3. ASSUME NEW p \in Passes, PassStep(p) PROVE MachineInv' /\ LinksGrow
  BY <1>3, PassStepInv
<1>4. ASSUME NEW i \in DOMAIN sheet, NEW j \in DOMAIN sheet, i < j, MoveRow(i, j)
      PROVE  MachineInv' /\ LinksGrow
  <2>1. i # j
    BY <1>4, Counts
  <2> QED BY <1>4, <2>1, MoveRowInv, LinksStay DEF MoveRow, SheetActs
<1>5. ASSUME NEW i \in 1..Len(sheet) + 1, NEW m \in Machines, NEW key \in Keys \cup {Blank},
             AddRow(i, m, key)
      PROVE  MachineInv' /\ LinksGrow
  BY <1>5, AddRowInv, LinksStay DEF AddRow, SheetActs
<1>6. ASSUME NEW i \in DOMAIN sheet, NEW key \in Keys, EditKey(i, key)
      PROVE  MachineInv' /\ LinksGrow
  BY <1>6, EditKeyInv, LinksStay DEF EditKey, SheetActs
<1>7. ASSUME NEW key \in Keys, CreateTicket(key) PROVE MachineInv' /\ LinksGrow
  BY <1>7, CreateTicketInv
<1>8. ASSUME NEW t \in DOMAIN ticket, NEW key \in Keys, EditTicketKey(t, key)
      PROVE  MachineInv' /\ LinksGrow
  BY <1>8, EditTicketKeyInv
<1>9. ASSUME NEW a \in review, ResolveAdoption(a) PROVE MachineInv' /\ LinksGrow
  BY <1>9, ResolveAdoptionInv
<1>10. CASE Restart
  BY <1>10, RestartInv, LinksStay DEF Restart
<1>11. ASSUME NEW t \in DOMAIN ticket, Assign(t) PROVE MachineInv' /\ LinksGrow
  BY <1>11, AssignInv
<1>12. CASE UNCHANGED vars
  <2>1. UNCHANGED <<sheet, ticket, link, review, pass>>
    BY <1>12 DEF vars
  <2> QED BY <2>1, StopInv, LinksStay
<1> QED
  BY <1>1, <1>2, <1>3, <1>4, <1>5, <1>6, <1>7, <1>8, <1>9, <1>10, <1>11, <1>12 DEF Next

LEMMA MachinesHold == ASSUME Orderly PROVE Spec => [](TypeInv /\ MachineInv)
<1>1. Init => TypeInv /\ MachineInv
  BY InitType, InitMachineInv
<1>2. (TypeInv /\ MachineInv) /\ [Next]_vars => (TypeInv /\ MachineInv)'
  BY StepType, StepInv
<1> QED BY <1>1, <1>2, PTL DEF Spec

(* No two links name one ticket: an import that finds no link for a row,    *)
(* and an admin who resolves its review, link it to a ticket that no other  *)
(* row has.                                                                 *)
THEOREM TicketsHaveOneLink == ASSUME Orderly PROVE Spec => []OneLinkPerTicket
<1>1. TypeInv /\ MachineInv => OneLinkPerTicket
  <2> SUFFICES ASSUME MachineInv, NEW l \in DOMAIN link, NEW k \in DOMAIN link,
                      link[l].ticket = link[k].ticket
               PROVE  l = k
    BY DEF OneLinkPerTicket
  <2>1. LinkMachine(l) = LinkMachine(k)
    BY DEF LinkMachine
  <2> QED BY <2>1 DEF MachineInv, LinkInv
<1> QED BY <1>1, MachinesHold, PTL

(* Import, which compares the uid that a new link would have, finds the     *)
(* link that Push and Reconcile find by the natural key.                    *)
THEOREM LookupsFindTheSameLink == ASSUME Orderly PROVE Spec => []LookupsAgree
<1>1. TypeInv /\ MachineInv => LookupsAgree
  <2> SUFFICES ASSUME TypeInv, MachineInv, NEW i \in DOMAIN sheet, sheet[i].key # Blank
               PROVE  ResolveLink(sheet[i]) = LinkForImport(sheet[i])
    BY DEF LookupsAgree, Range
  <2>1. sheet[i] \in Row /\ CopyOf(sheet[i])
    BY RowTypes, SheetRowIsCopy DEF TypeInv
  <2> QED BY <2>1, CopyLookup
<1> QED BY <1>1, MachinesHold, PTL
-----------------------------------------------------------------------------
LEMMA LinkMachines ==
    ASSUME TypeInv, MachineInv, NEW l \in DOMAIN link
    PROVE  LinkMachine(l) \in Machines
<1>1. ticket[link[l].ticket] \in Keys
  BY LinkTypes DEF AnyKey, MachineInv
<1> QED BY <1>1, LinksAssumption DEF LinkMachine, MachineOf

LEMMA TicketOfUnlinked ==
    ASSUME TypeInv, MachineInv, NEW m \in Machines, ~Linked(m)
    PROVE  TicketOf[m] = 0
<1>1. ASSUME NEW row \in Range(sheet), row.machine = m PROVE ResolveLink(row) = {}
  BY <1>1, SheetLookup DEF Range, LinksOf, Linked
<1> QED BY <1>1 DEF TicketOf

LEMMA TicketOfLinked ==
    ASSUME TypeInv, MachineInv, NEW l \in DOMAIN link, NEW m \in Machines, LinkMachine(l) = m
    PROVE  TicketOf[m] = link[l].ticket
<1>1. LinksOf(m) = {l}
  BY DEF LinksOf, MachineInv, LinkInv
<1>2. \A row \in Range(sheet) : row.machine = m => ResolveLink(row) = {l}
  BY <1>1, SheetLookup DEF Range
<1>3. PICK row \in Range(sheet) : row.machine = m
  BY DEF MachineInv, LinkInv, OnSheet, Range
<1>4. \E r \in Range(sheet) : r.machine = m /\ ResolveLink(r) # {}
  BY <1>2, <1>3
<1>5. PICK r \in Range(sheet) : r = CHOOSE s \in Range(sheet) : s.machine = m
  BY <1>3
<1>6. r.machine = m
  BY <1>3, <1>5
<1>7. (CHOOSE k \in ResolveLink(r) : TRUE) = l
  BY <1>2, <1>6
<1> QED BY <1>4, <1>5, <1>7 DEF TicketOf

(* The ticket of a machine is that of its link, which is its own.           *)
TicketLaws ==
    /\ \A m \in Machines : ~Linked(m) => TicketOf[m] = 0
    /\ \A l \in DOMAIN link :
          /\ LinkMachine(l) \in Machines /\ TicketOf[LinkMachine(l)] = link[l].ticket
          /\ link[l].ticket \in Nat \ {0}
          /\ \A k \in DOMAIN link : LinkMachine(l) = LinkMachine(k) => l = k

LEMMA MachinesImplyLaws == TypeInv /\ MachineInv => TicketLaws
<1> SUFFICES ASSUME TypeInv, MachineInv PROVE TicketLaws
  OBVIOUS
<1>1. \A m \in Machines : ~Linked(m) => TicketOf[m] = 0
  BY TicketOfUnlinked
<1>2. ASSUME NEW l \in DOMAIN link
      PROVE  /\ LinkMachine(l) \in Machines /\ TicketOf[LinkMachine(l)] = link[l].ticket
             /\ link[l].ticket \in Nat \ {0}
  BY LinkMachines, TicketOfLinked, LinkTypes, Counts
<1>3. \A l, k \in DOMAIN link : LinkMachine(l) = LinkMachine(k) => l = k
  BY DEF MachineInv, LinkInv
<1> QED BY <1>1, <1>2, <1>3 DEF TicketLaws

(* A step leaves every machine its ticket, or gives one to one machine that *)
(* had none, which no other machine has.                                    *)
LEMMA StepRegisters ==
    ASSUME TicketLaws, TicketLaws', LinksGrow
    PROVE  (\E m \in Machines : Registry!Register(m)) \/ UNCHANGED TicketOf
<1>1. ASSUME NEW l \in DOMAIN link
      PROVE  /\ LinkMachine(l) \in Machines /\ TicketOf[LinkMachine(l)] = link[l].ticket
             /\ link[l].ticket # 0
  BY DEF TicketLaws
<1>2. ASSUME NEW l \in DOMAIN link'
      PROVE  /\ LinkMachine(l)' \in Machines /\ TicketOf'[LinkMachine(l)'] = link'[l].ticket
             /\ link'[l].ticket \in Nat \ {0}
             /\ \A k \in DOMAIN link' : LinkMachine(l)' = LinkMachine(k)' => l = k
  BY DEF TicketLaws
<1>3. ASSUME NEW l \in DOMAIN link
      PROVE  /\ l \in DOMAIN link' /\ LinkMachine(l)' = LinkMachine(l)
             /\ link'[l].ticket = link[l].ticket
             /\ TicketOf'[LinkMachine(l)] = TicketOf[LinkMachine(l)]
  <2>1. l \in DOMAIN link' /\ LinkMachine(l)' = LinkMachine(l) /\ link'[l].ticket = link[l].ticket
    BY DEF LinksGrow
  <2>2. TicketOf'[LinkMachine(l)'] = link'[l].ticket
    BY <1>2, <2>1
  <2> QED BY <1>1, <2>1, <2>2
<1>4. \A m \in Machines : ~Linked(m) => TicketOf[m] = 0
  BY DEF TicketLaws
<1>5. \A m \in Machines : (\A l \in DOMAIN link' : LinkMachine(l)' # m) => TicketOf'[m] = 0
  BY DEF TicketLaws, Linked
<1>6. CASE DOMAIN link' = DOMAIN link
  <2>1. ASSUME NEW m \in Machines PROVE TicketOf'[m] = TicketOf[m]
    <3>1. CASE Linked(m)
      BY <1>3, <3>1 DEF Linked
    <3>2. CASE ~Linked(m)
      <4>1. \A l \in DOMAIN link' : LinkMachine(l)' # m
        BY <1>3, <1>6, <3>2 DEF Linked
      <4> QED BY <1>4, <1>5, <3>2, <4>1
    <3> QED BY <3>1, <3>2
  <2>2. TicketOf' = TicketOf
    BY <2>1 DEF TicketOf
  <2> QED BY <2>2
<1>7. ASSUME NEW n, DOMAIN link' = DOMAIN link \cup {n}, n \notin DOMAIN link
      PROVE  \E m \in Machines : Registry!Register(m)
  <2>1. n \in DOMAIN link' /\ \A l \in DOMAIN link : l # n
    BY <1>7
  <2>2. PICK m \in Machines : m = LinkMachine(n)'
    BY <1>2, <2>1
  <2>3. TicketOf'[m] = link'[n].ticket /\ link'[n].ticket \in Nat \ {0}
    BY <1>2, <2>1, <2>2
  <2>4. \A l \in DOMAIN link : LinkMachine(l) # m
    BY <1>2, <1>3, <2>1, <2>2
  <2>5. TicketOf[m] = 0
    BY <1>4, <2>4 DEF Linked
  <2>6. ASSUME NEW k \in Machines PROVE TicketOf[k] # TicketOf'[m]
    <3>1. CASE ~Linked(k)
      BY <1>4, <2>3, <3>1
    <3>2. ASSUME NEW l \in DOMAIN link, LinkMachine(l) = k PROVE TicketOf[k] # TicketOf'[m]
      <4> SUFFICES ASSUME link'[l].ticket = link'[n].ticket PROVE FALSE
        BY <1>1, <1>3, <2>3, <3>2
      <4>1. LinkMachine(l)' = LinkMachine(n)'
        BY DEF LinkMachine
      <4> QED BY <1>3, <2>2, <2>4, <4>1
    <3> QED BY <3>1, <3>2 DEF Linked
  <2>7. ASSUME NEW k \in Machines \ {m} PROVE TicketOf'[k] = TicketOf[k]
    <3>1. CASE Linked(k)
      BY <1>3, <3>1 DEF Linked
    <3>2. CASE ~Linked(k)
      <4>1. \A l \in DOMAIN link : LinkMachine(l)' # k
        BY <1>3, <3>2 DEF Linked
      <4>2. \A l \in DOMAIN link' : LinkMachine(l)' # k
        BY <1>7, <2>2, <4>1
      <4> QED BY <1>4, <1>5, <3>2, <4>2
    <3> QED BY <3>1, <3>2
  <2> QED BY <2>3, <2>5, <2>6, <2>7 DEF Registry!Register
<1> QED BY <1>6, <1>7 DEF LinksGrow

LEMMA LawsHold == ASSUME Orderly PROVE Spec => [](TypeInv /\ MachineInv /\ TicketLaws)
BY MachinesHold, MachinesImplyLaws, PTL

LEMMA InitRegistry == ASSUME Init PROVE Registry!Init
<1>1. DOMAIN link = {}
  BY DEF Init
<1>2. TypeInv /\ MachineInv
  BY InitType, InitMachineInv
<1>3. \A m \in Machines : TicketOf[m] = 0
  BY <1>1, <1>2, TicketOfUnlinked DEF Linked
<1>4. TicketOf = [m \in Machines |-> 0]
  BY <1>3 DEF TicketOf
<1> QED BY <1>4 DEF Registry!Init

(* RowLinks implements RowRegistry: whatever rows of a machine are read,    *)
(* classified, pushed to and moved, it gets a ticket of its own at most     *)
(* once, and keeps it.                                                      *)
THEOREM RowsAreRegistered == ASSUME Orderly PROVE Spec => ImplementsRegistry
<1>1. Init => Registry!Init
  BY InitRegistry
<1>2. /\ TypeInv /\ MachineInv /\ TicketLaws /\ TicketLaws' /\ [Next]_vars
      => [\E m \in Machines : Registry!Register(m)]_TicketOf
  BY StepInv, StepRegisters
<1> QED BY <1>1, <1>2, LawsHold, PTL DEF Spec, ImplementsRegistry, Registry!Spec

(* README of the repository: rows can move without breaking links.  So it   *)
(* is, as long as they do not move under a push or a reconcile.             *)
THEOREM RowsKeepTheirTickets == ASSUME Orderly PROVE Spec => MovedRowsKeepTheirTickets
<1>1. /\ TypeInv /\ MachineInv /\ TicketLaws /\ TicketLaws' /\ [Next]_vars
      => [\A m \in Machines : TicketOf[m] # 0 => TicketOf'[m] = TicketOf[m]]_vars
  BY StepInv, StepRegisters DEF Registry!Register
<1> QED BY <1>1, LawsHold, PTL DEF Spec, MovedRowsKeepTheirTickets
=============================================================================
