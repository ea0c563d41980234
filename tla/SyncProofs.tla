--------------------------- MODULE SyncProofs ---------------------------
(***************************************************************************)
(* Proofs about the two halves of the synchronisation, for every farm,     *)
(* every set of handsets and every bound.                                  *)
(*                                                                         *)
(* SyncFeed: the tables keep their types; a cursor that may be resumed has *)
(* nothing missing below it but what was in flight; and a handset whose    *)
(* cursor a weigher may resume has no money on it.  The last two are about *)
(* the handsets that are not misread, and not spared.                      *)
(*                                                                         *)
(* SyncPush: the books and the registry keep their types; nobody taken off *)
(* the payroll is put back on it but by later work; and what a handset was *)
(* told is done is in the books, if a batch that said so was committed.    *)
(* Its names say Push because the feed's are here too.                     *)
(***************************************************************************)
EXTENDS SyncFeed, SyncPush, Sums, SequenceTheorems

-----------------------------------------------------------------------------
(* Numbers. *)

\* A finite set of natural numbers is bounded.
LEMMA FiniteIsBounded ==
    ASSUME NEW S, IsFiniteSet(S), S \subseteq Nat
    PROVE  \E n \in Nat : \A s \in S : s <= n
  <1> DEFINE Bounded(T) == \E n \in Nat : \A t \in T : t <= n
             Z == {T \in SUBSET S : ~Bounded(T)}
  <1>1. ASSUME Z # {} PROVE FALSE
    <2>1. PICK T \in Z : \A U \in Z : Cardinality(T) <= Cardinality(U)
      BY <1>1, SmallestSubset
    <2>2. T \subseteq S /\ IsFiniteSet(T) /\ ~Bounded(T)
      BY <2>1, FS_Subset
    <2>3. T # {}
      BY <2>2
    <2>4. PICK x \in T : TRUE
      BY <2>3
    <2>5. IsFiniteSet(T \ {x}) /\ Cardinality(T \ {x}) = Cardinality(T) - 1
      BY <2>2, <2>4, FS_RemoveElement
    <2>6. Cardinality(T) \in Nat /\ Cardinality(T \ {x}) \in Nat
      BY <2>2, <2>5, FS_CardinalityType
    <2>7. T \ {x} \notin Z
      BY <2>1, <2>5, <2>6
    <2>8. PICK n \in Nat : \A t \in T \ {x} : t <= n
      BY <2>2, <2>7
    <2>9. x \in Nat
      BY <2>2, <2>4
    <2>10. \A t \in T : t <= n + x
      <3> TAKE t \in T
      <3>1. t \in Nat
        BY <2>2
      <3>2. CASE t = x
        BY <2>8, <2>9, <3>2
      <3>3. CASE t # x
        <4>1. t <= n
          BY <2>8, <3>3
        <4> QED
          BY <2>8, <2>9, <3>1, <4>1
      <3> QED
        BY <3>2, <3>3
    <2>11. n + x \in Nat
      BY <2>8, <2>9
    <2>12. Bounded(T)
      BY <2>10, <2>11
    <2> QED
      BY <2>2, <2>12
  <1> QED
    BY <1>1

\* The largest of some numbers that are bounded is one of them.
LEMMA MaxIsThere ==
    ASSUME NEW S, S \subseteq Nat, S # {}, NEW n \in Nat, \A s \in S : s <= n
    PROVE  Max(S) \in S /\ \A s \in S : s <= Max(S)
  <1> DEFINE T == {n - s : s \in S}
  <1>1. T \subseteq Nat /\ T # {}
    <2>1. \A s \in S : s \in Nat /\ s <= n
      OBVIOUS
    <2>2. \A s \in S : n - s \in Nat
      BY <2>1
    <2> QED
      BY <2>2
  <1> HIDE DEF T
  <1>2. PICK k \in T : \A t \in T : k <= t
    BY <1>1, LeastNumber
  <1>3. PICK x \in S : k = n - x
    BY <1>2 DEF T
  <1>4. \A y \in S : n - y \in T
    BY DEF T
  <1>5. \A y \in S : x >= y
    BY <1>2, <1>3, <1>4
  <1>6. Max(S) \in S /\ \A y \in S : Max(S) >= y
    BY <1>5 DEF Max
  <1> QED
    BY <1>6

-----------------------------------------------------------------------------
(* The feed. *)

\* What a statement sees lies among the seqs that were drawn.
LEMMA FeedBounds ==
    ASSUME TypeOK
    PROVE  /\ seq \in Nat /\ seq <= MaxSeq
           /\ Visible \subseteq 1..seq /\ InFlight \subseteq 1..seq
           /\ Newest \in 0..seq
           /\ \A s \in Visible : s <= Newest
  <1>1. seq \in Nat /\ seq <= MaxSeq /\ Visible \subseteq 1..seq /\ InFlight \subseteq 1..seq
    BY BoundAssumption DEF TypeOK, Visible, InFlight
  <1>2. Newest \in 0..seq /\ \A s \in Visible : s <= Newest
    <2>1. CASE Visible = {}
      BY <1>1, <2>1 DEF Newest
    <2>2. CASE Visible # {}
      <3>1. Visible \subseteq Nat /\ \A s \in Visible : s <= seq
        BY <1>1
      <3>2. Max(Visible) \in Visible /\ \A s \in Visible : s <= Max(Visible)
        BY <1>1, <2>2, <3>1, MaxIsThere
      <3>3. Newest = Max(Visible)
        BY <2>2 DEF Newest
      <3>4. Newest \in 1..seq
        BY <1>1, <3>2, <3>3
      <3> QED
        BY <1>1, <3>2, <3>3, <3>4
    <2> QED
      BY <2>1, <2>2
  <1> QED
    BY <1>1, <1>2

\* A page starts at the cursor and has no holes: whatever is visible between the
\* cursor and the last seq of the page is on it.
LEMMA PageIsWhole ==
    ASSUME TypeOK, NEW c \in Nat, c <= seq
    PROVE  /\ Feed(c) \subseteq Visible
           /\ Max(Feed(c) \cup {c}) \in c..seq
           /\ \A s \in Visible :
                 (s > c /\ s <= Max(Feed(c) \cup {c})) => s \in Feed(c)
  <1> DEFINE above == {s \in Visible : s > c /\ s < Horizon(c)}
             below(s) == {t \in above : t < s}
             next == Max(Feed(c) \cup {c})
  <1>1. Horizon(c) = Newest + 1
    BY DEF Horizon, Visible
  <1>2. above = {s \in Visible : s > c}
    BY <1>1, FeedBounds
  <1>3. above \subseteq 1..seq /\ IsFiniteSet(above)
    <2>1. above \subseteq 1..seq
      BY <1>2, FeedBounds
    <2>2. IsFiniteSet(1..seq)
      BY FeedBounds, FS_Interval
    <2> QED
      BY <2>1, <2>2, FS_Subset
  <1>4. Feed(c) = {s \in above : Cardinality(below(s)) < PageSize}
    BY DEF Feed
  <1> HIDE DEF above
  <1>5. Feed(c) \subseteq above
    BY <1>4
  <1>10. seq \in Nat /\ \A s \in Feed(c) \cup {c} : s \in Nat /\ s <= seq
    <2>1. seq \in Nat
      BY FeedBounds
    <2>2. \A s \in Feed(c) : s \in 1..seq
      BY <1>3, <1>5
    <2> QED
      BY <2>1, <2>2
  <1>6. next \in Feed(c) \cup {c} /\ \A s \in Feed(c) \cup {c} : s <= next
    <2>1. Feed(c) \cup {c} \subseteq Nat /\ \A s \in Feed(c) \cup {c} : s <= seq
      BY <1>10
    <2>2. seq \in Nat
      BY FeedBounds
    <2> HIDE DEF next
    <2> QED
      BY <2>1, <2>2, MaxIsThere DEF next
  <1> HIDE DEF next
  <1>7. ASSUME NEW s \in Visible, s > c, s <= next PROVE s \in Feed(c)
    <2>1. s \in above
      BY <1>2, <1>7
    <2>2. next \in Feed(c)
      BY <1>6, <1>7, <1>3, <1>5, <2>1
    <2>3. below(s) \subseteq below(next)
      <3>1. \A t \in above : t \in Int
        BY <1>3
      <3>2. s \in Int /\ next \in Int
        BY <1>5, <2>1, <2>2, <3>1
      <3> QED
        BY <1>7, <3>1, <3>2
    <2>4. IsFiniteSet(below(next)) /\ below(next) \subseteq above
      BY <1>3, FS_Subset
    <2>5. IsFiniteSet(below(s)) /\ Cardinality(below(s)) <= Cardinality(below(next))
      BY <2>3, <2>4, FS_Subset
    <2>6. Cardinality(below(s)) \in Nat /\ Cardinality(below(next)) \in Nat
      BY <2>4, <2>5, FS_CardinalityType
    <2>7. Cardinality(below(next)) < PageSize
      BY <1>4, <2>2
    <2>8. Cardinality(below(s)) < PageSize
      BY <2>5, <2>6, <2>7, BoundAssumption
    <2> QED
      BY <1>4, <2>1, <2>8
  <1>8. next \in c..seq
    BY <1>6, <1>10
  <1>9. Feed(c) \subseteq Visible
    BY <1>2, <1>5
  <1> QED
    BY <1>7, <1>8, <1>9 DEF next

-----------------------------------------------------------------------------
(* The registry. *)

\* What a reader may be told.
Order == [reason : Reason \cup {"none"}, purge : BOOLEAN]

LEMMA ReaderRows ==
    ASSUME TypeOK, NEW a \in Account, NEW d \in Device
    PROVE  /\ readers[a][d] \in Reader \cup {NoReader}
           /\ readers[a][d].pending \in Reason \cup {"none"}
           /\ readers[a][d].purge \in BOOLEAN
           /\ d \in Registered(a) <=> readers[a][d] # NoReader
  <1>1. readers[a][d] \in Reader \cup {NoReader}
    BY DEF TypeOK
  <1>2. CASE readers[a][d] \in Reader
    BY <1>2 DEF Reader, Registered
  <1>3. CASE readers[a][d] = NoReader
    BY <1>3 DEF NoReader, Registered
  <1> QED
    BY <1>1, <1>2, <1>3

LEMMA OwnOrders ==
    ASSUME NEW own, own.pending \in Reason \cup {"none"}, own.purge \in BOOLEAN,
           NEW r \in Role
    PROVE  /\ OwnReader(own, r) \in Order
           /\ OwnReader(own, r).reason = "none"
                => own.pending = "none" /\ own.role = r /\ ~OwnReader(own, r).purge
           /\ own.pending = "none" /\ own.role = r => OwnReader(own, r) = NothingOwed
  <1>2. CASE own.pending # "none"
    BY <1>2 DEF OwnReader, Owes, Order
  <1>3. CASE own.pending = "none" /\ own.role # r
    <2>1. Demotes(own.role, r) \in BOOLEAN
      BY DEF Demotes
    <2>2. OwnReader(own, r) = Owes("role_changed", Demotes(own.role, r))
      BY <1>3 DEF OwnReader
    <2> HIDE DEF Demotes
    <2> QED
      BY <1>3, <2>1, <2>2 DEF Owes, Order, Reason
  <1>4. CASE own.pending = "none" /\ own.role = r
    <2>1. OwnReader(own, r) = NothingOwed
      BY <1>4 DEF OwnReader
    <2> QED
      BY <1>4, <2>1 DEF NothingOwed, Owes, Order
  <1> QED
    BY <1>2, <1>3, <1>4

LEMMA SiblingOrders ==
    ASSUME TypeOK, NEW a \in Account, NEW r \in Role
    PROVE  /\ Sibling(a, r) \in Order
           /\ Sibling(a, r).reason = "none" => ~Sibling(a, r).purge
  <1> DEFINE owing == {d \in Registered(a) : readers[a][d].pending # "none"}
             moved == {d \in Registered(a) : readers[a][d].role # r}
             first == Min(owing \cup moved)
             reason == IF owing # {} THEN readers[a][Max(owing)].pending ELSE "role_changed"
             purge == \/ \E d \in owing : readers[a][d].purge
                      \/ first \notin owing /\ Demotes(readers[a][first].role, r)
  <1>1. owing \subseteq Device
    BY DEF Registered
  <1>2. Sibling(a, r) = IF owing \cup moved = {} THEN NothingOwed ELSE Owes(reason, purge)
    BY DEF Sibling
  <1>3. reason \in Reason
    <2>1. CASE owing # {}
      <3>1. owing \subseteq Nat /\ IsFiniteSet(owing)
        BY <1>1, DeviceAssumption, FS_Subset
      <3>2. PICK n \in Nat : \A s \in owing : s <= n
        BY <3>1, FiniteIsBounded
      <3> HIDE DEF owing
      <3>3. Max(owing) \in owing
        BY <2>1, <3>1, <3>2, MaxIsThere
      <3>4. \A d \in owing : readers[a][d].pending \in Reason
        BY <1>1, ReaderRows DEF owing
      <3> QED
        BY <2>1, <3>3, <3>4
    <2>2. CASE owing = {}
      BY <2>2 DEF Reason
    <2> QED
      BY <2>1, <2>2
  <1>4. purge \in BOOLEAN
    OBVIOUS
  <1>5. "none" \notin Reason
    BY DEF Reason
  <1> HIDE DEF owing, moved, reason, purge
  <1> QED
    BY <1>2, <1>3, <1>4, <1>5 DEF Owes, NothingOwed, Order

\* What a reader owes is an order or nothing, nothing does not drop the money, and
\* one with a row of its own that owes nothing was last served under the role that
\* asks.
LEMMA Orders ==
    ASSUME TypeOK, NEW a \in Account, NEW d \in Device, NEW r \in Role, NEW c \in Nat
    PROVE  /\ Decide(a, d, r, c) \in Order
           /\ Decide(a, d, r, c).reason = "none" => ~Decide(a, d, r, c).purge
           /\ d \in Registered(a) /\ Decide(a, d, r, c).reason = "none"
                => /\ readers[a][d].pending = "none"
                   /\ readers[a][d].role = r
  <1> DEFINE others == \E b \in Account \ {a} : d \in Registered(b)
  <1>1. CASE d \in Registered(a)
    <2>1. Decide(a, d, r, c) = OwnReader(readers[a][d], r)
      BY <1>1 DEF Decide
    <2> QED
      BY <2>1, OwnOrders, ReaderRows
  <1>2. CASE d \notin Registered(a) /\ c = 0
    BY <1>2 DEF Decide, NothingOwed, Owes, Order
  <1>3. CASE d \notin Registered(a) /\ c > 0 /\ others
    BY <1>3 DEF Decide, Owes, Order, Reason
  <1>4. CASE d \notin Registered(a) /\ c > 0 /\ ~others /\ Registered(a) = {}
    <2>1. Decide(a, d, r, c) = Owes("device_unknown", ~SeesMoney(r))
      BY <1>4 DEF Decide
    <2>2. (~SeesMoney(r)) \in BOOLEAN
      OBVIOUS
    <2> HIDE DEF SeesMoney
    <2> QED
      BY <1>4, <2>1, <2>2 DEF Owes, Order, Reason
  <1>5. CASE d \notin Registered(a) /\ c > 0 /\ ~others /\ Registered(a) # {}
    <2>1. Decide(a, d, r, c) = Sibling(a, r)
      BY <1>5 DEF Decide
    <2> QED
      BY <1>5, <2>1, SiblingOrders
  <1> QED
    BY <1>1, <1>2, <1>3, <1>4, <1>5

\* The caller's row after the order has been recorded.
Unserved(r, c, order) ==
    IF c = 0 THEN [role |-> r, pending |-> "none", purge |-> FALSE]
    ELSE [role |-> r, pending |-> order.reason, purge |-> order.purge]

\* Somebody else's row after the order has been recorded.
MarkedRow(old, r, order) ==
    IF old = NoReader \/ order.reason # "role_changed" THEN old
    ELSE [role |-> r,
          pending |-> IF old.pending = "none" THEN "role_changed" ELSE old.pending,
          purge |-> old.purge \/ order.purge]

\* Whoever is marked is left with an order that stands.
LEMMA MarkedRows ==
    ASSUME TypeOK, NEW a \in Account, NEW x \in Device, NEW r \in Role, NEW order \in Order
    PROVE  LET old == readers[a][x]
               new == MarkedRow(old, r, order)
           IN  /\ new \in Reader \cup {NoReader}
               /\ \/ new = old
                  \/ /\ old # NoReader /\ new # NoReader
                     /\ order.reason = "role_changed"
                     /\ new.role = r
                     /\ new.pending # "none"
                     /\ new.purge = (old.purge \/ order.purge)
  <1> DEFINE old == readers[a][x]
  <1>1. old \in Reader \cup {NoReader} /\ old.pending \in Reason \cup {"none"}
           /\ old.purge \in BOOLEAN
    BY ReaderRows
  <1> HIDE DEF old
  <1>2. CASE old = NoReader \/ order.reason # "role_changed"
    BY <1>1, <1>2 DEF old, MarkedRow
  <1>3. CASE old # NoReader /\ order.reason = "role_changed"
    <2> DEFINE p == IF old.pending = "none" THEN "role_changed" ELSE old.pending
               q == old.purge \/ order.purge
               new == MarkedRow(old, r, order)
    <2>1. new = [role |-> r, pending |-> p, purge |-> q]
      BY <1>3 DEF MarkedRow
    <2>2. p \in Reason /\ p # "none"
      BY <1>1 DEF Reason
    <2>3. q \in BOOLEAN
      OBVIOUS
    <2> HIDE DEF p, q, new
    <2>4. new \in Reader /\ new.role = r /\ new.pending = p /\ new.purge = q
      BY <2>1, <2>2, <2>3 DEF Reader
    <2>5. NoReader.pending = "none"
      BY DEF NoReader
    <2> QED
      BY <1>3, <2>2, <2>4, <2>5 DEF old, new, q
  <1> QED
    BY <1>2, <1>3

\* Recording an order writes the caller's row, and otherwise only rows of his
\* account.
LEMMA CheckedRows ==
    ASSUME TypeOK, NEW a \in Account, NEW d \in Device, NEW r \in Role, NEW c \in Nat,
           NEW order \in Order
    PROVE  LET new == Checked(a, d, r, c, order)
           IN  /\ new \in [Account -> [Device -> Reader \cup {NoReader}]]
               /\ new[a][d] = Unserved(r, c, order)
               /\ \A b \in Account : b # a => new[b] = readers[b]
               /\ \A x \in Device : x # d =>
                     new[a][x] = MarkedRow(readers[a][x], r, order)
  <1> DEFINE new == Checked(a, d, r, c, order)
  <1>1. new = [readers EXCEPT ![a] = [x \in Device |->
                  IF x = d THEN Unserved(r, c, order) ELSE MarkedRow(readers[a][x], r, order)]]
    BY DEF Checked, Unserved, MarkedRow
  <1>2. Unserved(r, c, order) \in Reader
    BY DEF Unserved, Order, Reader
  <1>3. \A x \in Device : MarkedRow(readers[a][x], r, order) \in Reader \cup {NoReader}
    BY MarkedRows
  <1>4. readers \in [Account -> [Device -> Reader \cup {NoReader}]]
    BY DEF TypeOK
  <1> HIDE DEF new
  <1> QED
    BY <1>1, <1>2, <1>3, <1>4 DEF new

\* Serving a reader settles its row and nothing else of what was recorded.
LEMMA AdvancedRows ==
    ASSUME NEW checked \in [Account -> [Device -> Reader \cup {NoReader}]],
           NEW a \in Account, NEW d \in Device, NEW r \in Role
    PROVE  LET new == Advanced(checked, a, d, r)
           IN  /\ new \in [Account -> [Device -> Reader \cup {NoReader}]]
               /\ new[a][d] = ServedUnder(r)
               /\ \A b \in Account : b # a => new[b] = checked[b]
               /\ \A x \in Device : x # d => new[a][x] = checked[a][x]
  <1>1. ServedUnder(r) \in Reader
    BY DEF ServedUnder, Reader
  <1>2. Advanced(checked, a, d, r) = [checked EXCEPT ![a][d] = ServedUnder(r)]
    BY DEF Advanced, ServedUnder
  <1> HIDE DEF ServedUnder
  <1> QED
    BY <1>1, <1>2

-----------------------------------------------------------------------------
(* What the writes do. *)

\* A commit publishes what its transaction wrote: a row becomes the last version
\* of it that the transaction drew, if that is newer.
LEMMA CommitTable ==
    ASSUME TypeOK, NEW t \in Tx, Commit(t), NEW row \in Row
    PROVE  /\ table'[row] \in {s \in Own(t) : log[s].row = row} \cup {table[row]}
           /\ \A s \in Own(t) : log[s].row = row => s <= table'[row]
           /\ table[row] <= table'[row]
  <1> DEFINE S == {s \in Own(t) : log[s].row = row} \cup {table[row]}
  <1>1. table'[row] = Max(S)
    BY DEF Commit
  <1>2. seq \in Nat /\ table[row] \in 0..seq /\ Own(t) \subseteq 1..seq
    BY DEF TypeOK, Own
  <1>3. \A s \in S : s \in 0..seq
    BY <1>2
  <1>4. S \subseteq Nat /\ S # {} /\ \A s \in S : s <= seq
    BY <1>2, <1>3
  <1> HIDE DEF S
  <1>5. Max(S) \in S /\ \A s \in S : s <= Max(S)
    BY <1>2, <1>4, MaxIsThere
  <1> QED
    BY <1>1, <1>5 DEF S

\* The feed, and what a statement sees of it, after each kind of write.
LEMMA WriteLog ==
    ASSUME TypeOK, NEW t \in Tx, NEW row \in Row, Write(t, row)
    PROVE  /\ seq + 1 \notin DOMAIN log
           /\ Visible' = Visible
           /\ InFlight' = InFlight \cup {seq + 1}
           /\ \A s \in Visible : log'[s] = log[s]
  <1>1. seq \in Nat /\ seq + 1 \notin DOMAIN log
    BY DEF TypeOK
  <1>2. DOMAIN log' = DOMAIN log \cup {seq + 1}
    BY DEF Write
  <1>3. \A s \in DOMAIN log : log'[s] = log[s]
    BY <1>1 DEF Write
  <1>4. log'[seq + 1].by = t /\ t # Committed
    BY CommittedAssumption DEF Write
  <1> QED
    BY <1>1, <1>2, <1>3, <1>4 DEF Visible, InFlight

LEMMA CommitLog ==
    ASSUME TypeOK, NEW t \in Tx, Commit(t)
    PROVE  /\ Own(t) \subseteq InFlight
           /\ Visible' = Visible \cup Own(t)
           /\ InFlight' = InFlight \ Own(t)
           /\ \A s \in DOMAIN log : log'[s].row = log[s].row
  <1>1. t # Committed
    BY CommittedAssumption
  <1>2. DOMAIN log' = DOMAIN log
    BY DEF Commit
  <1>3. \A s \in DOMAIN log : s \notin Own(t) => log'[s] = log[s]
    BY DEF Commit
  <1>4. \A s \in Own(t) : s \in DOMAIN log /\ log[s].by = t
    BY DEF Own
  <1>5. \A s \in Own(t) : log'[s].by = Committed /\ log'[s].row = log[s].row
    <2> TAKE s \in Own(t)
    <2>1. log[s] \in [row : Row, by : Tx \cup {Committed}]
      BY <1>4 DEF TypeOK
    <2>2. log'[s] = [log[s] EXCEPT !.by = Committed]
      BY <1>4 DEF Commit
    <2> QED
      BY <2>1, <2>2
  <1> QED
    BY <1>1, <1>2, <1>3, <1>4, <1>5 DEF Visible, InFlight

\* Rows leave the feed only when their transaction is rolled back or when a newer
\* row of the same entity is there.
LEMMA RollbackLog ==
    ASSUME TypeOK, NEW t \in Tx, Rollback(t)
    PROVE  /\ Visible' = Visible
           /\ InFlight' \subseteq InFlight
           /\ \A s \in Visible : log'[s] = log[s]
  <1>1. t # Committed
    BY CommittedAssumption
  <1>2. DOMAIN log' = DOMAIN log \ Own(t)
    BY DEF Rollback
  <1>3. \A s \in DOMAIN log \ Own(t) : log'[s] = log[s]
    BY DEF Rollback
  <1> QED
    BY <1>1, <1>2, <1>3 DEF Visible, InFlight, Own

LEMMA PruneLog ==
    ASSUME TypeOK, PruneSync
    PROVE  /\ Visible' \subseteq Visible
           /\ \A s \in Visible : ~Superseded(s) => s \in Visible'
           /\ InFlight' = InFlight
           /\ \A s \in Visible' : log'[s] = log[s]
           /\ UNCHANGED <<seq, table, readers, role, phone, left, overtaken, misread, spared>>
           /\ DOMAIN log' \subseteq DOMAIN log
           /\ \A s \in DOMAIN log' : log'[s] = log[s]
  <1>1. PICK old \in SUBSET {s \in Visible : Superseded(s)} :
            /\ log' = [s \in DOMAIN log \ old |-> log[s]]
            /\ UNCHANGED <<seq, table, readers, role, phone, left, overtaken, misread, spared>>
    BY DEF PruneSync, history
  <1>2. DOMAIN log' = DOMAIN log \ old
    BY <1>1
  <1>3. \A s \in DOMAIN log \ old : log'[s] = log[s]
    BY <1>1
  <1>4. old \subseteq Visible
    OBVIOUS
  <1> HIDE DEF Superseded
  <1> QED
    BY <1>1, <1>2, <1>3, <1>4 DEF Visible, InFlight

-----------------------------------------------------------------------------
(* What a pull does. *)

\* A pull is about the handset and the account signed in on it.
LEMMA WhoPulls ==
    ASSUME TypeOK, NEW d \in Device
    PROVE  /\ phone[d] \in Phone
           /\ phone[d].account \in Account
           /\ phone[d].cursor \in Nat /\ phone[d].cursor <= MaxSeq
           /\ phone[d].book \in [Row -> 0..MaxSeq]
           /\ role[phone[d].account] \in Role
  BY BoundAssumption DEF TypeOK, Phone

\* A handset that is sent back to 0, or that learns nothing.
LEMMA PullOutOfRangePhone ==
    ASSUME TypeOK, NEW d \in Device, NEW arrives \in BOOLEAN, PullOutOfRange(d, arrives)
    PROVE  /\ phone' \in [Device -> Phone]
           /\ \A x \in Device : x # d => phone'[x] = phone[x]
           /\ phone'[d].account = phone[d].account
           /\ phone'[d].book = phone[d].book
           /\ IF arrives THEN phone'[d].cursor = 0 ELSE phone'[d] = phone[d]
           /\ UNCHANGED <<seq, table, log, readers, role, overtaken, misread>>
  <1>1. phone \in [Device -> Phone] /\ phone[d] \in Phone
    BY DEF TypeOK
  <1>2. CASE ~arrives
    BY <1>1, <1>2 DEF PullOutOfRange
  <1>3. CASE arrives
    <2> DEFINE p == [phone[d] EXCEPT !.cursor = 0]
    <2>1. /\ p \in Phone /\ p.account = phone[d].account
          /\ p.cursor = 0 /\ p.book = phone[d].book
      <3>1. 0 \in 0..MaxSeq
        BY BoundAssumption
      <3> QED
        BY <1>1, <3>1 DEF Phone
    <2>2. phone' = [phone EXCEPT ![d] = p]
      BY <1>3 DEF PullOutOfRange
    <2> HIDE DEF p
    <2> QED
      BY <1>1, <2>1, <2>2 DEF PullOutOfRange
  <1> QED
    BY <1>2, <1>3

\* What is left of a book, and what a page makes of it, are books.
LEMMA BooksStay ==
    ASSUME TypeOK, NEW book \in [Row -> 0..MaxSeq], NEW purge \in BOOLEAN,
           NEW page, NEW r \in Role
    PROVE  /\ Dropped(book, purge) \in [Row -> 0..MaxSeq]
           /\ Applied(book, page, r) \in [Row -> 0..MaxSeq]
  <1>1. \A row \in Row : table[row] \in 0..MaxSeq
    <2> TAKE row \in Row
    <2>1. table[row] \in 0..seq /\ seq \in 0..MaxSeq
      BY DEF TypeOK
    <2> QED
      BY <2>1, BoundAssumption
  <1>2. 0 \in 0..MaxSeq
    BY BoundAssumption
  <1> QED
    BY <1>1, <1>2 DEF Dropped, Applied

LEMMA PullReplayPhone ==
    ASSUME TypeOK, NEW d \in Device, NEW commits \in BOOLEAN, NEW arrives \in BOOLEAN,
           PullReplay(d, commits, arrives)
    PROVE  /\ phone' \in [Device -> Phone]
           /\ \A x \in Device : x # d => phone'[x] = phone[x]
           /\ phone'[d].account = phone[d].account
           /\ IF arrives
              THEN /\ phone'[d].cursor = 0
                   /\ phone'[d].book =
                          Dropped(phone[d].book,
                                  Decide(phone[d].account, d, role[phone[d].account],
                                         phone[d].cursor).purge)
              ELSE phone'[d] = phone[d]
  <1> DEFINE a == phone[d].account
             order == Decide(a, d, role[a], phone[d].cursor)
             kept == Dropped(phone[d].book, order.purge)
  <1>1. phone \in [Device -> Phone] /\ phone[d] \in Phone
    BY DEF TypeOK
  <1>2. CASE ~arrives
    BY <1>1, <1>2 DEF PullReplay
  <1>3. CASE arrives
    <2>1. kept \in [Row -> 0..MaxSeq]
      <3>1. order \in Order
        BY WhoPulls, Orders
      <3>2. order.purge \in BOOLEAN
        BY <3>1 DEF Order
      <3> HIDE DEF order
      <3> QED
        BY <3>2, WhoPulls, BooksStay
    <2>2. phone' = [phone EXCEPT ![d].cursor = 0, ![d].book = kept]
      BY <1>3 DEF PullReplay
    <2> HIDE DEF kept
    <2> DEFINE p == [phone[d] EXCEPT !.cursor = 0]
               q == [p EXCEPT !.book = kept]
    <2>3. p \in Phone /\ p.account = phone[d].account /\ p.cursor = 0
      <3>1. 0 \in 0..MaxSeq
        BY BoundAssumption
      <3> QED
        BY <1>1, <3>1 DEF Phone
    <2>4. phone' = [phone EXCEPT ![d] = q]
      BY <1>1, <2>2
    <2> HIDE DEF p
    <2>5. q \in Phone /\ q.account = p.account /\ q.cursor = p.cursor /\ q.book = kept
      BY <2>1, <2>3 DEF Phone
    <2> HIDE DEF q
    <2>6. /\ phone' \in [Device -> Phone]
          /\ \A x \in Device : x # d => phone'[x] = phone[x]
          /\ phone'[d].account = phone[d].account
          /\ phone'[d].cursor = 0 /\ phone'[d].book = kept
      BY <1>1, <2>3, <2>4, <2>5
    <2> QED
      BY <1>3, <2>6 DEF kept
  <1> QED
    BY <1>2, <1>3

\* An answer that arrives is applied to the book, and its cursor kept.
LEMMA PullServePhone ==
    ASSUME TypeOK, NEW d \in Device, NEW commits \in BOOLEAN, NEW arrives \in BOOLEAN,
           PullServe(d, commits, arrives),
           phone[d].cursor <= seq
    PROVE  LET a == phone[d].account
               c == phone[d].cursor
               order == Decide(a, d, role[a], c)
               page == Feed(c)
           IN  /\ phone' \in [Device -> Phone]
               /\ \A x \in Device : x # d => phone'[x] = phone[x]
               /\ phone'[d].account = phone[d].account
               /\ ~arrives => phone'[d] = phone[d]
               /\ arrives => /\ phone'[d].cursor = Max(page \cup {c})
                             /\ phone'[d].book =
                                    Applied(Dropped(phone[d].book, order.purge), page, role[a])
  <1> DEFINE a == phone[d].account
             c == phone[d].cursor
             order == Decide(a, d, role[a], c)
             page == Feed(c)
             next == Max(page \cup {c})
             book == Applied(Dropped(phone[d].book, order.purge), page, role[a])
  <1>1. phone \in [Device -> Phone] /\ phone[d] \in Phone
    BY DEF TypeOK
  <1>2. CASE ~arrives
    BY <1>1, <1>2 DEF PullServe
  <1>3. CASE arrives
    <2>1. book \in [Row -> 0..MaxSeq]
      <3>1. order \in Order
        BY WhoPulls, Orders
      <3>2. order.purge \in BOOLEAN
        BY <3>1 DEF Order
      <3> HIDE DEF order, page
      <3>3. Dropped(phone[d].book, order.purge) \in [Row -> 0..MaxSeq]
        BY <3>2, WhoPulls, BooksStay
      <3> QED
        BY <3>3, WhoPulls, BooksStay
    <2>2. next \in 0..MaxSeq
      <3>1. c \in Nat /\ c <= seq /\ seq \in Nat /\ seq <= MaxSeq
        BY WhoPulls, FeedBounds
      <3>2. next \in c..seq
        BY <3>1, PageIsWhole
      <3> HIDE DEF next, c
      <3> QED
        BY <3>1, <3>2, BoundAssumption
    <2>3. phone' = [phone EXCEPT ![d].cursor = next, ![d].book = book]
      BY <1>3 DEF PullServe
    <2> HIDE DEF book, next
    <2> DEFINE p == [phone[d] EXCEPT !.cursor = next]
               q == [p EXCEPT !.book = book]
    <2>4. p \in Phone /\ p.account = phone[d].account /\ p.cursor = next
      BY <1>1, <2>2 DEF Phone
    <2>5. phone' = [phone EXCEPT ![d] = q]
      BY <1>1, <2>3
    <2> HIDE DEF p
    <2>6. q \in Phone /\ q.account = p.account /\ q.cursor = p.cursor /\ q.book = book
      BY <2>1, <2>4 DEF Phone
    <2> HIDE DEF q
    <2>7. /\ phone' \in [Device -> Phone]
          /\ \A x \in Device : x # d => phone'[x] = phone[x]
          /\ phone'[d].account = phone[d].account
          /\ phone'[d].cursor = next /\ phone'[d].book = book
      BY <1>1, <2>4, <2>5, <2>6
    <2> QED
      BY <1>3, <2>7 DEF book, next
  <1> QED
    BY <1>2, <1>3

-----------------------------------------------------------------------------
(* Types. *)

\* The types, and that no cursor is ahead of what was drawn: an answer is about
\* what was there to be answered.
Bounded == \A d \in Device : phone[d].cursor <= seq
FeedTyped == TypeOK /\ Bounded

LEMMA FeedTypedInit == Init => FeedTyped
  <1> SUFFICES ASSUME NEW f \in Farm, InitOn(f) PROVE FeedTyped
    BY DEF Init
  <1> DEFINE n == Len(f.feed)
  <1>0. /\ f.holder \in [Device -> Account] /\ f.role \in [Account -> Role]
        /\ f.legacy \subseteq Device /\ f.feed \in Seq(Row)
        /\ f.turns \in Nat /\ f.logins \in Nat /\ f.fails \in Nat
    BY FarmAssumption
  <1>1. n \in Nat /\ n <= MaxSeq /\ MaxSeq \in Nat
    BY <1>0, FarmAssumption, BoundAssumption
  <1>2. seq = n /\ seq \in 0..MaxSeq
    BY <1>1 DEF InitOn
  <1>3. table \in [Row -> 0..seq]
    <2>1. ASSUME NEW row \in Row
          PROVE  Max({s \in 1..n : f.feed[s] = row} \cup {0}) \in 0..n
      <3> DEFINE S == {s \in 1..n : f.feed[s] = row} \cup {0}
      <3> HIDE DEF n
      <3>1. \A s \in S : s \in 0..n
        BY <1>1
      <3>2. S \subseteq Nat /\ S # {} /\ \A s \in S : s <= n
        BY <1>1, <3>1
      <3> HIDE DEF S
      <3>3. Max(S) \in S
        BY <1>1, <3>2, MaxIsThere
      <3>4. Max(S) \in 0..n
        BY <3>1, <3>3
      <3> QED
        BY <3>4 DEF S
    <2> QED
      BY <1>2, <2>1 DEF InitOn
  <1>4. /\ DOMAIN log \subseteq 1..seq
        /\ \A s \in DOMAIN log : log[s] \in [row : Row, by : Tx \cup {Committed}]
    <2>1. DOMAIN log = 1..n
      BY DEF InitOn
    <2>2. \A s \in 1..n : f.feed[s] \in Row
      BY <1>0
    <2>3. \A s \in 1..n : log[s] = [row |-> f.feed[s], by |-> Committed]
      BY DEF InitOn
    <2> HIDE DEF n
    <2>4. \A s \in 1..n : log[s] \in [row : Row, by : Tx \cup {Committed}]
      <3> TAKE s \in 1..n
      <3> DEFINE named == f.feed[s]
      <3>1. named \in Row /\ log[s] = [row |-> named, by |-> Committed]
        BY <2>2, <2>3
      <3> HIDE DEF named
      <3> QED
        BY <3>1
    <2> QED
      BY <1>2, <2>1, <2>4
  <1>5. /\ readers \in [Account -> [Device -> Reader \cup {NoReader}]]
        /\ role \in [Account -> Role]
        /\ overtaken \in [Device -> SUBSET (1..MaxSeq)]
        /\ misread \subseteq Device /\ spared \subseteq Device
    BY <1>0 DEF InitOn
  <1>6. left \in [turns : Nat, logins : Nat, fails : Nat]
    BY <1>0 DEF InitOn
  <1>7. phone \in [Device -> Phone] /\ Bounded
    <2>1. \A row \in Row : table[row] \in 0..MaxSeq /\ 0 \in 0..MaxSeq
      <3> TAKE row \in Row
      <3>1. table[row] \in 0..seq
        BY <1>3
      <3> QED
        BY <1>1, <1>2, <3>1
    <2>2. \A d \in Device : f.holder[d] \in Account
      BY <1>0
    <2>3. n \in 0..MaxSeq /\ 0 \in 0..MaxSeq /\ 0 <= seq /\ n <= seq
      BY <1>1, <1>2
    <2> DEFINE c(d) == IF d \in f.legacy THEN n ELSE 0
               b(d) == [row \in Row |-> IF d \in f.legacy /\ MaySee(f.role[f.holder[d]], row)
                                        THEN table[row] ELSE 0]
    <2>4. phone = [d \in Device |-> [account |-> f.holder[d], cursor |-> c(d), book |-> b(d)]]
      BY DEF InitOn
    <2>5. \A d \in Device : c(d) \in 0..MaxSeq /\ c(d) <= seq
      BY <2>3
    <2>6. \A d \in Device : b(d) \in [Row -> 0..MaxSeq]
      BY <2>1
    <2> HIDE DEF c, b, n
    <2>7. phone \in [Device -> Phone]
      BY <2>2, <2>4, <2>5, <2>6 DEF Phone
    <2>8. \A d \in Device : phone[d].cursor <= seq
      BY <2>4, <2>5
    <2> QED
      BY <2>7, <2>8 DEF Bounded
  <1> QED
    BY <1>2, <1>3, <1>4, <1>5, <1>6, <1>7 DEF FeedTyped, TypeOK

\* The writes.
LEMMA WritesTyped ==
    ASSUME FeedTyped,
           \/ \E t \in Tx : (\E row \in Row : Write(t, row)) \/ Commit(t) \/ Rollback(t)
           \/ PruneSync
    PROVE  FeedTyped'
  <1>0. TypeOK /\ Bounded
    BY DEF FeedTyped
  <1>1. seq \in Nat /\ seq <= MaxSeq /\ MaxSeq \in Nat
    BY <1>0, FeedBounds, BoundAssumption
  <1>2. ASSUME NEW t \in Tx, NEW row \in Row, Write(t, row) PROVE FeedTyped'
    <2>1. seq' = seq + 1 /\ seq' \in 0..MaxSeq
      BY <1>1, <1>2 DEF Write
    <2>2. UNCHANGED <<table, readers, role, phone, left, overtaken, misread, spared>>
      BY <1>2 DEF Write, history
    <2>3. table' \in [Row -> 0..seq']
      <3>1. \A x \in 0..seq : x \in 0..seq'
        BY <1>1, <2>1
      <3> QED
        BY <1>0, <2>2, <3>1 DEF TypeOK
    <2>4. DOMAIN log' = DOMAIN log \cup {seq + 1} /\ DOMAIN log' \subseteq 1..seq'
      <3>1. DOMAIN log \subseteq 1..seq
        BY <1>0 DEF TypeOK
      <3>2. DOMAIN log' = DOMAIN log \cup {seq + 1}
        BY <1>2 DEF Write
      <3> QED
        BY <1>1, <2>1, <3>1, <3>2
    <2>5. \A s \in DOMAIN log' : log'[s] \in [row : Row, by : Tx \cup {Committed}]
      <3> TAKE s \in DOMAIN log'
      <3>1. log'[s] = IF s = seq + 1 THEN [row |-> row, by |-> t] ELSE log[s]
        BY <1>2, <2>4 DEF Write
      <3> QED
        BY <1>0, <2>4, <3>1 DEF TypeOK
    <2>6. \A d \in Device : phone'[d].cursor <= seq'
      <3> TAKE d \in Device
      <3>1. phone[d].cursor \in Nat /\ phone[d].cursor <= seq
        BY <1>0, WhoPulls DEF Bounded
      <3> QED
        BY <1>1, <2>1, <2>2, <3>1
    <2> QED
      BY <1>0, <2>1, <2>2, <2>3, <2>4, <2>5, <2>6 DEF FeedTyped, TypeOK, Bounded
  <1>3. ASSUME NEW t \in Tx, Commit(t) PROVE FeedTyped'
    <2>1. UNCHANGED <<seq, readers, role, phone, left, overtaken, misread, spared>>
      BY <1>3 DEF Commit, history
    <2>2. \A row \in Row : table'[row] \in 0..seq
      <3> TAKE row \in Row
      <3>1. table'[row] \in {s \in Own(t) : log[s].row = row} \cup {table[row]}
        BY <1>0, <1>3, CommitTable
      <3>2. table[row] \in 0..seq /\ \A s \in Own(t) : s \in 1..seq
        BY <1>0 DEF TypeOK, Own
      <3> QED
        BY <1>1, <3>1, <3>2
    <2>3. table' \in [Row -> 0..seq']
      <3>1. DOMAIN table' = Row /\ table' = [row \in Row |-> table'[row]]
        BY <1>3 DEF Commit
      <3> QED
        BY <2>1, <2>2, <3>1
    <2>4. DOMAIN log' = DOMAIN log
      BY <1>3 DEF Commit
    <2>5. \A s \in DOMAIN log' : log'[s] \in [row : Row, by : Tx \cup {Committed}]
      <3> TAKE s \in DOMAIN log'
      <3>1. log[s] \in [row : Row, by : Tx \cup {Committed}]
        BY <1>0, <2>4 DEF TypeOK
      <3>2. log'[s] = IF s \in Own(t) THEN [log[s] EXCEPT !.by = Committed] ELSE log[s]
        BY <1>3, <2>4 DEF Commit
      <3> QED
        BY <3>1, <3>2
    <2> QED
      BY <1>0, <2>1, <2>3, <2>4, <2>5 DEF FeedTyped, TypeOK, Bounded
  <1>4. ASSUME NEW t \in Tx, Rollback(t) PROVE FeedTyped'
    <2>1. DOMAIN log' \subseteq DOMAIN log /\ \A s \in DOMAIN log' : log'[s] = log[s]
      BY <1>4 DEF Rollback
    <2> QED
      BY <1>0, <1>4, <2>1 DEF Rollback, history, FeedTyped, TypeOK, Bounded
  <1>5. CASE PruneSync
    <2>1. /\ UNCHANGED <<seq, table, readers, role, phone, left, overtaken, misread, spared>>
          /\ DOMAIN log' \subseteq DOMAIN log
          /\ \A s \in DOMAIN log' : log'[s] = log[s]
      BY <1>0, <1>5, PruneLog
    <2> QED
      BY <1>0, <2>1 DEF FeedTyped, TypeOK, Bounded
  <1> QED
    BY <1>2, <1>3, <1>4, <1>5

\* The people.
LEMMA PeopleTyped ==
    ASSUME FeedTyped,
           \/ \E a \in Account : ChangeRole(a)
           \/ \E d \in Device : \E a \in Account : ChangeHands(d, a)
    PROVE  FeedTyped'
  <1>0. TypeOK /\ Bounded
    BY DEF FeedTyped
  <1>1. ASSUME NEW a \in Account, ChangeRole(a) PROVE FeedTyped'
    <2>1. left' \in [turns : Nat, logins : Nat, fails : Nat]
      <3>1. left \in [turns : Nat, logins : Nat, fails : Nat]
        BY <1>0 DEF TypeOK
      <3>2. left.turns - 1 \in Nat
        BY <1>1, <3>1 DEF ChangeRole
      <3>3. left' = [left EXCEPT !.turns = left.turns - 1]
        BY <1>1 DEF ChangeRole
      <3> QED
        BY <3>1, <3>2, <3>3
    <2>2. role' \in [Account -> Role]
      <3>1. role' = [role EXCEPT ![a] = IF role[a] = "admin" THEN "weigher" ELSE "admin"]
        BY <1>1 DEF ChangeRole
      <3> QED
        BY <1>0, <3>1 DEF TypeOK, Role
    <2> QED
      BY <1>0, <1>1, <2>1, <2>2 DEF ChangeRole, history, FeedTyped, TypeOK, Bounded
  <1>2. ASSUME NEW d \in Device, NEW a \in Account, ChangeHands(d, a) PROVE FeedTyped'
    <2>1. left' \in [turns : Nat, logins : Nat, fails : Nat]
      <3>1. left \in [turns : Nat, logins : Nat, fails : Nat]
        BY <1>0 DEF TypeOK
      <3>2. left.logins - 1 \in Nat
        BY <1>2, <3>1 DEF ChangeHands
      <3>3. left' = [left EXCEPT !.logins = left.logins - 1]
        BY <1>2 DEF ChangeHands
      <3> QED
        BY <3>1, <3>2, <3>3
    <2>3. misread' \subseteq Device
      BY <1>0, <1>2 DEF ChangeHands, TypeOK
    <2>2. phone' \in [Device -> Phone] /\ \A x \in Device : phone'[x].cursor = phone[x].cursor
      <3> DEFINE p == [phone[d] EXCEPT !.account = a]
      <3>1. phone \in [Device -> Phone]
        BY <1>0 DEF TypeOK
      <3>2. p \in Phone /\ p.cursor = phone[d].cursor
        BY <3>1 DEF Phone
      <3>3. phone' = [phone EXCEPT ![d] = p]
        BY <1>2 DEF ChangeHands
      <3> HIDE DEF p
      <3> QED
        BY <3>1, <3>2, <3>3
    <2> QED
      BY <1>0, <1>2, <2>1, <2>2, <2>3 DEF ChangeHands, FeedTyped, TypeOK, Bounded
  <1> QED
    BY <1>1, <1>2

\* The pulls.
LEMMA PullsTyped ==
    ASSUME FeedTyped, NEW d \in Device, NEW commits \in BOOLEAN, NEW arrives \in BOOLEAN,
           Pull(d, commits, arrives)
    PROVE  FeedTyped'
  <1> DEFINE a == phone[d].account
             c == phone[d].cursor
             order == Decide(a, d, role[a], c)
             page == Feed(c)
             next == Max(page \cup {c})
             checked == Checked(a, d, role[a], c, order)
  <1>0. TypeOK /\ Bounded
    BY DEF FeedTyped
  <1>1. seq \in Nat /\ seq <= MaxSeq /\ MaxSeq \in Nat
    BY <1>0, FeedBounds, BoundAssumption
  <1>2. a \in Account /\ role[a] \in Role /\ c \in Nat /\ c <= seq
    BY <1>0, WhoPulls DEF Bounded
  <1>3. order \in Order
    BY <1>0, <1>2, Orders
  <1>4. checked \in [Account -> [Device -> Reader \cup {NoReader}]]
    <2> HIDE DEF a, c, order
    <2> QED
      BY <1>0, <1>2, <1>3, CheckedRows
  <1>8. left' \in [turns : Nat, logins : Nat, fails : Nat]
    <2>1. left \in [turns : Nat, logins : Nat, fails : Nat]
      BY <1>0 DEF TypeOK
    <2>2. CASE commits
      BY <2>1, <2>2 DEF Pull
    <2>3. CASE ~commits
      <3>1. left.fails - 1 \in Nat
        BY <2>1, <2>3 DEF Pull
      <3>2. left' = [left EXCEPT !.fails = left.fails - 1]
        BY <2>3 DEF Pull
      <3> QED
        BY <2>1, <3>1, <3>2
    <2> QED
      BY <2>2, <2>3
  <1>9. misread' \subseteq Device /\ spared' \subseteq Device
    <2>1. misread \subseteq Device /\ spared \subseteq Device
      BY <1>0 DEF TypeOK
    <2>2. SparedBy(a, d, order) \subseteq Device
      BY DEF SparedBy, Registered
    <2> HIDE DEF a, c, order, next
    <2>3. CASE PullOutOfRange(d, arrives)
      BY <2>1, <2>3 DEF PullOutOfRange
    <2>4. CASE PullReplay(d, commits, arrives)
      BY <2>1, <2>2, <2>4 DEF PullReplay, a, c, order
    <2>5. CASE PullServe(d, commits, arrives)
      BY <2>1, <2>2, <2>5 DEF PullServe, a, c, order
    <2> QED
      BY <2>3, <2>4, <2>5 DEF Pull
  <1>5. CASE PullOutOfRange(d, arrives)
    <2>1. /\ phone' \in [Device -> Phone]
          /\ \A x \in Device : x # d => phone'[x] = phone[x]
          /\ phone'[d].cursor = 0 \/ phone'[d] = phone[d]
          /\ UNCHANGED <<seq, table, log, readers, role, overtaken>>
      BY <1>0, <1>5, PullOutOfRangePhone
    <2>2. \A x \in Device : phone'[x].cursor <= seq'
      BY <1>0, <1>1, <2>1 DEF Bounded
    <2> QED
      BY <1>0, <1>8, <1>9, <2>1, <2>2 DEF FeedTyped, TypeOK, Bounded
  <1>6. CASE PullReplay(d, commits, arrives)
    <2>1. /\ phone' \in [Device -> Phone]
          /\ \A x \in Device : x # d => phone'[x] = phone[x]
          /\ phone'[d].cursor = 0 \/ phone'[d] = phone[d]
      BY <1>0, <1>6, PullReplayPhone
    <2>2. /\ UNCHANGED <<seq, table, log, role, overtaken>>
          /\ readers' = checked \/ readers' = readers
      BY <1>6 DEF PullReplay
    <2>3. \A x \in Device : phone'[x].cursor <= seq'
      BY <1>0, <1>1, <2>1, <2>2 DEF Bounded
    <2> QED
      BY <1>0, <1>4, <1>8, <1>9, <2>1, <2>2, <2>3 DEF FeedTyped, TypeOK, Bounded
  <1>7. CASE PullServe(d, commits, arrives)
    <2>1. next \in c..seq
      BY <1>0, <1>2, PageIsWhole
    <2>2. /\ phone' \in [Device -> Phone]
          /\ \A x \in Device : x # d => phone'[x] = phone[x]
          /\ ~arrives => phone'[d] = phone[d]
          /\ arrives => phone'[d].cursor = next
      BY <1>0, <1>2, <1>7, PullServePhone
    <2>3. UNCHANGED <<seq, table, log, role>>
      BY <1>7 DEF PullServe
    <2>4. readers' = Advanced(checked, a, d, role[a]) \/ readers' = readers
      BY <1>7 DEF PullServe
    <2>5. readers' \in [Account -> [Device -> Reader \cup {NoReader}]]
      <3> HIDE DEF a, checked
      <3> QED
        BY <1>0, <1>2, <1>4, <2>4, AdvancedRows DEF TypeOK
    <2>6. overtaken' \in [Device -> SUBSET (1..MaxSeq)]
      <3> DEFINE more == (IF c = 0 THEN {} ELSE overtaken[d]) \cup {s \in InFlight : s <= next}
      <3>1. overtaken \in [Device -> SUBSET (1..MaxSeq)]
        BY <1>0 DEF TypeOK
      <3>2. \A s \in InFlight : s \in 1..MaxSeq
        <4> TAKE s \in InFlight
        <4>1. s \in 1..seq
          BY <1>0, FeedBounds
        <4> QED
          BY <1>1, <4>1
      <3>3. more \in SUBSET (1..MaxSeq)
        BY <3>1, <3>2
      <3>4. overtaken' = IF arrives THEN [overtaken EXCEPT ![d] = more] ELSE overtaken
        BY <1>7 DEF PullServe
      <3> HIDE DEF more
      <3> QED
        BY <3>1, <3>3, <3>4
    <2>7. \A x \in Device : phone'[x].cursor <= seq'
      <3> HIDE DEF next, c
      <3> QED
        BY <1>0, <1>1, <1>2, <2>1, <2>2, <2>3 DEF Bounded, c
    <2> QED
      BY <1>0, <1>8, <1>9, <2>2, <2>3, <2>5, <2>6, <2>7 DEF FeedTyped, TypeOK, Bounded
  <1> QED
    BY <1>5, <1>6, <1>7 DEF Pull

LEMMA FeedTypedStep == FeedTyped /\ [Next]_vars => FeedTyped'
  <1> SUFFICES ASSUME FeedTyped, [Next]_vars PROVE FeedTyped'
    OBVIOUS
  <1>1. CASE UNCHANGED vars
    BY <1>1 DEF vars, history, FeedTyped, TypeOK, Bounded
  <1> QED
    BY <1>1, WritesTyped, PeopleTyped, PullsTyped DEF Next

LEMMA FeedTypedAlways == Spec => []FeedTyped
  BY FeedTypedInit, FeedTypedStep, PTL DEF Spec

\* The tables keep their types: see TypeOK.
THEOREM SyncTyped == Spec => []TypeOK
  <1>1. FeedTyped => TypeOK
    BY DEF FeedTyped
  <1> QED
    BY <1>1, FeedTypedAlways, PTL

-----------------------------------------------------------------------------
(* Books without holes. *)

\* A table holds the newest version its feed names, and the sweep never takes
\* that row of the feed.
NewestStands ==
    /\ \A row \in Row : \/ table[row] = 0
                        \/ table[row] \in Visible /\ log[table[row]].row = row
    /\ \A s \in Visible : s <= table[log[s].row]

\* What is in flight below a cursor was in flight when the cursor went past it.
Overtook ==
    \A d \in Device : \A s \in InFlight : s <= phone[d].cursor => s \in overtaken[d]

\* The registry knows somebody that a cursor was handed out to.
KnownHands ==
    \A d \in Device \ misread :
        phone[d].cursor > 0 => \E b \in Account : d \in Registered(b)

\* Nothing that this role may see is missing below the cursor of this handset.
Whole(d, r) ==
    \A row \in Row :
        MaySee(r, row) /\ table[row] <= phone[d].cursor
            => table[row] <= phone[d].book[row] \/ table[row] \in overtaken[d]

\* The registry says that this handset was served under this role, for whoever is
\* signed in on it, and that nothing is owed.
ServedAs(d, r) ==
    /\ phone[d].cursor > 0
    /\ readers[phone[d].account][d] # NoReader
    /\ readers[phone[d].account][d].pending = "none"
    /\ readers[phone[d].account][d].role = r

WholeAsServed == \A d \in Device \ misread : \A r \in Role : ServedAs(d, r) => Whole(d, r)

BookInv == FeedTyped /\ NewestStands /\ Overtook /\ KnownHands /\ WholeAsServed

LEMMA NewestInit == Init /\ FeedTyped => NewestStands
  <1> SUFFICES ASSUME NEW f \in Farm, InitOn(f), TypeOK PROVE NewestStands
    BY DEF FeedTyped, Init
  <1> DEFINE n == Len(f.feed)
             S(row) == {s \in 1..n : f.feed[s] = row} \cup {0}
  <1>0. f.feed \in Seq(Row)
    BY FarmAssumption
  <1>1. n \in Nat
    BY <1>0
  <1>2. \A row \in Row : table[row] = Max(S(row))
    BY DEF InitOn
  <1>3. log = [s \in 1..n |-> [row |-> f.feed[s], by |-> Committed]]
    BY DEF InitOn
  <1>4. Visible = 1..n /\ \A s \in 1..n : log[s].row = f.feed[s] /\ f.feed[s] \in Row
    BY <1>0, <1>3 DEF Visible
  <1> HIDE DEF n
  <1>5. ASSUME NEW row \in Row
        PROVE  Max(S(row)) \in S(row) /\ \A s \in S(row) : s <= Max(S(row))
    <2>1. \A s \in S(row) : s \in 0..n
      BY <1>1
    <2>2. S(row) \subseteq Nat /\ S(row) # {} /\ \A s \in S(row) : s <= n
      BY <1>1, <2>1
    <2> HIDE DEF S
    <2> QED
      BY <1>1, <2>2, MaxIsThere
  <1>6. ASSUME NEW row \in Row, table[row] # 0
        PROVE  table[row] \in Visible /\ log[table[row]].row = row
    <2>1. table[row] \in S(row)
      BY <1>2, <1>5
    <2> QED
      BY <1>4, <1>6, <2>1
  <1>7. ASSUME NEW s \in Visible PROVE s <= table[log[s].row]
    <2>1. s \in S(log[s].row) /\ log[s].row \in Row
      BY <1>4
    <2> HIDE DEF S
    <2> QED
      BY <1>2, <1>5, <2>1
  <1> QED
    BY <1>6, <1>7 DEF NewestStands

\* Only writes move the feed.
LEMMA NewestStep ==
    ASSUME FeedTyped, NewestStands, [Next]_vars
    PROVE  NewestStands'
  <1>0. TypeOK
    BY DEF FeedTyped
  <1>1. ASSUME UNCHANGED <<table, log>> PROVE NewestStands'
    BY <1>1 DEF NewestStands, Visible
  <1>2. ASSUME NEW t \in Tx, NEW row \in Row, Write(t, row) PROVE NewestStands'
    <2>1. Visible' = Visible /\ \A s \in Visible : log'[s] = log[s]
      BY <1>0, <1>2, WriteLog
    <2>2. table' = table
      BY <1>2 DEF Write
    <2> QED
      BY <2>1, <2>2 DEF NewestStands
  <1>3. ASSUME NEW t \in Tx, Commit(t) PROVE NewestStands'
    <2>1. /\ Own(t) \subseteq InFlight
          /\ Visible' = Visible \cup Own(t)
          /\ \A s \in DOMAIN log : log'[s].row = log[s].row
      BY <1>0, <1>3, CommitLog
    <2>2. Visible \subseteq DOMAIN log /\ Own(t) \subseteq DOMAIN log
      BY DEF Visible, Own
    <2>3. ASSUME NEW row \in Row
          PROVE  table'[row] = 0 \/ (table'[row] \in Visible' /\ log'[table'[row]].row = row)
      <3>1. table'[row] \in {s \in Own(t) : log[s].row = row} \cup {table[row]}
        BY <1>0, <1>3, CommitTable
      <3>2. CASE table'[row] \in {s \in Own(t) : log[s].row = row}
        BY <2>1, <2>2, <3>2
      <3>3. CASE table'[row] = table[row]
        BY <2>1, <2>2, <3>3 DEF NewestStands
      <3> QED
        BY <3>1, <3>2, <3>3
    <2>4. ASSUME NEW s \in Visible' PROVE s <= table'[log'[s].row]
      <3>1. s \in DOMAIN log /\ log'[s].row = log[s].row
        BY <2>1, <2>2
      <3>2. log[s].row \in Row /\ s \in Nat
        BY <1>0, <3>1, FeedBounds DEF TypeOK
      <3>3. CASE s \in Own(t)
        BY <1>0, <1>3, <3>1, <3>2, <3>3, CommitTable
      <3>4. CASE s \in Visible
        <4>1. s <= table[log[s].row]
          BY <3>4 DEF NewestStands
        <4>2. table[log[s].row] <= table'[log[s].row]
          BY <1>0, <1>3, <3>2, CommitTable
        <4>3. table[log[s].row] \in Nat /\ table'[log[s].row] \in Nat
          <5>1. table[log[s].row] \in 0..seq /\ Own(t) \subseteq 1..seq /\ seq \in Nat
            BY <1>0, <3>2 DEF TypeOK, Own
          <5>2. table'[log[s].row] \in Own(t) \cup {table[log[s].row]}
            BY <1>0, <1>3, <3>2, CommitTable
          <5> QED
            BY <5>1, <5>2
        <4> QED
          BY <3>1, <3>2, <4>1, <4>2, <4>3
      <3> QED
        BY <2>1, <3>3, <3>4
    <2> QED
      BY <2>3, <2>4 DEF NewestStands
  <1>4. ASSUME NEW t \in Tx, Rollback(t) PROVE NewestStands'
    <2>1. Visible' = Visible /\ \A s \in Visible : log'[s] = log[s]
      BY <1>0, <1>4, RollbackLog
    <2>2. table' = table
      BY <1>4 DEF Rollback
    <2> QED
      BY <2>1, <2>2 DEF NewestStands
  <1>5. CASE PruneSync
    <2>1. /\ Visible' \subseteq Visible /\ table' = table
          /\ \A s \in Visible : ~Superseded(s) => s \in Visible'
          /\ \A s \in Visible' : log'[s] = log[s]
      BY <1>0, <1>5, PruneLog
    <2>2. ASSUME NEW row \in Row, table[row] # 0
          PROVE  table[row] \in Visible' /\ log'[table[row]].row = row
      <3>1. table[row] \in Visible /\ log[table[row]].row = row
        BY <2>2 DEF NewestStands
      <3>2. ~Superseded(table[row])
        <4>1. ASSUME NEW newer \in Visible, log[newer].row = row, newer > table[row]
              PROVE  FALSE
          <5>1. newer <= table[row]
            BY <4>1 DEF NewestStands
          <5>2. newer \in Int /\ table[row] \in Int
            <6>1. newer \in 1..seq
              BY <1>0, <4>1, FeedBounds
            <6>2. table[row] \in 0..seq
              BY <1>0 DEF TypeOK
            <6> QED
              BY <6>1, <6>2
          <5> QED
            BY <4>1, <5>1, <5>2
        <4> QED
          BY <3>1, <4>1 DEF Superseded
      <3> QED
        BY <2>1, <3>1, <3>2
    <2> QED
      BY <2>1, <2>2 DEF NewestStands
  <1>6. ASSUME NEW d \in Device, NEW commits \in BOOLEAN, NEW arrives \in BOOLEAN,
               Pull(d, commits, arrives)
        PROVE  NewestStands'
    BY <1>1, <1>6 DEF Pull, PullOutOfRange, PullReplay, PullServe
  <1> QED
    BY <1>1, <1>2, <1>3, <1>4, <1>5, <1>6 DEF Next, vars, ChangeRole, ChangeHands

\* What a refused pull and a served one leave in the registry.
\* Of a pull whose commit failed, nothing.
LEMMA ReplayRows ==
    ASSUME FeedTyped, NEW d \in Device, NEW commits \in BOOLEAN, NEW arrives \in BOOLEAN,
           PullReplay(d, commits, arrives)
    PROVE  LET a == phone[d].account
               order == Decide(a, d, role[a], phone[d].cursor)
           IN  /\ phone[d].cursor > 0 /\ order.reason # "none"
               /\ ~commits => readers' = readers
               /\ commits =>
                    /\ readers'[a][d] = [role |-> role[a], pending |-> order.reason,
                                         purge |-> order.purge]
                    /\ readers'[a][d] # NoReader /\ readers'[a][d].pending # "none"
                    /\ \A x \in Device : x # d =>
                          readers'[a][x] = MarkedRow(readers[a][x], role[a], order)
               /\ \A b \in Account : b # a => readers'[b] = readers[b]
  <1> DEFINE a == phone[d].account
             c == phone[d].cursor
             order == Decide(a, d, role[a], c)
             checked == Checked(a, d, role[a], c, order)
  <1>1. TypeOK /\ a \in Account /\ role[a] \in Role /\ c \in Nat
    BY WhoPulls DEF FeedTyped
  <1>2. order \in Order /\ order.reason # "none" /\ c > 0
    BY <1>1, Orders DEF PullReplay, Required
  <1>3. readers' = IF commits THEN checked ELSE readers
    BY DEF PullReplay
  <1> HIDE DEF order
  <1>4. Unserved(role[a], c, order) = [role |-> role[a], pending |-> order.reason,
                                       purge |-> order.purge]
    BY <1>1, <1>2 DEF Unserved
  <1>5. /\ Unserved(role[a], c, order) # NoReader
        /\ Unserved(role[a], c, order).pending # "none"
    BY <1>2, <1>4 DEF NoReader
  <1> HIDE DEF a, c
  <1>6. /\ checked[a][d] = Unserved(role[a], c, order)
        /\ \A b \in Account : b # a => checked[b] = readers[b]
        /\ \A x \in Device : x # d =>
              checked[a][x] = MarkedRow(readers[a][x], role[a], order)
    BY <1>1, <1>2, CheckedRows
  <1> HIDE DEF checked
  <1> QED
    BY <1>2, <1>3, <1>4, <1>5, <1>6 DEF a, c, order

LEMMA ServeRows ==
    ASSUME FeedTyped, NEW d \in Device, NEW commits \in BOOLEAN, NEW arrives \in BOOLEAN,
           PullServe(d, commits, arrives)
    PROVE  LET a == phone[d].account
               order == Decide(a, d, role[a], phone[d].cursor)
           IN  /\ phone[d].cursor > 0 => order.reason = "none"
               /\ ServedUnder(role[a]) # NoReader
               /\ ~commits => readers' = readers
               /\ commits =>
                    /\ readers'[a][d] = ServedUnder(role[a])
                    /\ \A x \in Device : x # d =>
                          readers'[a][x] = MarkedRow(readers[a][x], role[a], order)
               /\ \A b \in Account : b # a => readers'[b] = readers[b]
  <1> DEFINE a == phone[d].account
             c == phone[d].cursor
             order == Decide(a, d, role[a], c)
             checked == Checked(a, d, role[a], c, order)
  <1>1. TypeOK /\ a \in Account /\ role[a] \in Role /\ c \in Nat
    BY WhoPulls DEF FeedTyped
  <1>2. order \in Order /\ (c > 0 => order.reason = "none")
    BY <1>1, Orders DEF PullServe, Required
  <1>3. readers' = IF commits THEN Advanced(checked, a, d, role[a]) ELSE readers
    BY DEF PullServe
  <1>4. ServedUnder(role[a]) # NoReader
    BY <1>1 DEF ServedUnder, NoReader, Role
  <1> HIDE DEF order, a, c
  <1>5. /\ checked \in [Account -> [Device -> Reader \cup {NoReader}]]
        /\ \A b \in Account : b # a => checked[b] = readers[b]
        /\ \A x \in Device : x # d =>
              checked[a][x] = MarkedRow(readers[a][x], role[a], order)
    BY <1>1, <1>2, CheckedRows
  <1> DEFINE new == Advanced(checked, a, d, role[a])
  <1> HIDE DEF checked, new
  <1>6. /\ new[a][d] = ServedUnder(role[a])
        /\ \A b \in Account : b # a => new[b] = checked[b]
        /\ \A x \in Device : x # d => new[a][x] = checked[a][x]
    BY <1>1, <1>5, AdvancedRows DEF new
  <1>7. CASE commits
    BY <1>2, <1>3, <1>4, <1>5, <1>6, <1>7 DEF a, c, order, new
  <1>8. CASE ~commits
    BY <1>2, <1>3, <1>4, <1>8 DEF a, c, order
  <1> QED
    BY <1>7, <1>8

\* Of the other handsets, a pull touches at most their rows: those of its account
\* are left as they were, or with an order.
LEMMA OtherRows ==
    ASSUME FeedTyped, NEW d \in Device, NEW commits \in BOOLEAN, NEW arrives \in BOOLEAN,
           PullReplay(d, commits, arrives) \/ PullServe(d, commits, arrives),
           NEW b \in Account, NEW x \in Device, x # d \/ b # phone[d].account
    PROVE  \/ readers'[b][x] = readers[b][x]
           \/ LET order == Decide(b, d, role[b], phone[d].cursor)
              IN  /\ commits /\ b = phone[d].account
                  /\ readers[b][x] # NoReader /\ readers'[b][x] # NoReader
                  /\ order.reason = "role_changed"
                  /\ readers'[b][x].role = role[b]
                  /\ readers'[b][x].pending # "none"
                  /\ readers'[b][x].purge = (readers[b][x].purge \/ order.purge)
  <1> DEFINE a == phone[d].account
             order == Decide(a, d, role[a], phone[d].cursor)
  <1>1. TypeOK /\ a \in Account /\ role[a] \in Role /\ phone[d].cursor \in Nat
    BY WhoPulls DEF FeedTyped
  <1>2. order \in Order
    BY <1>1, Orders
  <1>3. /\ \A o \in Account : o # a => readers'[o] = readers[o]
        /\ ~commits => readers' = readers
        /\ commits => \A y \in Device : y # d =>
              readers'[a][y] = MarkedRow(readers[a][y], role[a], order)
    <2>1. CASE PullReplay(d, commits, arrives)
      BY <2>1, ReplayRows
    <2>2. CASE PullServe(d, commits, arrives)
      BY <2>2, ServeRows
    <2> QED
      BY <2>1, <2>2
  <1>4. CASE b # a \/ ~commits
    BY <1>3, <1>4
  <1>5. CASE b = a /\ commits
    <2>1. readers'[b][x] = MarkedRow(readers[b][x], role[b], order)
      BY <1>3, <1>5
    <2> HIDE DEF order, a
    <2>2. LET old == readers[b][x]
              new == MarkedRow(old, role[b], order)
          IN  \/ new = old
              \/ /\ old # NoReader /\ new # NoReader
                 /\ order.reason = "role_changed"
                 /\ new.role = role[b]
                 /\ new.pending # "none"
                 /\ new.purge = (old.purge \/ order.purge)
      BY <1>1, <1>2, <1>5, MarkedRows
    <2> QED
      BY <1>5, <2>1, <2>2 DEF order, a
  <1> QED
    BY <1>4, <1>5

\* Nobody is struck from the registry.
LEMMA RegisteredStays ==
    ASSUME FeedTyped, [Next]_vars, NEW b \in Account, NEW d \in Device,
           readers[b][d] # NoReader
    PROVE  readers'[b][d] # NoReader
  <1>1. ASSUME NEW x \in Device, NEW commits \in BOOLEAN, NEW arrives \in BOOLEAN,
               PullReplay(x, commits, arrives) \/ PullServe(x, commits, arrives)
        PROVE  readers'[b][d] # NoReader
    <2>1. CASE d # x \/ b # phone[x].account
      BY <1>1, <2>1, OtherRows
    <2>2. CASE d = x /\ b = phone[x].account
      BY <1>1, <2>2, ReplayRows, ServeRows
    <2> QED
      BY <2>1, <2>2
  <1>3. ASSUME readers' = readers PROVE readers'[b][d] # NoReader
    BY <1>3
  <1> QED
    BY <1>1, <1>3
       DEF Next, vars, Pull, PullOutOfRange, Write, Commit, Rollback, PruneSync,
           ChangeRole, ChangeHands

\* The cursor of a handset after a step: where it was, at 0, or where its answer
\* took it.
LEMMA CursorStep ==
    ASSUME FeedTyped, [Next]_vars, NEW d \in Device
    PROVE  \/ phone'[d].cursor = phone[d].cursor
           \/ phone'[d].cursor = 0
           \/ \E commits \in BOOLEAN : PullServe(d, commits, TRUE)
  <1>0. TypeOK /\ Bounded
    BY DEF FeedTyped
  <1>1. ASSUME NEW x \in Device, NEW arrives \in BOOLEAN, PullOutOfRange(x, arrives)
        PROVE  phone'[d].cursor = phone[d].cursor \/ phone'[d].cursor = 0
    BY <1>0, <1>1, PullOutOfRangePhone
  <1>2. ASSUME NEW x \in Device, NEW commits \in BOOLEAN, NEW arrives \in BOOLEAN,
               PullReplay(x, commits, arrives)
        PROVE  phone'[d].cursor = phone[d].cursor \/ phone'[d].cursor = 0
    BY <1>0, <1>2, PullReplayPhone
  <1>3. ASSUME NEW x \in Device, NEW commits \in BOOLEAN, NEW arrives \in BOOLEAN,
               PullServe(x, commits, arrives)
        PROVE  phone'[d].cursor = phone[d].cursor \/ PullServe(d, commits, TRUE)
    <2>1. phone[x].cursor <= seq
      BY <1>0 DEF Bounded
    <2>2. /\ \A y \in Device : y # x => phone'[y] = phone[y]
          /\ ~arrives => phone'[x] = phone[x]
      BY <1>0, <1>3, <2>1, PullServePhone
    <2>3. CASE d = x /\ arrives
      <3>1. arrives = TRUE
        BY <2>3
      <3> QED
        BY <1>3, <2>3, <3>1
    <2> QED
      BY <2>2, <2>3
  <1>4. ASSUME NEW x \in Device, NEW a \in Account, ChangeHands(x, a)
        PROVE  phone'[d].cursor = phone[d].cursor
    <2>1. phone \in [Device -> Phone] /\ phone' = [phone EXCEPT ![x] = [phone[x] EXCEPT !.account = a]]
      BY <1>0, <1>4 DEF ChangeHands, TypeOK
    <2>2. phone[x] \in Phone
      BY <2>1
    <2>3. [phone[x] EXCEPT !.account = a].cursor = phone[x].cursor
      BY <2>2 DEF Phone
    <2> QED
      BY <2>1, <2>3
  <1>5. ASSUME phone' = phone PROVE phone'[d].cursor = phone[d].cursor
    BY <1>5
  <1> QED
    BY <1>1, <1>2, <1>3, <1>4, <1>5
       DEF Next, vars, Pull, Write, Commit, Rollback, PruneSync, ChangeRole

\* Only the answer of a committed pull from 0 makes a handset's row its own again.
LEMMA MisreadStep ==
    ASSUME FeedTyped, [Next]_vars, NEW d \in misread
    PROVE  \/ d \in misread'
           \/ PullServe(d, TRUE, TRUE) /\ phone[d].cursor = 0
  <1>1. ASSUME NEW x \in Device, NEW commits \in BOOLEAN, NEW arrives \in BOOLEAN,
               PullServe(x, commits, arrives), d \notin misread'
        PROVE  PullServe(d, TRUE, TRUE) /\ phone[d].cursor = 0
    <2>1. d = x /\ arrives /\ commits /\ phone[x].cursor = 0
      BY <1>1 DEF PullServe
    <2>2. arrives = TRUE /\ commits = TRUE
      BY <2>1
    <2> QED
      BY <1>1, <2>1, <2>2
  <1>2. ASSUME misread \subseteq misread' PROVE d \in misread'
    BY <1>2
  <1>3. ASSUME NEW x \in Device, NEW commits \in BOOLEAN, NEW arrives \in BOOLEAN,
               PullOutOfRange(x, arrives) \/ PullReplay(x, commits, arrives)
        PROVE  misread \subseteq misread'
    BY <1>3 DEF PullOutOfRange, PullReplay
  <1>4. CASE \E x \in Device : \E commits, arrives \in BOOLEAN : Pull(x, commits, arrives)
    BY <1>1, <1>2, <1>3, <1>4 DEF Pull
  <1>5. CASE ~\E x \in Device : \E commits, arrives \in BOOLEAN : Pull(x, commits, arrives)
    <2>1. misread \subseteq misread'
      BY <1>5 DEF Next, vars, history, Write, Commit, Rollback, PruneSync, ChangeRole,
                 ChangeHands
    <2> QED
      BY <1>2, <2>1
  <1> QED
    BY <1>4, <1>5

\* The row of a handset that was served, and is not misread for it.
LEMMA OwnRow ==
    ASSUME FeedTyped, NEW d \in Device, NEW commits \in BOOLEAN, NEW arrives \in BOOLEAN,
           PullServe(d, commits, arrives), commits \/ arrives, d \notin misread'
    PROVE  /\ readers'[phone[d].account][d] = ServedUnder(role[phone[d].account])
           /\ readers'[phone[d].account][d] # NoReader
           /\ ~commits => readers[phone[d].account][d] = ServedUnder(role[phone[d].account])
           /\ phone[d].cursor > 0 => d \notin misread
  <1> DEFINE a == phone[d].account
  <1>0. phone[d].cursor \in Nat
    BY WhoPulls DEF FeedTyped
  <1>1. CASE commits
    <2>1. phone[d].cursor > 0 => misread' = misread
      BY <1>0, <1>1 DEF PullServe
    <2> QED
      BY <1>1, <2>1, ServeRows
  <1>2. CASE ~commits
    <2>1. readers[a][d] = ServedUnder(role[a]) /\ d \notin misread
      BY <1>2 DEF PullServe
    <2> QED
      BY <1>2, <2>1, ServeRows
  <1> QED
    BY <1>1, <1>2

\* The registry knows of every handset with a cursor that is not misread.
LEMMA KnownStep ==
    ASSUME FeedTyped, KnownHands, [Next]_vars
    PROVE  KnownHands'
  <1> SUFFICES ASSUME NEW d \in Device, d \notin misread', phone'[d].cursor > 0
               PROVE  \E b \in Account : readers'[b][d] # NoReader
    BY DEF KnownHands, Registered
  <1>1. ASSUME NEW commits \in BOOLEAN, PullServe(d, commits, TRUE)
        PROVE  \E b \in Account : readers'[b][d] # NoReader
    <2>1. phone[d].account \in Account
      BY WhoPulls DEF FeedTyped
    <2> QED
      BY <1>1, <2>1, OwnRow
  <1>2. CASE phone'[d].cursor = phone[d].cursor /\ d \notin misread
    <2>1. PICK b \in Account : readers[b][d] # NoReader
      BY <1>2 DEF KnownHands, Registered
    <2> QED
      BY <2>1, RegisteredStays
  <1>3. CASE d \in misread
    BY <1>1, <1>3, MisreadStep
  <1>4. phone'[d].cursor # 0
    OBVIOUS
  <1> QED
    BY <1>1, <1>2, <1>3, <1>4, CursorStep

\* A cursor does not pass a seq in flight unnoticed.
LEMMA OvertookStep ==
    ASSUME FeedTyped, Overtook, [Next]_vars
    PROVE  Overtook'
  <1>0. TypeOK /\ Bounded
    BY DEF FeedTyped
  <1>1. ASSUME phone' = phone, overtaken' = overtaken, InFlight' \subseteq InFlight
        PROVE  Overtook'
    BY <1>1 DEF Overtook
  <1>2. ASSUME NEW t \in Tx, NEW row \in Row, Write(t, row) PROVE Overtook'
    <2>1. InFlight' = InFlight \cup {seq + 1}
      BY <1>0, <1>2, WriteLog
    <2>2. phone' = phone /\ overtaken' = overtaken
      BY <1>2 DEF Write, history
    <2>3. \A d \in Device : ~(seq + 1 <= phone[d].cursor)
      <3> TAKE d \in Device
      <3>1. phone[d].cursor \in Nat /\ phone[d].cursor <= seq /\ seq \in Nat
        BY <1>0, WhoPulls, FeedBounds DEF Bounded
      <3> QED
        BY <3>1
    <2> QED
      BY <2>1, <2>2, <2>3 DEF Overtook
  <1>3. ASSUME NEW t \in Tx, Commit(t) PROVE Overtook'
    BY <1>0, <1>1, <1>3, CommitLog DEF Commit, history
  <1>4. ASSUME NEW t \in Tx, Rollback(t) PROVE Overtook'
    BY <1>0, <1>1, <1>4, RollbackLog DEF Rollback, history
  <1>5. CASE PruneSync
    BY <1>0, <1>1, <1>5, PruneLog
  <1>6. ASSUME NEW d \in Device, NEW commits \in BOOLEAN, NEW arrives \in BOOLEAN,
               PullServe(d, commits, arrives)
        PROVE  Overtook'
    <2> DEFINE c == phone[d].cursor
               next == Max(Feed(c) \cup {c})
    <2>1. c \in Nat /\ c <= seq
      BY <1>0, WhoPulls DEF Bounded
    <2>2. /\ \A x \in Device : x # d => phone'[x] = phone[x]
          /\ ~arrives => phone'[d] = phone[d]
          /\ arrives => phone'[d].cursor = next
      BY <1>0, <1>6, <2>1, PullServePhone
    <2>3. InFlight' = InFlight
      BY <1>6 DEF PullServe, InFlight, Visible
    <2>4. overtaken \in [Device -> SUBSET (1..MaxSeq)]
      BY <1>0 DEF TypeOK
    <2>5. /\ \A x \in Device : x # d => overtaken'[x] = overtaken[x]
          /\ ~arrives => overtaken' = overtaken
          /\ arrives => {s \in InFlight : s <= next} \subseteq overtaken'[d]
      BY <1>6, <2>4 DEF PullServe
    <2> HIDE DEF next
    <2> QED
      BY <2>2, <2>3, <2>5 DEF Overtook
  <1>7. ASSUME UNCHANGED <<log, overtaken>>,
               \A d \in Device : phone'[d].cursor = phone[d].cursor \/ phone'[d].cursor = 0
        PROVE  Overtook'
    <2>1. InFlight' = InFlight
      BY <1>7 DEF InFlight, Visible
    <2>2. \A s \in InFlight : ~(s <= 0)
      <3> TAKE s \in InFlight
      <3>1. s \in 1..seq
        BY <1>0, FeedBounds
      <3> QED
        BY <3>1
    <2> QED
      BY <1>7, <2>1, <2>2 DEF Overtook
  <1>8. ASSUME NEW d \in Device, NEW commits \in BOOLEAN, NEW arrives \in BOOLEAN,
               PullOutOfRange(d, arrives) \/ PullReplay(d, commits, arrives)
        PROVE  Overtook'
    <2>1. UNCHANGED <<log, overtaken>>
      BY <1>8 DEF PullOutOfRange, PullReplay
    <2>2. \A x \in Device : phone'[x].cursor = phone[x].cursor \/ phone'[x].cursor = 0
      BY <1>0, <1>8, PullOutOfRangePhone, PullReplayPhone
    <2> QED
      BY <1>7, <2>1, <2>2
  <1>9. ASSUME NEW x \in Device, NEW a \in Account, ChangeHands(x, a)
        PROVE  Overtook'
    <2>1. UNCHANGED <<log, overtaken>>
      BY <1>9 DEF ChangeHands
    <2>2. phone \in [Device -> Phone] /\ phone' = [phone EXCEPT ![x] = [phone[x] EXCEPT !.account = a]]
      BY <1>0, <1>9 DEF ChangeHands, TypeOK
    <2>3. phone[x] \in Phone
      BY <2>2
    <2>4. [phone[x] EXCEPT !.account = a].cursor = phone[x].cursor
      BY <2>3 DEF Phone
    <2>5. \A d \in Device : phone'[d].cursor = phone[d].cursor
      BY <2>2, <2>4
    <2> QED
      BY <1>7, <2>1, <2>5
  <1>10. CASE UNCHANGED vars
    BY <1>7, <1>10 DEF vars, history
  <1>11. ASSUME NEW a \in Account, ChangeRole(a) PROVE Overtook'
    BY <1>7, <1>11 DEF ChangeRole, history
  <1> QED
    BY <1>2, <1>3, <1>4, <1>5, <1>6, <1>8, <1>9, <1>10, <1>11 DEF Next, Pull

\* A book that is left alone stays whole: what the step makes of its row in the
\* registry is at most an order.
LEMMA StillWhole ==
    ASSUME WholeAsServed, NEW x \in Device, x \notin misread, NEW r \in Role, ServedAs(x, r)',
           table' = table, overtaken'[x] = overtaken[x], phone'[x] = phone[x],
           \/ readers'[phone[x].account][x] = readers[phone[x].account][x]
           \/ readers'[phone[x].account][x].pending # "none"
    PROVE  Whole(x, r)'
  <1>1. ServedAs(x, r)
    BY DEF ServedAs
  <1>2. Whole(x, r)
    BY <1>1 DEF WholeAsServed
  <1> QED
    BY <1>2 DEF Whole

\* A pull touches one handset, and of the others at most their row.
LEMMA OthersWhole ==
    ASSUME FeedTyped, WholeAsServed,
           NEW d \in Device, NEW commits \in BOOLEAN, NEW arrives \in BOOLEAN,
           Pull(d, commits, arrives),
           NEW x \in Device, x # d, x \notin misread', NEW r \in Role, ServedAs(x, r)'
    PROVE  Whole(x, r)'
  <1>0. TypeOK /\ Bounded
    BY DEF FeedTyped
  <1>1. phone'[x] = phone[x] /\ phone[x].account \in Account
    <2>1. phone[d].cursor <= seq
      BY <1>0 DEF Bounded
    <2> QED
      BY <1>0, <2>1, PullOutOfRangePhone, PullReplayPhone, PullServePhone, WhoPulls DEF Pull
  <1>2. table' = table /\ x \notin misread
    BY DEF Pull, PullOutOfRange, PullReplay, PullServe
  <1>3. overtaken'[x] = overtaken[x]
    <2>1. overtaken \in [Device -> SUBSET (1..MaxSeq)]
      BY <1>0 DEF TypeOK
    <2> QED
      BY <2>1 DEF Pull, PullOutOfRange, PullReplay, PullServe
  <1>4. \/ readers'[phone[x].account][x] = readers[phone[x].account][x]
        \/ readers'[phone[x].account][x].pending # "none"
    <2>1. CASE PullOutOfRange(d, arrives)
      BY <2>1 DEF PullOutOfRange
    <2>2. CASE PullReplay(d, commits, arrives) \/ PullServe(d, commits, arrives)
      BY <1>1, <2>2, OtherRows
    <2> QED
      BY <2>1, <2>2 DEF Pull
  <1> QED
    BY <1>1, <1>2, <1>3, <1>4, StillWhole

\* A cursor that only others are known to have held is not resumed.
LEMMA Reassigned ==
    ASSUME NEW a \in Account, NEW d \in Device, NEW r, NEW c \in Nat, c > 0,
           d \notin Registered(a), NEW b \in Account, b # a, d \in Registered(b)
    PROVE  Decide(a, d, r, c) = Owes("device_reassigned", TRUE)
  <1>1. \E o \in Account \ {a} : d \in Registered(o)
    OBVIOUS
  <1>2. c # 0
    OBVIOUS
  <1> HIDE DEF Registered
  <1> QED
    BY <1>1, <1>2 DEF Decide

\* A reader of the registry that is served above 0 owes nothing, and its cursor was
\* earned under the role it has now.
LEMMA ServedAbove ==
    ASSUME FeedTyped, KnownHands,
           NEW d \in Device, NEW commits \in BOOLEAN, NEW arrives \in BOOLEAN,
           PullServe(d, commits, arrives), d \notin misread, phone[d].cursor > 0
    PROVE  LET a == phone[d].account
           IN  /\ ServedAs(d, role[a])
               /\ ~Decide(a, d, role[a], phone[d].cursor).purge
  <1> DEFINE a == phone[d].account
             c == phone[d].cursor
             order == Decide(a, d, role[a], c)
  <1>1. a \in Account /\ role[a] \in Role /\ c \in Nat /\ c > 0
    BY WhoPulls DEF FeedTyped
  <1>2. order.reason = "none"
    BY DEF PullServe, Required
  <1>3. d \in Registered(a)
    <2>1. PICK b \in Account : d \in Registered(b)
      BY <1>1 DEF KnownHands
    <2>2. CASE b = a
      BY <2>1, <2>2
    <2>3. CASE b # a /\ d \notin Registered(a)
      <3>1. order = Owes("device_reassigned", TRUE)
        BY <1>1, <2>1, <2>3, Reassigned
      <3> QED
        BY <1>2, <3>1 DEF Owes
    <2> QED
      BY <2>2, <2>3
  <1> HIDE DEF a, c
  <1>4. /\ readers[a][d].pending = "none" /\ readers[a][d].role = role[a]
        /\ ~Decide(a, d, role[a], c).purge
    BY <1>1, <1>2, <1>3, Orders DEF FeedTyped
  <1>5. readers[a][d] # NoReader
    BY <1>3 DEF Registered
  <1> QED
    BY <1>1, <1>4, <1>5 DEF ServedAs, a, c

\* The handset that is served has, below its new cursor, everything its role may
\* see: what it had, and the page.
LEMMA ServedWhole ==
    ASSUME FeedTyped, NewestStands, KnownHands, WholeAsServed,
           NEW d \in Device, NEW commits \in BOOLEAN, NEW arrives \in BOOLEAN,
           PullServe(d, commits, arrives), commits \/ arrives, d \notin misread',
           NEW r \in Role, ServedAs(d, r)'
    PROVE  Whole(d, r)'
  <1> DEFINE a == phone[d].account
             c == phone[d].cursor
             order == Decide(a, d, role[a], c)
             page == Feed(c)
             next == Max(page \cup {c})
             kept == Dropped(phone[d].book, order.purge)
  <1>0. TypeOK /\ Bounded
    BY DEF FeedTyped
  <1>1. /\ a \in Account /\ role[a] \in Role /\ c \in Nat /\ c <= seq
        /\ phone[d].book \in [Row -> 0..MaxSeq] /\ seq \in Nat
    BY <1>0, WhoPulls, FeedBounds DEF Bounded
  <1>2. /\ phone'[d].account = a
        /\ ~arrives => phone'[d] = phone[d]
        /\ arrives => phone'[d].cursor = next /\ phone'[d].book = Applied(kept, page, role[a])
    BY <1>0, <1>1, PullServePhone
  <1>3. r = role[a]
    <2>1. readers'[a][d] = ServedUnder(role[a])
      BY OwnRow
    <2> QED
      BY <1>2, <2>1 DEF ServedAs, ServedUnder
  <1>4. table' = table /\ log' = log /\ (c > 0 => d \notin misread)
    BY OwnRow DEF PullServe
  <1>5. CASE ~arrives
    <2>1. overtaken' = overtaken
      BY <1>5 DEF PullServe
    <2>2. c > 0
      BY <1>2, <1>5 DEF ServedAs
    <2>3. Whole(d, r)
      BY <1>3, <1>4, <2>2, ServedAbove DEF WholeAsServed
    <2> QED
      BY <1>2, <1>4, <1>5, <2>1, <2>3 DEF Whole
  <1>6. CASE arrives
    <2>1. /\ page \subseteq Visible /\ next \in c..seq
          /\ \A s \in Visible : (s > c /\ s <= next) => s \in page
      BY <1>0, <1>1, PageIsWhole
    <2>2. overtaken'[d] = (IF c = 0 THEN {} ELSE overtaken[d]) \cup {s \in InFlight : s <= next}
      <3>1. overtaken \in [Device -> SUBSET (1..MaxSeq)]
        BY <1>0 DEF TypeOK
      <3>2. overtaken' = [overtaken EXCEPT ![d] =
                (IF c = 0 THEN {} ELSE overtaken[d]) \cup {s \in InFlight : s <= next}]
        BY <1>6 DEF PullServe
      <3> HIDE DEF next, c
      <3> QED
        BY <3>1, <3>2
    <2> HIDE DEF page, next
    <2>3. ASSUME NEW row \in Row, MaySee(r, row), table[row] <= next
          PROVE  table[row] <= phone'[d].book[row] \/ table[row] \in overtaken'[d]
      <3>1. table[row] \in Nat
        <4>1. table[row] \in 0..seq
          BY <1>0 DEF TypeOK
        <4> QED
          BY <1>1, <4>1
      <3>2. phone'[d].book[row] = IF \E s \in page : log[s].row = row
                                  THEN table[row] ELSE kept[row]
        BY <1>2, <1>3, <1>6, <2>3 DEF Applied
      <3>3. CASE \E s \in page : log[s].row = row
        BY <3>1, <3>2, <3>3
      <3>4. CASE ~(\E s \in page : log[s].row = row) /\ table[row] > c
        <4>1. table[row] \in Visible /\ log[table[row]].row = row
          BY <1>1, <3>1, <3>4 DEF NewestStands
        <4> QED
          BY <2>1, <2>3, <3>4, <4>1
      <3>5. CASE ~(\E s \in page : log[s].row = row) /\ table[row] <= c /\ c = 0
        <4>1. table[row] = 0
          BY <3>1, <3>5
        <4>2. kept[row] \in Nat
          <5>1. kept[row] = 0 \/ kept[row] = phone[d].book[row]
            BY DEF Dropped
          <5>2. phone[d].book[row] \in 0..MaxSeq
            BY <1>1
          <5> QED
            BY <5>1, <5>2
        <4> QED
          BY <3>2, <3>5, <4>1, <4>2
      <3>6. CASE ~(\E s \in page : log[s].row = row) /\ table[row] <= c /\ c > 0
        <4>1. ServedAs(d, role[a]) /\ ~order.purge
          BY <1>4, <3>6, ServedAbove
        <4>2. Whole(d, r)
          BY <1>3, <1>4, <3>6, <4>1 DEF WholeAsServed
        <4>3. kept[row] = phone[d].book[row]
          BY <4>1 DEF Dropped
        <4>4. table[row] <= phone[d].book[row] \/ table[row] \in overtaken[d]
          BY <2>3, <3>6, <4>2 DEF Whole
        <4> QED
          BY <2>2, <3>2, <3>6, <4>3, <4>4
      <3> QED
        BY <1>1, <3>1, <3>3, <3>4, <3>5, <3>6
    <2> QED
      BY <1>2, <1>4, <1>6, <2>3 DEF Whole
  <1> QED
    BY <1>5, <1>6

\* Every step keeps the books whole.
LEMMA WholeStep ==
    ASSUME BookInv, [Next]_vars
    PROVE  WholeAsServed'
  <1> SUFFICES ASSUME NEW d \in Device, d \notin misread', NEW r \in Role, ServedAs(d, r)'
               PROVE  Whole(d, r)'
    BY DEF WholeAsServed
  <1>0. /\ FeedTyped /\ TypeOK /\ Bounded
        /\ NewestStands /\ Overtook /\ KnownHands /\ WholeAsServed
    BY DEF BookInv, FeedTyped
  <1>1. ASSUME table' = table, phone' = phone, readers' = readers, UNCHANGED history
        PROVE  Whole(d, r)'
    BY <1>0, <1>1, StillWhole DEF history
  <1>2. ASSUME NEW t \in Tx, Commit(t) PROVE Whole(d, r)'
    <2>1. UNCHANGED <<readers, phone, overtaken, misread>>
      BY <1>2 DEF Commit, history
    <2>2. ServedAs(d, r) /\ Whole(d, r)
      BY <1>0, <2>1 DEF ServedAs, WholeAsServed
    <2>3. ASSUME NEW row \in Row, MaySee(r, row), table'[row] <= phone[d].cursor
          PROVE  table'[row] <= phone[d].book[row] \/ table'[row] \in overtaken[d]
      <3>1. table'[row] \in {s \in Own(t) : log[s].row = row} \cup {table[row]}
        BY <1>0, <1>2, CommitTable
      <3>2. CASE table'[row] = table[row]
        BY <2>2, <2>3, <3>2 DEF Whole
      <3>3. CASE table'[row] \in Own(t)
        <4>1. table'[row] \in InFlight
          BY <1>0, <1>2, <3>3, CommitLog
        <4> QED
          BY <1>0, <2>3, <4>1 DEF Overtook
      <3> QED
        BY <3>1, <3>2, <3>3
    <2> QED
      BY <2>1, <2>3 DEF Whole
  <1>3. ASSUME NEW x \in Device, NEW a \in Account, ChangeHands(x, a) PROVE Whole(d, r)'
    <2>1. UNCHANGED <<table, readers, overtaken>> /\ d \notin misread
      BY <1>3 DEF ChangeHands
    <2>2. phone \in [Device -> Phone] /\ phone' = [phone EXCEPT ![x] = [phone[x] EXCEPT !.account = a]]
      BY <1>0, <1>3 DEF ChangeHands, TypeOK
    <2>3. CASE d = x
      <3>1. phone'[d].account = a
        BY <2>2, <2>3 DEF Phone
      <3>2. readers[a][d] = NoReader
        BY <1>3, <2>3 DEF ChangeHands, Registered
      <3> QED
        BY <2>1, <3>1, <3>2 DEF ServedAs
    <2>4. CASE d # x
      <3>1. phone'[d] = phone[d]
        BY <2>2, <2>4
      <3> QED
        BY <1>0, <2>1, <3>1, StillWhole
    <2> QED
      BY <2>3, <2>4
  <1>4. ASSUME NEW x \in Device, NEW commits \in BOOLEAN, NEW arrives \in BOOLEAN,
               Pull(x, commits, arrives)
        PROVE  Whole(d, r)'
    <2>0. commits \/ arrives
      BY <1>4 DEF Pull
    <2>1. CASE d # x
      BY <1>0, <1>4, <2>1, OthersWhole
    <2>2. CASE d = x /\ PullOutOfRange(d, arrives)
      <3>1. /\ phone'[d].cursor = 0 \/ phone'[d] = phone[d]
            /\ UNCHANGED <<table, readers, overtaken, misread>>
        BY <1>0, <2>2, PullOutOfRangePhone
      <3>2. phone'[d].cursor # 0
        BY DEF ServedAs
      <3> QED
        BY <1>0, <3>1, <3>2, StillWhole
    <2>3. CASE d = x /\ PullReplay(d, commits, arrives)
      <3>1. phone'[d].account = phone[d].account /\ (arrives => phone'[d].cursor = 0)
        BY <1>0, <2>3, PullReplayPhone
      <3>2. commits
        BY <2>0, <3>1 DEF ServedAs
      <3>3. readers'[phone[d].account][d].pending # "none"
        BY <1>0, <2>3, <3>2, ReplayRows
      <3> QED
        BY <3>1, <3>3 DEF ServedAs
    <2>4. CASE d = x /\ PullServe(d, commits, arrives)
      BY <1>0, <2>0, <2>4, ServedWhole
    <2> QED
      BY <1>4, <2>1, <2>2, <2>3, <2>4 DEF Pull
  <1> QED
    BY <1>1, <1>2, <1>3, <1>4 DEF Next, vars, Write, Rollback, PruneSync, ChangeRole

LEMMA BookInvInit == Init => BookInv
  <1> SUFFICES ASSUME Init PROVE BookInv
    OBVIOUS
  <1>0. PICK f \in Farm : InitOn(f)
    BY DEF Init
  <1>1. FeedTyped /\ NewestStands
    BY FeedTypedInit, NewestInit
  <1>2. \A d \in Device \ misread : phone[d].cursor = 0
    BY <1>0 DEF InitOn
  <1>3. InFlight = {}
    <2>1. \A s \in DOMAIN log : log[s].by = Committed
      BY <1>0 DEF InitOn
    <2> QED
      BY <2>1 DEF InFlight, Visible
  <1> QED
    BY <1>1, <1>2, <1>3 DEF BookInv, Overtook, KnownHands, WholeAsServed, ServedAs

LEMMA BookInvStep == BookInv /\ [Next]_vars => BookInv'
  BY FeedTypedStep, NewestStep, KnownStep, OvertookStep, WholeStep DEF BookInv

\* A cursor that may be resumed was earned under the role that presents it.
LEMMA ResumableIsServed ==
    ASSUME FeedTyped, KnownHands, NEW d \in Device, d \notin misread, Resumable(d)
    PROVE  ServedAs(d, role[phone[d].account])
  <1> DEFINE a == phone[d].account
             c == phone[d].cursor
  <1>1. a \in Account /\ role[a] \in Role /\ c \in Nat
    BY WhoPulls DEF FeedTyped
  <1>2. c > 0 /\ Decide(a, d, role[a], c).reason = "none"
    BY DEF Resumable, Required
  <1>3. d \in Registered(a)
    <2>1. PICK b \in Account : d \in Registered(b)
      BY <1>2 DEF KnownHands
    <2>2. CASE b # a /\ d \notin Registered(a)
      <3>1. Decide(a, d, role[a], c) = Owes("device_reassigned", TRUE)
        BY <1>1, <1>2, <2>1, <2>2, Reassigned
      <3> QED
        BY <1>2, <3>1 DEF Owes
    <2> QED
      BY <2>1, <2>2
  <1> HIDE DEF a, c
  <1>4. readers[a][d].pending = "none" /\ readers[a][d].role = role[a]
    BY <1>1, <1>2, <1>3, Orders DEF FeedTyped
  <1> QED
    BY <1>2, <1>3, <1>4 DEF ServedAs, Registered, a, c

LEMMA BookInvImplies == BookInv => ResumableIsComplete
  <1> SUFFICES ASSUME BookInv, NEW d \in Device, d \notin misread, Resumable(d), NEW row \in Row,
                      table[row] <= phone[d].cursor,
                      MaySee(role[phone[d].account], row),
                      phone[d].book[row] < table[row]
               PROVE  table[row] \in overtaken[d]
    BY DEF ResumableIsComplete, Complete, Missed
  <1>1. FeedTyped /\ TypeOK /\ KnownHands /\ WholeAsServed
    BY DEF BookInv, FeedTyped
  <1>2. role[phone[d].account] \in Role /\ phone[d].book[row] \in 0..MaxSeq
    BY <1>1, WhoPulls
  <1>3. Whole(d, role[phone[d].account])
    BY <1>1, <1>2, ResumableIsServed DEF WholeAsServed
  <1>4. table[row] <= phone[d].book[row] \/ table[row] \in overtaken[d]
    BY <1>3 DEF Whole
  <1>5. table[row] \in 0..seq /\ seq \in Nat
    BY <1>1 DEF TypeOK
  <1> QED
    BY <1>2, <1>4, <1>5

\* On every farm, whatever becomes of its writes, its roles, its handsets and their
\* answers, a cursor that may be resumed has no hole below it but what was in
\* flight, unless the registry is wrong about the handset: see ResumableIsComplete.
THEOREM NoHolesBelow == Spec => []ResumableIsComplete
  <1>1. Init => BookInv
    BY BookInvInit
  <1>2. BookInv /\ [Next]_vars => BookInv'
    BY BookInvStep
  <1>3. BookInv => ResumableIsComplete
    BY BookInvImplies
  <1> QED
    BY <1>1, <1>2, <1>3, PTL DEF Spec

-----------------------------------------------------------------------------
(* No money on a weigher's phone. *)

\* A row that owes nothing has no money to drop.
Settled ==
    \A a \in Account : \A d \in Device : readers[a][d].pending = "none" => ~readers[a][d].purge

\* A handset that starts over has no money, unless it was spared.
StartsClean == \A d \in Device \ spared : phone[d].cursor = 0 => ~HoldsMoney(d)

\* The row of a handset with money says so: it is an administrator's, or an order
\* to drop the money stands.
Covers(row) == SeesMoney(row.role) \/ row.purge

RowCovers ==
    \A d \in Device \ (misread \cup spared) :
        HoldsMoney(d) /\ readers[phone[d].account][d] # NoReader
            => Covers(readers[phone[d].account][d])

MoneyInv == FeedTyped /\ KnownHands /\ Settled /\ StartsClean /\ RowCovers

\* The first pull that notices a demotion is told to drop the money.
LEMMA NoticesPurge ==
    ASSUME TypeOK, NEW a \in Account, NEW d \in Device, NEW c \in Nat, Notices(a, d),
           Decide(a, d, role[a], c).reason # "none"
    PROVE  Decide(a, d, role[a], c).purge
  <1> DEFINE own == readers[a][d]
  <1>1. d \in Registered(a) /\ own.pending = "none" /\ role[a] = "weigher"
    <2>1. role[a] \in Role
      BY DEF TypeOK
    <2> QED
      BY <2>1 DEF Notices, SeesMoney, Role
  <1>2. own.role \in Role
    <2>1. own \in Reader \cup {NoReader} /\ own # NoReader
      BY <1>1, ReaderRows
    <2> HIDE DEF own
    <2> QED
      BY <2>1 DEF Reader
  <1>3. Decide(a, d, role[a], c) = OwnReader(own, role[a])
    BY <1>1 DEF Decide
  <1>4. own.role # role[a]
    <2>1. "none" \notin Reason
      BY DEF Reason
    <2> HIDE DEF own
    <2> QED
      BY <1>1, <1>3, <2>1 DEF OwnReader, NothingOwed, Owes
  <1>5. Decide(a, d, role[a], c) = Owes("role_changed", Demotes(own.role, role[a]))
    BY <1>1, <1>3, <1>4 DEF OwnReader
  <1>6. Demotes(own.role, role[a])
    BY <1>1, <1>2, <1>4 DEF Demotes, SeesMoney, Role
  <1> HIDE DEF own
  <1> QED
    BY <1>5, <1>6 DEF Owes

\* Dropping the money leaves none, and a weigher's page brings none.
LEMMA DropsMoney ==
    ASSUME NEW book, NEW purge \in BOOLEAN, NEW page, NEW r, ~SeesMoney(r)
    PROVE  \A row \in Money :
              /\ purge => Dropped(book, purge)[row] = 0
              /\ ~purge => Dropped(book, purge)[row] = book[row]
              /\ Applied(book, page, r)[row] = book[row]
  BY RowAssumption DEF Row, Dropped, Applied, MaySee

\* Every row that is written is settled, or carries an order.
LEMMA SettledStep ==
    ASSUME FeedTyped, Settled, [Next]_vars
    PROVE  Settled'
  <1>0. TypeOK
    BY DEF FeedTyped
  <1>1. ASSUME readers' = readers PROVE Settled'
    BY <1>1 DEF Settled
  <1>2. ASSUME NEW d \in Device, NEW commits \in BOOLEAN, NEW arrives \in BOOLEAN,
               PullReplay(d, commits, arrives) \/ PullServe(d, commits, arrives)
        PROVE  Settled'
    <2> SUFFICES ASSUME NEW b \in Account, NEW x \in Device,
                        readers'[b][x].pending = "none", readers'[b][x].purge
                 PROVE  FALSE
      BY DEF Settled
    <2>1. CASE x # d \/ b # phone[d].account
      BY <1>2, <2>1, OtherRows DEF Settled
    <2>2. CASE x = d /\ b = phone[d].account /\ PullReplay(d, commits, arrives)
      <3>1. ~commits => readers' = readers
        BY <2>2, ReplayRows
      <3>2. commits => readers'[b][x].pending # "none"
        BY <2>2, ReplayRows
      <3> QED
        BY <3>1, <3>2 DEF Settled
    <2>3. CASE x = d /\ b = phone[d].account /\ PullServe(d, commits, arrives)
      <3>1. ~ServedUnder(role[b]).purge
        BY DEF ServedUnder
      <3> QED
        BY <2>3, <3>1, ServeRows DEF Settled
    <2> QED
      BY <1>2, <2>1, <2>2, <2>3
  <1> QED
    BY <1>1, <1>2
       DEF Next, vars, Pull, PullOutOfRange, Write, Commit, Rollback, PruneSync,
           ChangeRole, ChangeHands

\* Only an order to drop the money, or an administrator's page, ends the time of a
\* handset that was spared.
LEMMA SparedStep ==
    ASSUME FeedTyped, NEW d \in Device, NEW commits \in BOOLEAN, NEW arrives \in BOOLEAN,
           Pull(d, commits, arrives), NEW x \in Device, x \notin spared'
    PROVE  \/ x \notin spared
           \/ /\ x = d /\ arrives
              /\ Decide(phone[d].account, d, role[phone[d].account], phone[d].cursor).purge
           \/ /\ x = d /\ arrives /\ PullServe(d, commits, arrives)
              /\ SeesMoney(role[phone[d].account]) /\ phone'[d].cursor > 0
  <1>1. CASE PullOutOfRange(d, arrives)
    BY <1>1 DEF PullOutOfRange
  <1>2. CASE PullReplay(d, commits, arrives)
    BY <1>2 DEF PullReplay
  <1>3. CASE PullServe(d, commits, arrives)
    <2>1. phone[d].cursor <= seq /\ TypeOK
      BY DEF FeedTyped, Bounded
    <2>2. arrives => phone'[d].cursor = Max(Feed(phone[d].cursor) \cup {phone[d].cursor})
      BY <1>3, <2>1, PullServePhone
    <2> QED
      BY <1>3, <2>2 DEF PullServe
  <1> QED
    BY <1>1, <1>2, <1>3 DEF Pull

\* A handset sent back to 0 is clean, or was spared.
LEMMA CleanStartStep ==
    ASSUME FeedTyped, StartsClean, [Next]_vars
    PROVE  StartsClean'
  <1> SUFFICES ASSUME NEW d \in Device, d \notin spared', phone'[d].cursor = 0
               PROVE  HoldsMoney(d)' => FALSE
    BY DEF StartsClean
  <1>0. TypeOK /\ Bounded
    BY DEF FeedTyped
  <1>1. ASSUME d \notin spared, phone'[d].cursor = phone[d].cursor,
               phone'[d].book = phone[d].book
        PROVE  HoldsMoney(d)' => FALSE
    BY <1>1 DEF StartsClean, HoldsMoney
  <1>2. ASSUME NEW x \in Device, NEW a \in Account, ChangeHands(x, a)
        PROVE  HoldsMoney(d)' => FALSE
    <2>1. phone \in [Device -> Phone] /\ phone' = [phone EXCEPT ![x] = [phone[x] EXCEPT !.account = a]]
      BY <1>0, <1>2 DEF ChangeHands, TypeOK
    <2>2. phone'[d].cursor = phone[d].cursor /\ phone'[d].book = phone[d].book
      BY <2>1 DEF Phone
    <2> QED
      BY <1>1, <1>2, <2>2 DEF ChangeHands
  <1>3. ASSUME NEW x \in Device, NEW commits \in BOOLEAN, NEW arrives \in BOOLEAN,
               Pull(x, commits, arrives)
        PROVE  HoldsMoney(d)' => FALSE
    <2> DEFINE a == phone[x].account
               c == phone[x].cursor
               order == Decide(a, x, role[a], c)
    <2>0. /\ phone[x].cursor <= seq /\ a \in Account /\ c \in Nat /\ role[a] \in Role
          /\ order \in Order /\ order.purge \in BOOLEAN
      <3>1. phone[x].cursor <= seq /\ a \in Account /\ c \in Nat /\ role[a] \in Role
        BY <1>0, WhoPulls DEF Bounded
      <3>2. order \in Order
        BY <1>0, <3>1, Orders
      <3> HIDE DEF order
      <3> QED
        BY <3>1, <3>2 DEF Order
    <2>1. CASE d # x
      <3>1. phone'[d] = phone[d]
        BY <1>0, <1>3, <2>0, <2>1, PullOutOfRangePhone, PullReplayPhone, PullServePhone DEF Pull
      <3>2. d \notin spared
        BY <1>3, <2>1, SparedStep
      <3> QED
        BY <1>1, <3>1, <3>2
    <2>2. CASE d = x /\ PullOutOfRange(d, arrives)
      <3>1. phone'[d].book = phone[d].book /\ (~arrives => phone'[d] = phone[d])
        BY <1>0, <2>2, PullOutOfRangePhone
      <3>2. d \notin spared /\ (arrives => ~HoldsMoney(d))
        BY <2>2 DEF PullOutOfRange
      <3> QED
        BY <1>1, <3>1, <3>2 DEF HoldsMoney
    <2>3. CASE d = x /\ PullReplay(d, commits, arrives)
      <3>1. IF arrives THEN phone'[d].book = Dropped(phone[d].book, order.purge)
            ELSE phone'[d] = phone[d]
        BY <1>0, <2>3, PullReplayPhone
      <3>2. order.reason # "none"
        BY <2>3, ReplayRows
      <3>3. CASE ~arrives
        <4>1. d \notin spared
          BY <1>3, <2>3, <3>3, SparedStep
        <4> QED
          BY <1>1, <3>1, <3>3, <4>1
      <3>4. CASE arrives /\ order.purge
        <4>1. \A row \in Money : phone'[d].book[row] = 0
          BY <3>1, <3>4 DEF Dropped, Row
        <4> QED
          BY <4>1 DEF HoldsMoney
      <3>5. CASE arrives /\ ~order.purge
        <4>1. \A row \in Money : phone'[d].book[row] = phone[d].book[row]
          BY <3>1, <3>5 DEF Dropped, Row
        <4>2. ~Notices(a, x)
          BY <1>0, <2>0, <2>3, <3>2, <3>5, NoticesPurge
        <4>3. ~HoldsMoney(d)
          BY <2>3, <3>5, <4>2 DEF PullReplay
        <4> QED
          BY <4>1, <4>3 DEF HoldsMoney
      <3> QED
        BY <3>3, <3>4, <3>5
    <2>4. CASE d = x /\ PullServe(d, commits, arrives)
      <3> DEFINE page == Feed(c)
                 next == Max(page \cup {c})
                 kept == Dropped(phone[d].book, order.purge)
      <3>1. /\ ~arrives => phone'[d] = phone[d]
            /\ arrives => phone'[d].cursor = next /\ phone'[d].book = Applied(kept, page, role[a])
        BY <1>0, <2>0, <2>4, PullServePhone
      <3>2. CASE ~arrives
        <4>1. d \notin spared
          BY <1>3, <2>4, <3>2, SparedStep
        <4> QED
          BY <1>1, <3>1, <3>2, <4>1
      <3>3. CASE arrives
        <4>1. next \in c..seq /\ \A s \in Feed(c) : s \in 1..seq
          BY <1>0, <2>0, PageIsWhole, FeedBounds
        <4>2. next = 0
          BY <3>1, <3>3
        <4>3. c = 0
          <5> HIDE DEF c, next
          <5>1. seq \in Nat
            BY <1>0, FeedBounds
          <5> QED
            BY <2>0, <4>1, <4>2, <5>1
        <4>4. page = {}
          <5>1. ASSUME NEW s \in page PROVE FALSE
            <6>1. seq \in Nat /\ \A t \in page \cup {c} : t \in Nat /\ t <= seq
              <7>1. seq \in Nat
                BY <1>0, FeedBounds
              <7> HIDE DEF c
              <7> QED
                BY <2>0, <4>1, <4>3, <7>1 DEF page
            <6>2. page \cup {c} \subseteq Nat /\ page \cup {c} # {}
              BY <6>1
            <6> HIDE DEF c, page
            <6>3. s <= next
              BY <5>1, <6>1, <6>2, MaxIsThere
            <6>4. s \in 1..seq
              BY <4>1, <5>1 DEF page
            <6> QED
              BY <4>2, <6>1, <6>3, <6>4
          <5> QED
            BY <5>1
        <4>5. \A row \in Money : phone'[d].book[row] = kept[row]
          BY <3>1, <3>3, <4>4 DEF Applied, Row, Dropped
        <4>6. CASE order.purge
          <5>1. \A row \in Money : kept[row] = 0
            BY <4>6 DEF Dropped, Row
          <5> QED
            BY <4>5, <5>1 DEF HoldsMoney
        <4>7. CASE ~order.purge
          <5>1. \A row \in Money : kept[row] = phone[d].book[row]
            BY <4>7 DEF Dropped, Row
          <5>2. d \notin spared
            BY <1>3, <2>4, <4>7, SparedStep
          <5>3. ~HoldsMoney(d)
            BY <2>4, <4>3, <5>2 DEF StartsClean
          <5> QED
            BY <4>5, <5>1, <5>3 DEF HoldsMoney
        <4> QED
          BY <4>6, <4>7
      <3> QED
        BY <3>2, <3>3
    <2> QED
      BY <1>3, <2>1, <2>2, <2>3, <2>4 DEF Pull
  <1>4. ASSUME UNCHANGED <<phone, spared>> PROVE HoldsMoney(d)' => FALSE
    BY <1>1, <1>4
  <1> QED
    BY <1>2, <1>3, <1>4
       DEF Next, vars, history, Write, Commit, Rollback, PruneSync, ChangeRole

\* A demotion that a sibling's pull finds gives the orders it leaves, or spares.
LEMMA OthersCovered ==
    ASSUME MoneyInv, NEW x \in Device, NEW commits \in BOOLEAN, NEW arrives \in BOOLEAN,
           Pull(x, commits, arrives), NEW d \in Device, d # x,
           d \notin misread', d \notin spared', HoldsMoney(d),
           readers'[phone[d].account][d] # NoReader
    PROVE  Covers(readers'[phone[d].account][d])
  <1> DEFINE b == phone[d].account
             order == Decide(b, x, role[b], phone[x].cursor)
  <1>0. /\ FeedTyped /\ TypeOK /\ b \in Account /\ phone[x].cursor \in Nat
        /\ d \notin misread /\ d \notin spared
    <2>1. FeedTyped /\ TypeOK
      BY DEF MoneyInv, FeedTyped
    <2>2. d \notin misread
      BY DEF Pull, PullOutOfRange, PullReplay, PullServe
    <2>3. d \notin spared
      BY <2>1, SparedStep
    <2> QED
      BY <2>1, <2>2, <2>3, WhoPulls
  <1>1. readers[b][d] # NoReader => Covers(readers[b][d])
    BY <1>0 DEF MoneyInv, RowCovers
  <1>2. CASE readers'[b][d] = readers[b][d]
    BY <1>1, <1>2
  <1>3. CASE readers'[b][d] # readers[b][d]
    <2>0. PullReplay(x, commits, arrives) \/ PullServe(x, commits, arrives)
      BY <1>3 DEF Pull, PullOutOfRange
    <2>1. /\ commits /\ b = phone[x].account
          /\ readers[b][d] # NoReader
          /\ order.reason = "role_changed"
          /\ readers'[b][d].role = role[b]
          /\ readers'[b][d].purge = (readers[b][d].purge \/ order.purge)
      BY <1>0, <1>3, <2>0, OtherRows
    <2>2. CASE readers[b][d].purge \/ order.purge \/ SeesMoney(role[b])
      BY <2>1, <2>2 DEF Covers
    <2>3. CASE ~readers[b][d].purge /\ ~order.purge /\ ~SeesMoney(role[b])
      <3>1. ~Notices(b, x)
        BY <1>0, <2>1, <2>3, NoticesPurge
      <3>2. SeesMoney(readers[b][d].role)
        BY <1>1, <2>1, <2>3 DEF Covers
      <3>3. d \in SparedBy(b, x, order)
        <4> HIDE DEF order
        <4> QED
          BY <2>1, <2>3, <3>1, <3>2 DEF SparedBy, Registered
      <3>4. SparedBy(phone[x].account, x,
                     Decide(phone[x].account, x, role[phone[x].account], phone[x].cursor))
               \ {x} \subseteq spared'
        BY <2>0, <2>1 DEF PullReplay, PullServe
      <3> QED
        BY <2>1, <3>3, <3>4
    <2> QED
      BY <2>2, <2>3
  <1> QED
    BY <1>2, <1>3

\* Nobody is asked to start over without an order that covers what he holds.
LEMMA ReplayCovered ==
    ASSUME MoneyInv, NEW d \in Device, NEW commits \in BOOLEAN, NEW arrives \in BOOLEAN,
           PullReplay(d, commits, arrives), commits \/ arrives,
           d \notin misread', d \notin spared', StartsClean',
           HoldsMoney(d)'
    PROVE  Covers(readers'[phone'[d].account][d])
  <1> DEFINE a == phone[d].account
             c == phone[d].cursor
             order == Decide(a, d, role[a], c)
  <1>0. /\ FeedTyped /\ TypeOK /\ KnownHands /\ Settled
        /\ a \in Account /\ role[a] \in Role /\ c \in Nat /\ c > 0 /\ order.reason # "none"
    <2>1. FeedTyped /\ TypeOK /\ KnownHands /\ Settled
      BY DEF MoneyInv, FeedTyped
    <2> QED
      BY <2>1, WhoPulls, ReplayRows
  <1>1. ~arrives /\ commits /\ phone'[d] = phone[d]
    <2>1. IF arrives THEN phone'[d].cursor = 0 ELSE phone'[d] = phone[d]
      BY <1>0, PullReplayPhone
    <2>2. phone'[d].cursor # 0
      BY DEF StartsClean
    <2> QED
      BY <2>1, <2>2
  <1>2. readers'[a][d].role = role[a] /\ readers'[a][d].purge = order.purge
    <2>1. readers'[a][d] = [role |-> role[a], pending |-> order.reason, purge |-> order.purge]
      BY <1>0, <1>1, ReplayRows
    <2> HIDE DEF order, a
    <2> QED
      BY <2>1
  <1>3. CASE order.purge \/ SeesMoney(role[a])
    BY <1>1, <1>2, <1>3 DEF Covers
  <1>4. CASE ~order.purge /\ ~SeesMoney(role[a])
    <2>1. d \notin misread /\ d \notin spared /\ d \notin SparedBy(a, d, order)
      BY <1>1 DEF PullReplay
    <2>2. HoldsMoney(d)
      BY <1>1 DEF HoldsMoney
    <2>3. d \in Registered(a)
      <3>1. PICK b \in Account : d \in Registered(b)
        BY <1>0, <2>1 DEF KnownHands
      <3>2. CASE b # a /\ d \notin Registered(a)
        <4>1. order = Owes("device_reassigned", TRUE)
          BY <1>0, <3>1, <3>2, Reassigned
        <4> QED
          BY <1>4, <4>1 DEF Owes
      <3> QED
        BY <3>1, <3>2
    <2>4. Covers(readers[a][d])
      BY <2>1, <2>2, <2>3 DEF MoneyInv, RowCovers, Registered
    <2>5. ~readers[a][d].purge
      <3>1. ASSUME readers[a][d].purge PROVE FALSE
        <4>1. readers[a][d].pending # "none"
          BY <1>0, <3>1 DEF Settled
        <4>2. order = Owes(readers[a][d].pending, readers[a][d].purge)
          BY <2>3, <4>1 DEF Decide, OwnReader
        <4> QED
          BY <1>4, <3>1, <4>2 DEF Owes
      <3> QED
        BY <3>1
    <2>6. SeesMoney(readers[a][d].role)
      BY <2>4, <2>5 DEF Covers
    <2>7. ~Notices(a, d)
      BY <1>0, <1>4, NoticesPurge
    <2>8. d \in SparedBy(a, d, order)
      <3> HIDE DEF order
      <3> QED
        BY <1>0, <1>4, <2>2, <2>3, <2>5, <2>6, <2>7 DEF SparedBy, a, order
    <2> QED
      BY <2>1, <2>8
  <1> QED
    BY <1>3, <1>4

\* Nobody is served as a weigher with money on him.
LEMMA ServedCovered ==
    ASSUME MoneyInv, NEW d \in Device, NEW commits \in BOOLEAN, NEW arrives \in BOOLEAN,
           Pull(d, commits, arrives), PullServe(d, commits, arrives),
           d \notin misread', d \notin spared', HoldsMoney(d)'
    PROVE  Covers(readers'[phone'[d].account][d])
  <1> DEFINE a == phone[d].account
             c == phone[d].cursor
             order == Decide(a, d, role[a], c)
             page == Feed(c)
  <1>0. /\ FeedTyped /\ TypeOK /\ Bounded /\ KnownHands /\ Settled /\ StartsClean
        /\ commits \/ arrives
    BY DEF MoneyInv, FeedTyped, Pull
  <1>1. /\ a \in Account /\ role[a] \in Role /\ c \in Nat /\ c <= seq
        /\ order \in Order /\ order.purge \in BOOLEAN
    <2>1. a \in Account /\ role[a] \in Role /\ c \in Nat /\ c <= seq
      BY <1>0, WhoPulls DEF Bounded
    <2>2. order \in Order
      BY <1>0, <2>1, Orders
    <2> HIDE DEF order
    <2> QED
      BY <2>1, <2>2 DEF Order
  <1>2. /\ phone'[d].account = a
        /\ ~arrives => phone'[d] = phone[d]
        /\ arrives => phone'[d].book = Applied(Dropped(phone[d].book, order.purge), page, role[a])
    BY <1>0, <1>1, PullServePhone
  <1>3. /\ readers'[a][d] = ServedUnder(role[a])
        /\ ~commits => readers[a][d] = ServedUnder(role[a])
        /\ ServedUnder(role[a]) # NoReader
        /\ c > 0 => d \notin misread
    BY <1>0, OwnRow
  <1>4. CASE SeesMoney(role[a])
    BY <1>2, <1>3, <1>4 DEF Covers, ServedUnder
  <1>5. CASE ~SeesMoney(role[a])
    <2>1. HoldsMoney(d) /\ (arrives => ~order.purge)
      <3>1. CASE ~arrives
        BY <1>2, <3>1 DEF HoldsMoney
      <3>2. CASE arrives
        <4> DEFINE kept == Dropped(phone[d].book, order.purge)
        <4>1. \A row \in Money : phone'[d].book[row] = kept[row]
          <5> HIDE DEF kept, page
          <5> QED
            BY <1>2, <1>5, <3>2, DropsMoney DEF kept
        <4>2. PICK row \in Money : phone'[d].book[row] # 0
          BY DEF HoldsMoney
        <4>3. kept[row] # 0
          BY <4>1, <4>2
        <4>4. ~order.purge /\ phone[d].book[row] # 0
          BY <4>3 DEF Dropped, Row
        <4> QED
          BY <4>4 DEF HoldsMoney
      <3> QED
        BY <3>1, <3>2
    <2>2. d \notin spared
      BY <1>0, <1>5, <2>1, SparedStep
    <2>3. c > 0
      BY <1>0, <1>1, <2>1, <2>2 DEF StartsClean
    <2>4. d \notin misread
      BY <1>3, <2>3
    <2>5. ServedAs(d, role[a])
      BY <1>0, <2>3, <2>4, ServedAbove
    <2>6. Covers(readers[a][d])
      BY <2>1, <2>2, <2>4, <2>5 DEF MoneyInv, RowCovers, ServedAs
    <2> QED
      BY <1>0, <1>1, <1>5, <2>5, <2>6 DEF ServedAs, Settled, Covers
  <1> QED
    BY <1>4, <1>5

LEMMA CoversStep ==
    ASSUME MoneyInv, StartsClean', [Next]_vars
    PROVE  RowCovers'
  <1> SUFFICES ASSUME NEW d \in Device, d \notin misread', d \notin spared', HoldsMoney(d)',
                      readers'[phone'[d].account][d] # NoReader
               PROVE  Covers(readers'[phone'[d].account][d])
    BY DEF RowCovers, Covers
  <1>0. FeedTyped /\ TypeOK /\ Bounded /\ RowCovers
    BY DEF MoneyInv, FeedTyped
  <1>1. ASSUME phone'[d] = phone[d], UNCHANGED readers, d \notin misread, d \notin spared
        PROVE  Covers(readers'[phone'[d].account][d])
    BY <1>0, <1>1 DEF RowCovers, HoldsMoney
  <1>2. ASSUME NEW x \in Device, NEW a \in Account, ChangeHands(x, a)
        PROVE  Covers(readers'[phone'[d].account][d])
    <2>1. phone \in [Device -> Phone] /\ phone' = [phone EXCEPT ![x] = [phone[x] EXCEPT !.account = a]]
      BY <1>0, <1>2 DEF ChangeHands, TypeOK
    <2>2. readers' = readers /\ d \notin misread /\ d \notin spared
      BY <1>2 DEF ChangeHands
    <2>3. CASE d # x
      BY <1>1, <2>1, <2>2, <2>3
    <2>4. CASE d = x
      <3>1. phone'[d].account = a
        BY <2>1, <2>4 DEF Phone
      <3>2. readers[a][d] = NoReader
        BY <1>2, <2>4 DEF ChangeHands, Registered
      <3> QED
        BY <2>2, <3>1, <3>2
    <2> QED
      BY <2>3, <2>4
  <1>3. ASSUME NEW x \in Device, NEW commits \in BOOLEAN, NEW arrives \in BOOLEAN,
               Pull(x, commits, arrives)
        PROVE  Covers(readers'[phone'[d].account][d])
    <2>0. commits \/ arrives
      BY <1>3 DEF Pull
    <2>1. CASE d # x
      <3>1. phone'[d] = phone[d]
        <4>1. phone[x].cursor <= seq
          BY <1>0 DEF Bounded
        <4> QED
          BY <1>0, <1>3, <2>1, <4>1, PullOutOfRangePhone, PullReplayPhone, PullServePhone DEF Pull
      <3> QED
        BY <1>3, <2>1, <3>1, OthersCovered DEF HoldsMoney
    <2>2. CASE d = x /\ PullOutOfRange(d, arrives)
      <3>1. IF arrives THEN phone'[d].cursor = 0 ELSE phone'[d] = phone[d]
        BY <1>0, <2>2, PullOutOfRangePhone
      <3>2. phone'[d].cursor # 0
        BY DEF StartsClean
      <3>3. readers' = readers /\ d \notin misread /\ d \notin spared
        BY <2>2 DEF PullOutOfRange
      <3> QED
        BY <1>1, <3>1, <3>2, <3>3
    <2>3. CASE d = x /\ PullReplay(d, commits, arrives)
      BY <2>0, <2>3, ReplayCovered
    <2>4. CASE d = x /\ PullServe(d, commits, arrives)
      BY <1>3, <2>4, ServedCovered
    <2> QED
      BY <1>3, <2>1, <2>2, <2>3, <2>4 DEF Pull
  <1>4. ASSUME UNCHANGED <<phone, readers, history>>
        PROVE  Covers(readers'[phone'[d].account][d])
    BY <1>1, <1>4 DEF history
  <1> QED
    BY <1>2, <1>3, <1>4
       DEF Next, vars, Write, Commit, Rollback, PruneSync, ChangeRole

LEMMA MoneyInvInit == Init => MoneyInv
  <1> SUFFICES ASSUME Init PROVE MoneyInv
    OBVIOUS
  <1>0. PICK f \in Farm : InitOn(f)
    BY DEF Init
  <1>1. FeedTyped /\ NewestStands
    BY FeedTypedInit, NewestInit
  <1>2. KnownHands
    BY <1>0 DEF InitOn, KnownHands
  <1>3. \A a \in Account : \A d \in Device : readers[a][d] = NoReader
    BY <1>0 DEF InitOn
  <1>4. Settled /\ RowCovers
    <2>1. ~NoReader.purge
      BY DEF NoReader
    <2>2. \A d \in Device : phone[d].account \in Account
      BY <1>1, WhoPulls DEF FeedTyped
    <2> QED
      BY <1>3, <2>1, <2>2 DEF Settled, RowCovers
  <1>5. ASSUME NEW d \in Device, phone[d].cursor = 0 PROVE ~HoldsMoney(d)
    <2>1. CASE d \notin f.legacy
      BY <1>0, <2>1 DEF InitOn, HoldsMoney, Row
    <2>2. CASE d \in f.legacy
      <3>1. Len(f.feed) = 0
        BY <1>0, <1>5, <2>2 DEF InitOn
      <3>2. Visible = {}
        BY <1>0, <3>1 DEF InitOn, Visible
      <3>3. \A row \in Row : table[row] = 0
        BY <1>1, <3>2 DEF NewestStands
      <3> QED
        BY <1>0, <3>3 DEF InitOn, HoldsMoney, Row
    <2> QED
      BY <2>1, <2>2
  <1> QED
    BY <1>1, <1>2, <1>4, <1>5 DEF MoneyInv, StartsClean

LEMMA MoneyInvImplies == MoneyInv => ResumableHoldsNoMoney
  <1> SUFFICES ASSUME MoneyInv, NEW d \in Device, d \notin misread, d \notin spared,
                      Resumable(d), ~SeesMoney(role[phone[d].account]), HoldsMoney(d)
               PROVE  FALSE
    BY DEF ResumableHoldsNoMoney, FreeOfMoney
  <1>1. FeedTyped /\ TypeOK /\ KnownHands /\ Settled /\ RowCovers
    BY DEF MoneyInv, FeedTyped
  <1>2. ServedAs(d, role[phone[d].account])
    BY <1>1, ResumableIsServed
  <1>3. Covers(readers[phone[d].account][d])
    BY <1>1, <1>2 DEF RowCovers, ServedAs
  <1>4. phone[d].account \in Account
    BY <1>1, WhoPulls
  <1> QED
    BY <1>1, <1>2, <1>3, <1>4 DEF Covers, ServedAs, Settled

\* On every farm, the cursor of a handset that a weigher may resume is that of a
\* handset without money, unless the registry is wrong about it or it was spared:
\* see ResumableHoldsNoMoney.
THEOREM NoMoneyForWeighers == Spec => []ResumableHoldsNoMoney
  <1>1. Init => MoneyInv
    BY MoneyInvInit
  <1>2. MoneyInv /\ [Next]_vars => MoneyInv'
    BY FeedTypedStep, KnownStep, SettledStep, CleanStartStep, CoversStep DEF MoneyInv
  <1>3. MoneyInv => ResumableHoldsNoMoney
    BY MoneyInvImplies
  <1> QED
    BY <1>1, <1>2, <1>3, PTL DEF Spec

-----------------------------------------------------------------------------
(***************************************************************************)
(* What is done one after the other: a batch, envelope by envelope.        *)
(***************************************************************************)

\* What holds at first and after each step if it held before holds all along.
LEMMA StepByStep ==
    ASSUME NEW n \in Nat, NEW P, 0 \in P, \A i \in 1..n : i - 1 \in P => i \in P
    PROVE  \A i \in 0..n : i \in P
  <1> DEFINE Z == (0..n) \ P
  <1>1. ASSUME Z # {} PROVE FALSE
    <2>0. Z \subseteq Nat
      OBVIOUS
    <2>1. PICK m \in Z : \A k \in Z : m <= k
      <3> HIDE DEF Z
      <3> QED
        BY <1>1, <2>0, LeastNumber
    <2>2. m \in 1..n /\ m - 1 \in 0..n /\ m \notin P
      BY <2>1
    <2>3. m - 1 \in P
      BY <2>1, <2>2
    <2> QED
      BY <2>2, <2>3
  <1> QED
    BY <1>1

Path(g, step, n, x) == g[0] = x /\ \A i \in 1..n : g[i] = step[i][g[i - 1]]

\* Steps can be taken one after the other.
LEMMA StepsCanBeTaken ==
    ASSUME NEW X, NEW n \in Nat, NEW x0 \in X, NEW step, step \in [1..n -> [X -> X]]
    PROVE  \E g \in [0..n -> X] : Path(g, step, n, x0)
  <1> USE DEF Path
  <1> DEFINE Taken(m) == \E g \in [0..m -> X] :
                            g[0] = x0 /\ \A i \in 1..m : g[i] = step[i][g[i - 1]]
             P == {m \in 0..n : Taken(m)}
  <1>1. 0 \in P
    <2>1. [i \in 0..0 |-> x0] \in [0..0 -> X]
      OBVIOUS
    <2>2. Taken(0)
      <3> DEFINE g == [i \in 0..0 |-> x0]
      <3>1. g \in [0..0 -> X] /\ g[0] = x0 /\ \A i \in 1..0 : g[i] = step[i][g[i - 1]]
        OBVIOUS
      <3> QED
        BY <3>1
    <2> QED
      BY <2>2
  <1>2. ASSUME NEW m \in 1..n, m - 1 \in P
        PROVE  m \in P
    <2>1. PICK g \in [0..(m - 1) -> X] :
              g[0] = x0 /\ \A i \in 1..(m - 1) : g[i] = step[i][g[i - 1]]
      BY <1>2
    <2> DEFINE h == [i \in 0..m |-> IF i = m THEN step[m][g[m - 1]] ELSE g[i]]
    <2>2. h \in [0..m -> X]
      OBVIOUS
    <2>3. h[0] = x0
      BY <2>1
    <2>4. ASSUME NEW i \in 1..m
          PROVE  h[i] = step[i][h[i - 1]]
      <3>1. i - 1 \in 0..m /\ i - 1 # m /\ h[i - 1] = g[i - 1]
        OBVIOUS
      <3>2. CASE i = m
        BY <3>1, <3>2
      <3>3. CASE i # m
        BY <2>1, <3>1, <3>3
      <3> QED
        BY <3>2, <3>3
    <2>5. Taken(m)
      <3> HIDE DEF h
      <3> QED
        BY <2>2, <2>3, <2>4
    <2> HIDE DEF Taken
    <2> QED
      BY <2>5
  <1>3. n \in P
    <2> HIDE DEF P
    <2>1. \A m \in 0..n : m \in P
      BY <1>1, <1>2, StepByStep
    <2> QED
      BY <2>1
  <1> QED
    BY <1>3

\* What is left of a sequence is a sequence of the same things.
LEMMA WithoutIsPart ==
    ASSUME NEW S, NEW s \in Seq(S), NEW these
    PROVE  Without(s, these) \in Seq(S)
  <1> DEFINE n == Len(s)
             step == [i \in 1..n |-> [k \in Seq(S) |->
                         IF s[i] \in these THEN k ELSE Append(k, s[i])]]
             Kept(f) == f = [i \in 0..n |-> IF i = 0 THEN <<>>
                               ELSE IF s[i] \in these THEN f[i - 1] ELSE Append(f[i - 1], s[i])]
             kept == CHOOSE f : Kept(f)
  <1>1. n \in Nat /\ \A i \in 1..n : s[i] \in S
    OBVIOUS
  <1>2. step \in [1..n -> [Seq(S) -> Seq(S)]] /\ <<>> \in Seq(S)
    BY <1>1
  <1>3. PICK g \in [0..n -> Seq(S)] : g[0] = <<>> /\ \A i \in 1..n : g[i] = step[i][g[i - 1]]
    <2>1. n \in Nat
      OBVIOUS
    <2> DEFINE X == Seq(S)
               none == <<>>
    <2>2. step \in [1..n -> [X -> X]] /\ none \in X
      BY <1>2
    <2> HIDE DEF step, n, X, none
    <2>3. \E g \in [0..n -> X] : Path(g, step, n, none)
      BY <2>1, <2>2, StepsCanBeTaken
    <2> QED
      BY <2>3 DEF Path, X, none
  <1>4. Kept(g)
    <2>1. \A i \in 1..n : i - 1 \in 0..n /\ g[i - 1] \in Seq(S)
      <3> TAKE i \in 1..n
      <3>1. i - 1 \in 0..n
        BY <1>1
      <3> HIDE DEF n
      <3> QED
        BY <1>3, <3>1
    <2>2. \A i \in 1..n : g[i] = IF s[i] \in these THEN g[i - 1] ELSE Append(g[i - 1], s[i])
      BY <1>3, <2>1
    <2>3. \A i \in 0..n : g[i] = IF i = 0 THEN <<>>
                                ELSE IF s[i] \in these THEN g[i - 1] ELSE Append(g[i - 1], s[i])
      <3> TAKE i \in 0..n
      <3>1. CASE i = 0
        BY <1>3, <3>1
      <3>2. CASE i # 0
        <4>1. i \in 1..n
          BY <1>1, <3>2
        <4> QED
          BY <2>2, <3>2, <4>1
      <3> QED
        BY <3>1, <3>2
    <2>4. g = [i \in 0..n |-> g[i]]
      BY <1>3
    <2> QED
      BY <2>3, <2>4
  <1>5. Kept(kept)
    <2> HIDE DEF Kept
    <2> QED
      BY <1>4
  <1> DEFINE P == {i \in 0..n : kept[i] \in Seq(S)}
  <1> HIDE DEF kept
  <1>6. 0 \in P
    BY <1>1, <1>5
  <1>7. ASSUME NEW i \in 1..n, i - 1 \in P
        PROVE  i \in P
    <2>1. kept[i] = IF s[i] \in these THEN kept[i - 1] ELSE Append(kept[i - 1], s[i])
      <3>1. i \in 0..n /\ i # 0
        BY <1>1
      <3> HIDE DEF n
      <3> QED
        BY <1>5, <3>1
    <2>2. kept[i - 1] \in Seq(S) /\ s[i] \in S
      BY <1>1, <1>7
    <2>3. kept[i] \in Seq(S)
      BY <2>1, <2>2
    <2> QED
      BY <2>3
  <1> HIDE DEF P
  <1>8. n \in P
    <2>1. \A i \in 0..n : i \in P
      <3> HIDE DEF n
      <3> QED
        BY <1>1, <1>6, <1>7, StepByStep
    <2> QED
      BY <1>1, <2>1
  <1>9. Without(s, these) = kept[n]
    BY DEF Without, kept
  <1> QED
    BY <1>8, <1>9 DEF P

-----------------------------------------------------------------------------
(***************************************************************************)
(* One envelope: what it may do to the farm.                               *)
(***************************************************************************)
Answer ==
    Done \cup {"FORBIDDEN", "INTERNAL", "NOT_FOUND", "WORK_RECORD_SETTLED",
               "IDEMPOTENCY_KEY_REUSED", "none"}

Verdicts == [books : Books, answer : Answer]

\* Weighings are of workers the farm has.
Founded(B) ==
    \A r \in Weighing : B.weighing[r] # None => B.worker[B.weighing[r].worker] # None

TakesOn(B, C, e) ==
    /\ e.entity = "worker" /\ B.worker[e.row] = None
    /\ \E row \in WorkerRow : C = [B EXCEPT !.worker[e.row] = row]

Removes(B, C, e) ==
    /\ e.entity = "weighing" /\ e.deleted /\ B.weighing[e.row] # None
    /\ C = [B EXCEPT !.weighing[e.row].live = FALSE]

Weighs(B, C, d, e) ==
    /\ e.entity = "weighing" /\ ~e.deleted
    /\ B.worker[e.worker] # None /\ B.weighing[e.row] = None
    /\ C = [B EXCEPT
            !.weighing[e.row] = [by |-> d, worker |-> e.worker, value |-> e.value,
                                 at |-> e.at, live |-> TRUE, settled |-> FALSE],
            !.worker[e.worker] = ReactivateForWork(@, e.at)]

Credits(B, C, e) ==
    /\ e.entity = "movement" /\ B.money[e.row] = None
    /\ C = [B EXCEPT !.money[e.row] = [worker |-> e.worker, value |-> e.value]]

\* What is in the books stays there: a worker's row, what a weighing says, a movement.
Keeps(B, C) ==
    /\ \A w \in Worker : B.worker[w] # None => C.worker[w] # None
    /\ \A r \in Weighing : B.weighing[r] # None =>
          /\ C.weighing[r] # None
          /\ C.weighing[r].worker = B.weighing[r].worker
          /\ C.weighing[r].value = B.weighing[r].value
          /\ C.weighing[r].at = B.weighing[r].at
    /\ \A m \in Movement : B.money[m] # None => C.money[m] = B.money[m]

\* An envelope that is not performed leaves the farm alone, and one that is does
\* one of four things.
LEMMA EnvelopeDoes ==
    ASSUME NEW B, NEW d \in Handset, NEW e \in Envelope, now \in Nat, B \in Books
    PROVE  LET v == ApplyPushOp(B, d, e) IN
           /\ v.answer \in Answer
           /\ \/ v.books = B
              \/ v.answer = "applied" /\ TakesOn(B, v.books, e)
              \/ v.answer = "applied" /\ Removes(B, v.books, e)
              \/ v.answer = "applied" /\ Weighs(B, v.books, d, e)
              \/ v.answer = "applied" /\ Credits(B, v.books, e)
  <1> DEFINE u == ApplyPushEntity(B, d, e)
             v == ApplyPushOp(B, d, e)
  <1>1. v = IF u.answer = "applied" THEN u ELSE Verdict(B, u.answer)
    BY DEF ApplyPushOp
  <1>2. u.answer # "applied" => v.books = B /\ v.answer = u.answer
    BY <1>1 DEF Verdict
  <1>3. e.entity \in {"worker", "weighing", "movement"} /\ Asked(e) /\ e.worker \in Worker
        /\ e.value \in Value /\ e.at \in Nat /\ e.deleted \in BOOLEAN
    BY DEF Envelope, TableOf
  <1>4. CASE e.entity = "worker"
    <2>1. e.row \in Worker
      BY <1>3, <1>4 DEF Asked, TableOf
    <2>2. u = PushWorker(B, d, e)
      BY <1>4 DEF ApplyPushEntity
    <2>3. CASE RoleOf[d] = "weigher"
      BY <1>2, <2>2, <2>3 DEF PushWorker, Verdict, Answer
    <2>4. CASE RoleOf[d] # "weigher" /\ B.worker[e.row] # None
      BY <1>2, <2>2, <2>4 DEF PushWorker, Verdict, Answer, Done
    <2>5. CASE RoleOf[d] # "weigher" /\ B.worker[e.row] = None
      <3> DEFINE old == [name |-> e.value, off |-> None]
                 row == IF e.deleted /\ old.off = None THEN [old EXCEPT !.off = now] ELSE old
      <3>1. row \in WorkerRow
        BY <1>3 DEF WorkerRow
      <3>2. u = Verdict([B EXCEPT !.worker[e.row] = row], "applied")
        BY <2>2, <2>5 DEF PushWorker
      <3> HIDE DEF row
      <3>3. TakesOn(B, u.books, e) /\ u.answer = "applied"
        BY <1>4, <2>5, <3>1, <3>2 DEF TakesOn, Verdict
      <3> QED
        BY <1>1, <3>3 DEF Answer, Done
    <2> QED
      BY <2>3, <2>4, <2>5
  <1>5. CASE e.entity = "weighing"
    <2>1. e.row \in Weighing
      BY <1>3, <1>5 DEF Asked, TableOf
    <2>2. u = PushWeighing(B, d, e)
      BY <1>5 DEF ApplyPushEntity
    <2>3. CASE Reads(B, d, e.row) /\ e.deleted /\ B.weighing[e.row].live
      <3>1. u = SoftDelete(B, d, e.row)
        BY <2>2, <2>3 DEF PushWeighing
      <3>2. CASE RoleOf[d] = "weigher" \/ B.weighing[e.row].settled
        BY <1>2, <3>1, <3>2 DEF SoftDelete, Verdict, Answer
      <3>3. CASE ~(RoleOf[d] = "weigher" \/ B.weighing[e.row].settled)
        <4>1. u.answer = "applied" /\ Removes(B, u.books, e)
          BY <1>5, <2>3, <3>1, <3>3 DEF SoftDelete, Verdict, Removes, Reads
        <4> QED
          BY <1>1, <4>1 DEF Answer, Done
      <3> QED
        BY <3>2, <3>3
    <2>4. CASE Reads(B, d, e.row) /\ ~(e.deleted /\ B.weighing[e.row].live)
      BY <1>2, <2>2, <2>4 DEF PushWeighing, Verdict, Answer, Done
    <2>5. CASE ~Reads(B, d, e.row)
      <3>1. CASE e.deleted \/ B.worker[e.worker] = None \/ B.weighing[e.row] # None
        BY <1>2, <2>2, <2>5, <3>1 DEF PushWeighing, UniqueViolation, Verdict, Answer, Done
      <3>2. CASE ~e.deleted /\ B.worker[e.worker] # None /\ B.weighing[e.row] = None
        <4>1. u.answer = "applied" /\ Weighs(B, u.books, d, e)
          BY <1>5, <2>2, <2>5, <3>2 DEF PushWeighing, Verdict, Weighs
        <4> QED
          BY <1>1, <4>1 DEF Answer, Done
      <3> QED
        BY <3>1, <3>2
    <2> QED
      BY <2>3, <2>4, <2>5
  <1>6. CASE e.entity = "movement"
    <2>1. u = PushLedgerEntry(B, d, e)
      BY <1>6 DEF ApplyPushEntity
    <2>2. CASE RoleOf[d] = "weigher" \/ B.worker[e.worker] = None
      BY <1>2, <2>1, <2>2 DEF PushLedgerEntry, Verdict, Answer
    <2>3. CASE ~(RoleOf[d] = "weigher" \/ B.worker[e.worker] = None) /\ B.money[e.row] # None
      BY <1>2, <2>1, <2>3 DEF PushLedgerEntry, Verdict, Answer, Done
    <2>4. CASE ~(RoleOf[d] = "weigher" \/ B.worker[e.worker] = None) /\ B.money[e.row] = None
      <3>1. u.answer = "applied" /\ Credits(B, u.books, e)
        BY <1>6, <2>1, <2>4 DEF PushLedgerEntry, Verdict, Credits
      <3> QED
        BY <1>1, <3>1 DEF Answer, Done
    <2> QED
      BY <2>2, <2>3, <2>4
  <1> QED
    BY <1>3, <1>4, <1>5, <1>6

\* Nobody who was taken off the payroll is back on it but with a weighing that was
\* not there, of work done after that.
Off(B, w) == B.worker[w] # None /\ B.worker[w].off # None

BackToWork(B, C, w) ==
    \E r \in Weighing :
        /\ B.weighing[r] = None /\ C.weighing[r] # None
        /\ C.weighing[r].worker = w /\ C.weighing[r].at > B.worker[w].off

StaysOff(B, C) ==
    \A w \in Worker : Off(B, w) => C.worker[w].off = B.worker[w].off \/ BackToWork(B, C, w)

Grows(B, C) == Keeps(B, C) /\ StaysOff(B, C)

LEMMA GrowsOn ==
    ASSUME NEW A, NEW B, NEW C, Grows(A, B), Grows(B, C)
    PROVE  Grows(A, C)
  <1>1. Keeps(A, C)
    BY DEF Grows, Keeps
  <1>2. ASSUME NEW w \in Worker, Off(A, w)
        PROVE  C.worker[w].off = A.worker[w].off \/ BackToWork(A, C, w)
    <2>1. CASE BackToWork(A, B, w)
      <3>1. PICK r \in Weighing : /\ A.weighing[r] = None /\ B.weighing[r] # None
                                  /\ B.weighing[r].worker = w /\ B.weighing[r].at > A.worker[w].off
        BY <2>1 DEF BackToWork
      <3>2. C.weighing[r] # None /\ C.weighing[r].worker = w /\ C.weighing[r].at = B.weighing[r].at
        BY <3>1 DEF Grows, Keeps
      <3> QED
        BY <3>1, <3>2 DEF BackToWork
    <2>2. CASE B.worker[w].off = A.worker[w].off
      <3>1. Off(B, w)
        BY <1>2, <2>2 DEF Off, Grows, Keeps
      <3>2. CASE C.worker[w].off = B.worker[w].off
        BY <2>2, <3>2
      <3>3. CASE BackToWork(B, C, w)
        <4>1. \A r \in Weighing : B.weighing[r] = None => A.weighing[r] = None
          BY DEF Grows, Keeps
        <4> QED
          BY <2>2, <3>3, <4>1 DEF BackToWork
      <3> QED
        BY <3>1, <3>2, <3>3 DEF Grows, StaysOff
    <2> QED
      BY <1>2, <2>1, <2>2 DEF Grows, StaysOff
  <1> QED
    BY <1>1, <1>2 DEF Grows, StaysOff

LEMMA SameGrows ==
    ASSUME NEW B, NEW C, C.worker = B.worker, C.weighing = B.weighing, C.money = B.money
    PROVE  Grows(B, C)
  BY DEF Grows, Keeps, StaysOff

\* Each of the four leaves books in which nothing was lost.
LEMMA TakesOnGrows ==
    ASSUME NEW B \in Books, Founded(B), NEW e \in Envelope, NEW C, TakesOn(B, C, e)
    PROVE  C \in Books /\ Founded(C) /\ Grows(B, C) /\ C.ops = B.ops
  <1>1. e.row \in Worker
    BY DEF TakesOn, Envelope, Asked, TableOf
  <1>2. PICK row \in WorkerRow : C = [B EXCEPT !.worker[e.row] = row]
    BY DEF TakesOn
  <1>3. /\ C \in Books /\ C.weighing = B.weighing /\ C.money = B.money /\ C.ops = B.ops
        /\ \A w \in Worker : C.worker[w] = IF w = e.row THEN row ELSE B.worker[w]
    BY <1>1, <1>2 DEF Books
  <1>4. row # None /\ B.worker[e.row] = None
    BY NoneAssumption DEF TakesOn
  <1>5. Keeps(B, C) /\ StaysOff(B, C)
    BY <1>3, <1>4 DEF Keeps, StaysOff, Off
  <1>6. Founded(C)
    BY <1>1, <1>3, <1>4 DEF Founded, Books, WeighingRow
  <1> QED
    BY <1>3, <1>5, <1>6 DEF Grows

LEMMA RemovesGrows ==
    ASSUME NEW B \in Books, Founded(B), NEW e \in Envelope, NEW C, Removes(B, C, e)
    PROVE  C \in Books /\ Founded(C) /\ Grows(B, C) /\ C.ops = B.ops
  <1>1. e.row \in Weighing
    BY DEF Removes, Envelope, Asked, TableOf
  <1>2. B.weighing[e.row] \in WeighingRow
    BY <1>1 DEF Removes, Books
  <1> DEFINE row == [B.weighing[e.row] EXCEPT !.live = FALSE]
  <1>3. /\ row \in WeighingRow /\ row # None /\ row.worker = B.weighing[e.row].worker
        /\ row.value = B.weighing[e.row].value /\ row.at = B.weighing[e.row].at
    <2>1. row \in WeighingRow
      BY <1>2 DEF WeighingRow
    <2> QED
      BY <1>2, <2>1, NoneAssumption DEF WeighingRow
  <1>4. C = [B EXCEPT !.weighing[e.row] = row]
    BY DEF Removes, Books
  <1> HIDE DEF row
  <1>5. /\ C \in Books /\ C.worker = B.worker /\ C.money = B.money /\ C.ops = B.ops
        /\ \A r \in Weighing : C.weighing[r] = IF r = e.row THEN row ELSE B.weighing[r]
    BY <1>1, <1>3, <1>4 DEF Books
  <1>6. Keeps(B, C) /\ StaysOff(B, C)
    BY <1>3, <1>5 DEF Keeps, StaysOff, Off, Removes
  <1>7. Founded(C)
    BY <1>3, <1>5 DEF Founded, Removes
  <1> QED
    BY <1>5, <1>6, <1>7 DEF Grows

LEMMA WeighsGrows ==
    ASSUME NEW B \in Books, Founded(B), NEW d \in Handset, NEW e \in Envelope, NEW C,
           Weighs(B, C, d, e)
    PROVE  C \in Books /\ Founded(C) /\ Grows(B, C) /\ C.ops = B.ops
  <1> DEFINE row == [by |-> d, worker |-> e.worker, value |-> e.value,
                     at |-> e.at, live |-> TRUE, settled |-> FALSE]
             old == B.worker[e.worker]
             who == ReactivateForWork(old, e.at)
  <1>1. e.row \in Weighing /\ e.worker \in Worker /\ e.at \in Nat
    BY DEF Weighs, Envelope, Asked, TableOf
  <1>2. row \in WeighingRow /\ row # None
    <2>1. e.worker \in Worker /\ e.value \in Value /\ e.at \in Nat
      BY DEF Envelope
    <2>2. row \in WeighingRow
      BY <2>1 DEF WeighingRow
    <2> QED
      BY <2>2, NoneAssumption
  <1>3. old \in WorkerRow /\ old # None
    BY <1>1 DEF Weighs, Books
  <1>4. /\ who \in WorkerRow /\ who # None
        /\ who.off = old.off \/ (old.off # None /\ e.at > old.off)
    <2>1. who \in WorkerRow
      BY <1>3 DEF ReactivateForWork, WorkerRow
    <2> QED
      BY <1>3, <2>1, NoneAssumption DEF ReactivateForWork, WorkerRow
  <1>5. C = [B EXCEPT !.weighing[e.row] = row, !.worker[e.worker] = who]
    BY DEF Weighs
  <1>6. row.worker = e.worker /\ row.at = e.at
    OBVIOUS
  <1> HIDE DEF row, who
  <1>7. /\ C \in Books /\ C.money = B.money /\ C.ops = B.ops
        /\ \A r \in Weighing : C.weighing[r] = IF r = e.row THEN row ELSE B.weighing[r]
        /\ \A w \in Worker : C.worker[w] = IF w = e.worker THEN who ELSE B.worker[w]
    BY <1>1, <1>2, <1>4, <1>5 DEF Books
  <1>8. Keeps(B, C)
    BY <1>4, <1>7 DEF Keeps, Weighs
  <1>9. ASSUME NEW w \in Worker, Off(B, w)
        PROVE  C.worker[w].off = B.worker[w].off \/ BackToWork(B, C, w)
    <2>1. CASE w # e.worker \/ who.off = old.off
      BY <1>7, <2>1
    <2>2. CASE w = e.worker /\ e.at > old.off
      <3>1. B.weighing[e.row] = None /\ C.weighing[e.row] = row
        BY <1>1, <1>7 DEF Weighs
      <3> QED
        BY <1>1, <1>2, <1>6, <2>2, <3>1 DEF BackToWork
    <2> QED
      BY <1>4, <2>1, <2>2
  <1>10. Founded(C)
    <2>1. \A r \in Weighing : B.weighing[r] # None => B.weighing[r].worker \in Worker
      BY DEF Books, WeighingRow
    <2> QED
      BY <1>1, <1>2, <1>4, <1>6, <1>7, <2>1 DEF Founded
  <1> QED
    BY <1>7, <1>8, <1>9, <1>10 DEF Grows, StaysOff

LEMMA CreditsGrows ==
    ASSUME NEW B \in Books, Founded(B), NEW e \in Envelope, NEW C, Credits(B, C, e)
    PROVE  C \in Books /\ Founded(C) /\ Grows(B, C) /\ C.ops = B.ops
  <1> DEFINE row == [worker |-> e.worker, value |-> e.value]
  <1>1. e.row \in Movement /\ row \in MovementRow
    BY DEF Credits, Envelope, Asked, TableOf, MovementRow
  <1>2. C = [B EXCEPT !.money[e.row] = row] /\ B.money[e.row] = None
    BY DEF Credits
  <1> HIDE DEF row
  <1>3. /\ C \in Books /\ C.worker = B.worker /\ C.weighing = B.weighing /\ C.ops = B.ops
        /\ \A m \in Movement : C.money[m] = IF m = e.row THEN row ELSE B.money[m]
    BY <1>1, <1>2 DEF Books
  <1>4. Keeps(B, C) /\ StaysOff(B, C) /\ Founded(C)
    BY <1>2, <1>3 DEF Keeps, StaysOff, Off, Founded
  <1> QED
    BY <1>3, <1>4 DEF Grows

\* One envelope, with what is remembered of it.
LEMMA OneEnvelope ==
    ASSUME NEW B \in Books, Founded(B), NEW d \in Handset, NEW e \in Envelope, now \in Nat
    PROVE  LET v == PushOne(B, d, e) IN
           v \in Verdicts /\ Founded(v.books) /\ Grows(B, v.books)
  <1> DEFINE u == ApplyPushOp(B, d, e)
             v == PushOne(B, d, e)
             C == u.books
  <1>1. /\ u.answer \in Answer
        /\ C = B \/ TakesOn(B, C, e) \/ Removes(B, C, e) \/ Weighs(B, C, d, e) \/ Credits(B, C, e)
    BY EnvelopeDoes
  <1>2. C \in Books /\ Founded(C) /\ Grows(B, C)
    <2> HIDE DEF C
    <2>1. CASE C = B
      BY <2>1, SameGrows
    <2> QED
      BY <1>1, <2>1, TakesOnGrows, RemovesGrows, WeighsGrows, CreditsGrows
  <1>3. CASE FindSyncOp(B, e) # "new"
    <2>1. v = Verdict(B, FindSyncOp(B, e))
      BY <1>3 DEF PushOne
    <2>2. FindSyncOp(B, e) \in Answer
      BY <1>3 DEF FindSyncOp, Answer, Books, Remembered, Envelope
    <2>3. v \in Verdicts /\ v.books = B
      BY <2>1, <2>2 DEF Verdict, Verdicts
    <2> QED
      BY <2>3, SameGrows
  <1>4. CASE FindSyncOp(B, e) = "new"
    <2> DEFINE D == RecordSyncOp(C, e, u.answer)
    <2>1. v = Verdict(D, u.answer)
      BY <1>4 DEF PushOne
    <2>2. D \in Books /\ D.worker = C.worker /\ D.weighing = C.weighing /\ D.money = C.money
      <3>1. Act(e) \in [entity : DOMAIN TableOf, row : UNION {Worker, Weighing, Movement},
                        worker : Worker, value : Value, deleted : BOOLEAN, at : Nat]
        BY DEF Act, Envelope
      <3>2. u.answer \in Done => [act |-> Act(e), answer |-> u.answer] \in Remembered
        <4>1. Asked(Act(e))
          BY DEF Act, Envelope, Asked
        <4> QED
          BY <3>1, <4>1 DEF Remembered
      <3>3. e.opId \in OpId
        BY DEF Envelope
      <3> HIDE DEF C, u
      <3> QED
        BY <1>2, <3>2, <3>3 DEF RecordSyncOp, Books
    <2>3. v \in Verdicts /\ v.books = D
      BY <1>1, <2>1, <2>2 DEF Verdict, Verdicts
    <2>4. Founded(D) /\ Grows(B, D)
      <3> HIDE DEF C, D
      <3>1. Founded(D) /\ Grows(C, D)
        BY <1>2, <2>2, SameGrows DEF Founded
      <3> QED
        BY <1>2, <3>1, GrowsOn
    <2> HIDE DEF D
    <2> QED
      BY <2>3, <2>4
  <1> QED
    BY <1>3, <1>4

\* A batch, up to each of its envelopes.
LEMMA BatchRuns ==
    ASSUME now \in Nat, books \in Books, Founded(books),
           NEW d \in Handset, NEW batch \in Seq(Envelope),
           NEW ran, ran = PushAll(d, batch)
    PROVE  /\ Len(batch) \in Nat /\ DOMAIN batch = 1..Len(batch)
           /\ ran[0].books = books
           /\ \A i \in 1..Len(batch) :
                 /\ batch[i] \in Envelope
                 /\ i - 1 \in 0..Len(batch)
                 /\ ran[i] = PushOne(ran[i - 1].books, d, batch[i])
           /\ \A i \in 0..Len(batch) :
                 /\ ran[i] \in Verdicts /\ Founded(ran[i].books)
                 /\ Grows(books, ran[i].books)
  <1> DEFINE n == Len(batch)
             X == {v \in Verdicts : Founded(v.books)}
             x0 == Verdict(books, "none")
             step == [i \in 1..n |-> [v \in X |-> PushOne(v.books, d, batch[i])]]
             Run(f) == f = [i \in 0..n |-> IF i = 0 THEN x0
                                          ELSE PushOne(f[i - 1].books, d, batch[i])]
  <1>1. n \in Nat /\ DOMAIN batch = 1..n /\ \A i \in 1..n : batch[i] \in Envelope
    OBVIOUS
  <1>2. x0 \in X /\ x0.books = books
    BY DEF Verdict, Verdicts, Answer
  <1>3. \A i \in 1..n : \A v \in X : PushOne(v.books, d, batch[i]) \in X
    BY <1>1, OneEnvelope DEF Verdicts
  <1>4. step \in [1..n -> [X -> X]]
    BY <1>3
  <1>5. PICK g \in [0..n -> X] : Path(g, step, n, x0)
    <2> HIDE DEF step, n, X, x0
    <2> QED
      BY <1>1, <1>2, <1>4, StepsCanBeTaken
  <1>6. \A i \in 1..n : g[i] = PushOne(g[i - 1].books, d, batch[i])
    <2> TAKE i \in 1..n
    <2>1. i - 1 \in 0..n
      BY <1>1
    <2>2. g[i - 1] \in X
      BY <1>5, <2>1
    <2> HIDE DEF X, n
    <2> QED
      BY <1>5, <2>2 DEF Path
  <1>7. Run(g)
    <2>1. \A i \in 0..n : g[i] = IF i = 0 THEN x0 ELSE PushOne(g[i - 1].books, d, batch[i])
      <3> TAKE i \in 0..n
      <3>1. CASE i = 0
        BY <1>5, <3>1 DEF Path
      <3>2. CASE i # 0
        <4>1. i \in 1..n
          BY <1>1, <3>2
        <4> QED
          BY <1>6, <3>2, <4>1
      <3> QED
        BY <3>1, <3>2
    <2>2. g = [i \in 0..n |-> g[i]]
      BY <1>5
    <2> HIDE DEF x0, n, X
    <2> QED
      BY <2>1, <2>2
  <1>8. Run(ran)
    <2>1. ran = CHOOSE f : Run(f)
      BY DEF PushAll
    <2> HIDE DEF Run
    <2> QED
      BY <1>7, <2>1
  <1>9. /\ ran[0] = x0
        /\ \A i \in 1..n : i - 1 \in 0..n /\ ran[i] = PushOne(ran[i - 1].books, d, batch[i])
    <2>1. 0 \in 0..n /\ \A i \in 1..n : i \in 0..n /\ i # 0 /\ i - 1 \in 0..n
      BY <1>1
    <2> HIDE DEF x0, n
    <2> QED
      BY <1>8, <2>1
  <1> DEFINE P == {i \in 0..n : /\ ran[i] \in Verdicts /\ Founded(ran[i].books)
                                /\ Grows(books, ran[i].books)}
  <1>10. 0 \in P
    BY <1>1, <1>2, <1>9, SameGrows
  <1>11. ASSUME NEW i \in 1..n, i - 1 \in P
         PROVE  i \in P
    <2>1. /\ ran[i - 1] \in Verdicts /\ ran[i - 1].books \in Books
          /\ Founded(ran[i - 1].books) /\ Grows(books, ran[i - 1].books)
      BY <1>11 DEF Verdicts
    <2>2. ran[i] = PushOne(ran[i - 1].books, d, batch[i]) /\ batch[i] \in Envelope
      BY <1>1, <1>9
    <2>3. ran[i] \in Verdicts /\ Founded(ran[i].books) /\ Grows(ran[i - 1].books, ran[i].books)
      BY <2>1, <2>2, OneEnvelope
    <2>4. Grows(books, ran[i].books)
      BY <2>1, <2>3, GrowsOn
    <2>5. i \in 0..n
      BY <1>1
    <2> QED
      BY <2>3, <2>4, <2>5
  <1>12. \A i \in 0..n : i \in P
    <2> HIDE DEF n, P
    <2> QED
      BY <1>1, <1>10, <1>11, StepByStep
  <1> QED
    BY <1>1, <1>2, <1>9, <1>12

-----------------------------------------------------------------------------
(***************************************************************************)
(* What a push does, and what everything else does.                        *)
(***************************************************************************)
BooksTyped ==
    /\ now \in Nat /\ books \in Books /\ Founded(books)

LEMMA TypesAre ==
    ASSUME PushTypeOK
    PROVE  BooksTyped
  BY DEF PushTypeOK, BooksTyped, Founded

\* The envelopes of a batch that were given one of these answers.
AnsweredIn(batch, ran, answers) ==
    {batch[i] : i \in {k \in DOMAIN batch : ran[k].answer \in answers}}

\* Every step but those of the office lets the books grow, and none of them loses
\* what is in them.
LEMMA BooksGrow ==
    ASSUME PushTypeOK, [PushNext]_pushVars
    PROVE  /\ books' \in Books /\ Founded(books')
           /\ Keeps(books, books')
           /\ office' = office => StaysOff(books, books')
           /\ now' \in Nat
  <1> USE TypesAre DEF BooksTyped
  <1>1. CASE books' = books
    <2>1. now' = now \/ now' = now + 1
      BY <1>1 DEF PushNext, Step, pushVars, Note, Send, Push, DeactivateWorker, RestoreWorker,
                 DeleteWorkRecord, SettleWorkRecord, PruneSyncOps, InTheOffice
    <2> QED
      BY <1>1, <2>1, SameGrows DEF Grows
  <1>2. ASSUME NEW d \in Handset, NEW batch \in wire[d], NEW commits \in BOOLEAN,
               NEW arrives \in BOOLEAN, Push(d, batch, commits, arrives)
        PROVE  /\ books' \in Books /\ Founded(books') /\ Grows(books, books')
               /\ now' \in Nat
    <2> DEFINE ran == PushAll(d, batch)
    <2>1. batch \in Seq(Envelope)
      BY DEF PushTypeOK
    <2>2. \A i \in 0..Len(batch) :
            ran[i] \in Verdicts /\ Founded(ran[i].books) /\ Grows(books, ran[i].books)
      BY <2>1, BatchRuns
    <2>3. Len(batch) \in 0..Len(batch)
      BY <2>1
    <2>4. /\ books' = IF commits THEN ran[Len(batch)].books ELSE books
          /\ now' = now \/ now' = now + 1
      BY <1>2 DEF Push
    <2> HIDE DEF ran
    <2>5. Grows(books, books)
      BY SameGrows
    <2> QED
      BY <2>2, <2>3, <2>4, <2>5 DEF Verdicts
  <1>3. ASSUME NEW w \in Worker, DeactivateWorker(w) \/ RestoreWorker(w)
        PROVE  books' \in Books /\ Founded(books') /\ Keeps(books, books') /\ office' # office
               /\ now' \in Nat
    <2>1. PICK off \in Nat \cup {None} : books' = [books EXCEPT !.worker[w].off = off]
      BY <1>3 DEF DeactivateWorker, RestoreWorker, InTheOffice
    <2> DEFINE row == [books.worker[w] EXCEPT !.off = off]
    <2>2. books.worker[w] \in WorkerRow
      BY <1>3 DEF DeactivateWorker, RestoreWorker, Books
    <2>3. row \in WorkerRow /\ row # None
      BY <2>2, NoneAssumption DEF WorkerRow
    <2>4. books' = [books EXCEPT !.worker[w] = row]
      BY <2>1 DEF Books
    <2> HIDE DEF row
    <2>5. /\ books' \in Books /\ books'.weighing = books.weighing /\ books'.money = books.money
          /\ \A x \in Worker : books'.worker[x] = IF x = w THEN row ELSE books.worker[x]
      BY <2>3, <2>4 DEF Books
    <2>6. Founded(books') /\ Keeps(books, books')
      BY <2>3, <2>5 DEF Founded, Keeps, Books, WeighingRow
    <2>7. office' # office /\ now' \in Nat
      BY <1>3, SceneAssumption DEF DeactivateWorker, RestoreWorker, InTheOffice, PushTypeOK
    <2> QED
      BY <2>5, <2>6, <2>7
  <1>4. ASSUME NEW r \in Weighing, DeleteWorkRecord(r) \/ SettleWorkRecord(r)
        PROVE  books' \in Books /\ Founded(books') /\ Keeps(books, books') /\ office' # office
               /\ now' \in Nat
    <2> DEFINE old == books.weighing[r]
    <2>1. old \in WeighingRow /\ old # None
      BY <1>4 DEF DeleteWorkRecord, SettleWorkRecord, Books
    <2>2. PICK row \in WeighingRow :
             /\ row.worker = old.worker /\ row.value = old.value /\ row.at = old.at
             /\ books' = [books EXCEPT !.weighing[r] = row]
      <3>1. CASE DeleteWorkRecord(r)
        <4>1. books' = [books EXCEPT !.weighing[r] = [old EXCEPT !.live = FALSE]]
          BY <3>1 DEF DeleteWorkRecord, InTheOffice, Books
        <4> QED
          BY <2>1, <4>1 DEF WeighingRow
      <3>2. CASE SettleWorkRecord(r)
        <4>1. books' = [books EXCEPT !.weighing[r] = [old EXCEPT !.settled = TRUE]]
          BY <3>2 DEF SettleWorkRecord, InTheOffice, Books
        <4> QED
          BY <2>1, <4>1 DEF WeighingRow
      <3> QED
        BY <1>4, <3>1, <3>2
    <2>3. /\ books' \in Books /\ books'.worker = books.worker /\ books'.money = books.money
          /\ \A q \in Weighing : books'.weighing[q] = IF q = r THEN row ELSE books.weighing[q]
      BY <2>2 DEF Books
    <2>4. Founded(books') /\ Keeps(books, books')
      BY <2>1, <2>2, <2>3, NoneAssumption DEF Founded, Keeps
    <2>5. office' # office /\ now' \in Nat
      BY <1>4, SceneAssumption DEF DeleteWorkRecord, SettleWorkRecord, InTheOffice, PushTypeOK
    <2> QED
      BY <2>3, <2>4, <2>5
  <1>5. ASSUME PruneSyncOps
        PROVE  books' \in Books /\ Founded(books') /\ Grows(books, books') /\ now' \in Nat
    <2>1. PICK old \in SUBSET {o \in OpId : books.ops[o] # None} :
             books' = [books EXCEPT !.ops =
                          [o \in OpId |-> IF o \in old THEN None ELSE books.ops[o]]]
      BY <1>5 DEF PruneSyncOps
    <2>2. /\ books' \in Books /\ books'.worker = books.worker /\ books'.money = books.money
          /\ books'.weighing = books.weighing
      BY <2>1 DEF Books
    <2> QED
      BY <1>5, <2>2, SameGrows DEF Founded, PruneSyncOps
  <1> QED
    <2>1. CASE UNCHANGED pushVars
      BY <1>1, <2>1 DEF pushVars
    <2>2. CASE \E d \in Handset : Note(d) \/ Send(d)
      BY <1>1, <2>2 DEF Note, Send
    <2> QED
      BY <1>2, <1>3, <1>4, <1>5, <2>1, <2>2 DEF PushNext, Step, Grows

\* What becomes of the outboxes and the batches under way: they are made of what
\* was in them, and of what is noted.
LEMMA EnvelopesMove ==
    ASSUME PushTypeOK, [PushNext]_pushVars, NEW S, S \subseteq Envelope,
           outbox \in [Handset -> Seq(S)], wire \in [Handset -> SUBSET Seq(S)],
           \A d \in Handset : Note(d) => Last(outbox'[d]) \in S
    PROVE  outbox' \in [Handset -> Seq(S)] /\ wire' \in [Handset -> SUBSET Seq(S)]
  <1>1. CASE outbox' = outbox /\ wire' = wire
    BY <1>1
  <1>2. ASSUME NEW d \in Handset, Note(d)
        PROVE  outbox' \in [Handset -> Seq(S)] /\ wire' = wire
    <2>1. PICK e : outbox' = [outbox EXCEPT ![d] = Append(@, e)]
      BY <1>2 DEF Note
    <2>2. outbox'[d] = Append(outbox[d], e) /\ outbox[d] \in Seq(S)
      BY <2>1
    <2>3. Last(outbox'[d]) = e
      BY <2>2 DEF Last
    <2>4. e \in S
      BY <1>2, <2>3
    <2>5. Append(outbox[d], e) \in Seq(S)
      BY <2>2, <2>4
    <2> QED
      BY <1>2, <2>1, <2>5 DEF Note
  <1>3. ASSUME NEW d \in Handset, Send(d)
        PROVE  outbox' = outbox /\ wire' \in [Handset -> SUBSET Seq(S)]
    BY <1>3 DEF Send
  <1>4. ASSUME NEW d \in Handset, NEW batch \in wire[d], NEW commits \in BOOLEAN,
               NEW arrives \in BOOLEAN, Push(d, batch, commits, arrives)
        PROVE  outbox' \in [Handset -> Seq(S)] /\ wire' \in [Handset -> SUBSET Seq(S)]
    <2> DEFINE ran == PushAll(d, batch)
               gone == ToSet(batch) \ AnsweredIn(batch, ran, Retried)
    <2>1. /\ wire' = [wire EXCEPT ![d] = @ \ {batch}]
          /\ outbox' = IF arrives THEN [outbox EXCEPT ![d] = Without(@, gone)] ELSE outbox
      BY <1>4 DEF Push, AnsweredIn
    <2> HIDE DEF gone
    <2>2. outbox[d] \in Seq(S)
      OBVIOUS
    <2>3. Without(outbox[d], gone) \in Seq(S)
      BY <2>2, WithoutIsPart
    <2> QED
      BY <2>1, <2>3
  <1> QED
    BY <1>1, <1>2, <1>3, <1>4
       DEF PushNext, Step, pushVars, DeactivateWorker, RestoreWorker, DeleteWorkRecord,
           SettleWorkRecord, PruneSyncOps, InTheOffice

LEMMA PushTypesStart ==
    ASSUME PushInit
    PROVE  PushTypeOK
  <1>1. (CHOOSE v \in Value : TRUE) \in Value
    BY ValueAssumption
  <1> DEFINE first == CHOOSE v \in Value : TRUE
  <1>2. [name |-> first, off |-> None] \in WorkerRow
    BY <1>1 DEF WorkerRow
  <1>3. books \in Books /\ \A r \in Weighing : books.weighing[r] = None
    <2> HIDE DEF first
    <2> QED
      BY <1>2 DEF PushInit, Books, first
  <1>4. \A d \in Handset : Len(scene.diary[d]) \in Nat
    BY SceneAssumption DEF PushInit
  <1> QED
    BY <1>3, <1>4, SceneAssumption DEF PushInit, PushTypeOK

\* What is noted is the next act of the diary, with the key and the time it was at.
LEMMA NoteWrites ==
    ASSUME PushTypeOK, NEW d \in Handset, Note(d)
    PROVE  LET e == Last(outbox'[d])
               act == scene.diary[d][noted[d] + 1]
           IN  /\ e \in Envelope
               /\ noted[d] + 1 \in DOMAIN scene.diary[d]
               /\ e.entity = act.entity /\ e.row = act.row /\ e.deleted = act.deleted
               /\ e.worker = act.worker /\ e.value = act.value
  <1> DEFINE act == scene.diary[d][noted[d] + 1]
             e == [opId |-> act.opId, entity |-> act.entity, row |-> act.row,
                   worker |-> act.worker, value |-> act.value, deleted |-> act.deleted,
                   at |-> now]
  <1>1. outbox' = [outbox EXCEPT ![d] = Append(@, e)] /\ noted[d] < Len(scene.diary[d])
    BY DEF Note
  <1>2. scene.diary \in [Handset -> Seq(Entry)]
    BY SceneAssumption DEF PushTypeOK
  <1>3. noted[d] + 1 \in DOMAIN scene.diary[d]
    BY <1>1, <1>2 DEF PushTypeOK
  <1>4. act \in Entry
    BY <1>2, <1>3
  <1>5. /\ e.entity = act.entity /\ e.row = act.row /\ e.deleted = act.deleted
        /\ e.worker = act.worker /\ e.value = act.value
    OBVIOUS
  <1> HIDE DEF act
  <1>6. e \in Envelope
    BY <1>4 DEF Entry, Envelope, Asked, PushTypeOK
  <1> HIDE DEF e
  <1>7. outbox'[d] = Append(outbox[d], e) /\ outbox[d] \in Seq(Envelope)
    BY <1>1 DEF PushTypeOK
  <1>8. Last(outbox'[d]) = e
    BY <1>6, <1>7 DEF Last
  <1> QED
    BY <1>3, <1>5, <1>6, <1>8 DEF act

\* What a push lets a handset be told: its answers, of which those count as saved
\* that a committed batch has given.
LEMMA WhatIsTold ==
    ASSUME unsaved \subseteq told, NEW d \in Handset, NEW batch \in wire[d],
           NEW commits \in BOOLEAN, NEW arrives \in BOOLEAN, Push(d, batch, commits, arrives)
    PROVE  LET done == AnsweredIn(batch, PushAll(d, batch), Done) IN
           /\ told' \subseteq told \cup done /\ unsaved' \subseteq told'
           /\ told' \ unsaved' \subseteq (told \ unsaved) \cup (IF commits THEN done ELSE {})
  <1> DEFINE done == AnsweredIn(batch, PushAll(d, batch), Done)
  <1>1. /\ commits \/ arrives
        /\ told' = IF arrives THEN told \cup done ELSE told
        /\ unsaved' = IF commits THEN unsaved \ done ELSE unsaved \cup (done \ told)
    BY DEF Push, AnsweredIn
  <1> HIDE DEF done
  <1>2. /\ told' \subseteq told \cup done /\ unsaved' \subseteq told'
        /\ told' \ unsaved' \subseteq (told \ unsaved) \cup (IF commits THEN done ELSE {})
    <2>1. CASE commits
      BY <1>1, <2>1
    <2>2. CASE ~commits
      BY <1>1, <2>2
    <2> QED
      BY <2>1, <2>2
  <1> QED
    BY <1>2 DEF done

LEMMA PushTypesStay ==
    ASSUME PushTypeOK, [PushNext]_pushVars
    PROVE  PushTypeOK'
  <1>1. scene' = scene /\ scene \in Scene
    BY DEF PushNext, pushVars, PushTypeOK
  <1>2. books' \in Books /\ Founded(books') /\ now' \in Nat
    BY BooksGrow
  <1>3. /\ scene.diary \in [Handset -> Seq(Entry)]
        /\ scene.officeCap \in Nat /\ scene.pruneCap \in Nat
    BY <1>1, SceneAssumption
  <1>4. \A d \in Handset : Note(d) => Last(outbox'[d]) \in Envelope
    BY NoteWrites
  <1>5. outbox' \in [Handset -> Seq(Envelope)] /\ wire' \in [Handset -> SUBSET Seq(Envelope)]
    <2>1. outbox \in [Handset -> Seq(Envelope)] /\ wire \in [Handset -> SUBSET Seq(Envelope)]
      BY DEF PushTypeOK
    <2> QED
      BY <1>4, <2>1, EnvelopesMove
  <1>6. /\ noted' \in [Handset -> Nat]
        /\ \A d \in Handset : noted'[d] \in 0..Len(scene.diary[d])
    <2>1. CASE noted' = noted
      BY <2>1 DEF PushTypeOK
    <2>2. ASSUME NEW d \in Handset, Note(d)
          PROVE  /\ noted' \in [Handset -> Nat]
                 /\ \A f \in Handset : noted'[f] \in 0..Len(scene.diary[f])
      <3>1. noted' = [noted EXCEPT ![d] = @ + 1] /\ noted[d] < Len(scene.diary[d])
        BY <2>2 DEF Note
      <3>2. Len(scene.diary[d]) \in Nat
        BY <1>3
      <3> QED
        BY <3>1, <3>2 DEF PushTypeOK
    <2> QED
      BY <2>1, <2>2
         DEF PushNext, Step, pushVars, Send, Push, DeactivateWorker, RestoreWorker,
             DeleteWorkRecord, SettleWorkRecord, PruneSyncOps, InTheOffice
  <1>7. told' \subseteq Envelope /\ unsaved' \subseteq told'
    <2>1. ASSUME NEW d \in Handset, NEW batch \in wire[d], NEW commits \in BOOLEAN,
                 NEW arrives \in BOOLEAN, Push(d, batch, commits, arrives)
          PROVE  told' \subseteq Envelope /\ unsaved' \subseteq told'
      <3> DEFINE done == AnsweredIn(batch, PushAll(d, batch), Done)
      <3>1. done \subseteq Envelope
        BY DEF AnsweredIn, PushTypeOK
      <3>2. told' \subseteq told \cup done /\ unsaved' \subseteq told'
        BY <2>1, WhatIsTold DEF PushTypeOK
      <3> HIDE DEF done
      <3> QED
        BY <3>1, <3>2 DEF PushTypeOK
    <2>2. CASE told' = told /\ unsaved' = unsaved
      BY <2>2 DEF PushTypeOK
    <2> QED
      BY <2>1, <2>2
         DEF PushNext, Step, pushVars, Note, Send, DeactivateWorker, RestoreWorker,
             DeleteWorkRecord, SettleWorkRecord, PruneSyncOps, InTheOffice
  <1>8. office' \in 0..scene.officeCap /\ sweeps' \in 0..scene.pruneCap
    <2>1. /\ office' = office \/ (office < scene.officeCap /\ office' = office + 1)
          /\ sweeps' = sweeps \/ (sweeps < scene.pruneCap /\ sweeps' = sweeps + 1)
      BY DEF PushNext, Step, pushVars, Note, Send, Push, DeactivateWorker,
             RestoreWorker, DeleteWorkRecord, SettleWorkRecord, PruneSyncOps, InTheOffice
    <2> QED
      BY <1>3, <2>1 DEF PushTypeOK
  <1> QED
    BY <1>1, <1>2, <1>5, <1>6, <1>7, <1>8 DEF PushTypeOK, Founded

\* Whatever is pushed, in any order, late, twice or without an answer: what the farm
\* holds are rows of the tables' types, no weighing is of a worker it does not have,
\* and the registry remembers what was done and no refusal.
THEOREM PushTyped == PushSpec => []PushTypeOK
  <1>1. PushInit => PushTypeOK
    BY PushTypesStart
  <1>2. PushTypeOK /\ [PushNext]_pushVars => PushTypeOK'
    BY PushTypesStay
  <1> QED
    BY <1>1, <1>2, PTL DEF PushSpec

\* For any handsets and any batches: a push puts nobody back on the payroll who was
\* taken off, but with a weighing it brings for the first time, of work done after.
THEOREM TheRemovalWins == PushSpec => RemovalWins
  <1>1. PushTypeOK /\ [PushNext]_pushVars
          => \A w \in Worker :
                /\ office' = office /\ books.worker[w] # None
                /\ books.worker[w].off # None /\ books'.worker[w].off = None
                => \E r \in Weighing :
                      /\ books.weighing[r] = None /\ books'.weighing[r] # None
                      /\ books'.weighing[r].worker = w
                      /\ books'.weighing[r].at > books.worker[w].off
    BY BooksGrow DEF StaysOff, Off, BackToWork
  <1> QED
    BY <1>1, PushTyped, PTL DEF PushSpec, RemovalWins

-----------------------------------------------------------------------------
(***************************************************************************)
(* What a handset was told is done was done, if the commit behind the      *)
(* answer was.  The registry answers for an envelope it remembers, so what *)
(* it remembers must stand; and "duplicate" says of a weighing no more     *)
(* than that its id is there, so an id must be of one weighing, on the     *)
(* handsets and in the books.                                              *)
(***************************************************************************)
\* Somebody wrote down a weighing of this worker and this quantity under this id.
Said(r, w, v) ==
    \E d \in Handset : \E i \in DOMAIN scene.diary[d] :
        LET a == scene.diary[d][i] IN
        /\ a.entity = "weighing" /\ ~a.deleted
        /\ a.row = r /\ a.worker = w /\ a.value = v

Honest == {e \in Envelope : e.entity = "weighing" /\ ~e.deleted => Said(e.row, e.worker, e.value)}

Agreed(B) ==
    \A r \in Weighing : B.weighing[r] # None =>
        Said(r, B.weighing[r].worker, B.weighing[r].value)

Remembers(B) == \A o \in OpId : B.ops[o] # None => Stands(B, B.ops[o].act)

FactInv ==
    /\ outbox \in [Handset -> Seq(Honest)]
    /\ wire \in [Handset -> SUBSET Seq(Honest)]
    /\ Agreed(books) /\ Remembers(books)
    /\ FactsAreKept

LEMMA SaidOnce ==
    ASSUME OneWeighingPerId, scene \in Scene, NEW r, NEW w, NEW v, NEW x, NEW u,
           Said(r, w, v), Said(r, x, u)
    PROVE  w = x /\ v = u
  <1>1. PICK d \in Handset : \E i \in DOMAIN scene.diary[d] :
            LET a == scene.diary[d][i] IN
            a.entity = "weighing" /\ ~a.deleted /\ a.row = r /\ a.worker = w /\ a.value = v
    BY DEF Said
  <1>2. PICK i \in DOMAIN scene.diary[d] :
            LET a == scene.diary[d][i] IN
            a.entity = "weighing" /\ ~a.deleted /\ a.row = r /\ a.worker = w /\ a.value = v
    BY <1>1
  <1>3. PICK f \in Handset : \E k \in DOMAIN scene.diary[f] :
            LET a == scene.diary[f][k] IN
            a.entity = "weighing" /\ ~a.deleted /\ a.row = r /\ a.worker = x /\ a.value = u
    BY DEF Said
  <1>4. PICK k \in DOMAIN scene.diary[f] :
            LET a == scene.diary[f][k] IN
            a.entity = "weighing" /\ ~a.deleted /\ a.row = r /\ a.worker = x /\ a.value = u
    BY <1>3
  <1> QED
    BY <1>2, <1>4 DEF OneWeighingPerId

LEMMA StandsOn ==
    ASSUME NEW B, NEW C, Keeps(B, C), NEW e, Asked(e), Stands(B, e),
           \A m \in Movement : B.money[m] \in MovementRow \cup {None},
           e.worker \in Worker, e.value \in Value
    PROVE  Stands(C, e)
  <1>1. e.entity = "weighing" => e.row \in Weighing
    BY DEF Asked, TableOf
  <1>2. e.entity = "movement" =>
           /\ e.row \in Movement /\ [worker |-> e.worker, value |-> e.value] # None
    BY NoneAssumption DEF Asked, TableOf, MovementRow
  <1> QED
    BY <1>1, <1>2 DEF Stands, Keeps

\* What an envelope that is done says is in the books once it was run.
LEMMA DoneIsThere ==
    ASSUME OneWeighingPerId, scene \in Scene, now \in Nat,
           NEW B \in Books, Agreed(B), NEW d \in Handset, NEW e \in Honest
    PROVE  LET v == ApplyPushOp(B, d, e) IN
           Agreed(v.books) /\ (v.answer \in Done => Stands(v.books, e))
  <1> DEFINE u == ApplyPushEntity(B, d, e)
             v == ApplyPushOp(B, d, e)
             C == v.books
  <1>1. e \in Envelope /\ e.entity \in {"worker", "weighing", "movement"} /\ Asked(e)
    BY DEF Honest, Envelope, TableOf
  <1>2. v = IF u.answer = "applied" THEN u ELSE Verdict(B, u.answer)
    BY DEF ApplyPushOp
  <1>3. \/ C = B
        \/ v.answer = "applied" /\ TakesOn(B, C, e)
        \/ v.answer = "applied" /\ Removes(B, C, e)
        \/ v.answer = "applied" /\ Weighs(B, C, d, e)
        \/ v.answer = "applied" /\ Credits(B, C, e)
    BY <1>1, EnvelopeDoes
  <1>4. CASE Weighs(B, C, d, e)
    <2>1. e.row \in Weighing /\ e.entity = "weighing" /\ ~e.deleted
      BY <1>1, <1>4 DEF Weighs, Asked, TableOf
    <2> DEFINE row == [by |-> d, worker |-> e.worker, value |-> e.value,
                       at |-> e.at, live |-> TRUE, settled |-> FALSE]
    <2>2. row \in WeighingRow
      <3>1. e.worker \in Worker /\ e.value \in Value /\ e.at \in Nat
        BY <1>1 DEF Envelope
      <3> QED
        BY <3>1 DEF WeighingRow
    <2>3. row # None /\ row.worker = e.worker /\ row.value = e.value
      BY <2>2, NoneAssumption
    <2>4. \A r \in Weighing : C.weighing[r] = IF r = e.row THEN row ELSE B.weighing[r]
      BY <1>4, <2>1 DEF Weighs, Books
    <2> HIDE DEF row, C, v
    <2>5. Said(e.row, e.worker, e.value)
      BY <2>1 DEF Honest
    <2>6. Agreed(C)
      BY <2>3, <2>4, <2>5 DEF Agreed
    <2>7. Stands(C, e)
      BY <2>1, <2>3, <2>4 DEF Stands
    <2> QED
      BY <2>6, <2>7 DEF C, v
  <1>5. CASE TakesOn(B, C, e)
    <2>1. C.weighing = B.weighing /\ e.entity = "worker"
      BY <1>5 DEF TakesOn, Books
    <2> QED
      BY <2>1 DEF Agreed, Stands
  <1>6. CASE Removes(B, C, e)
    <2>1. e.entity = "weighing" /\ e.deleted /\ e.row \in Weighing /\ B.weighing[e.row] # None
      BY <1>1, <1>6 DEF Removes, Asked, TableOf
    <2>2. \A r \in Weighing : B.weighing[r] # None =>
             /\ C.weighing[r].worker = B.weighing[r].worker
             /\ C.weighing[r].value = B.weighing[r].value
      BY <1>6, <2>1 DEF Removes, Books, WeighingRow
    <2>3. \A r \in Weighing : C.weighing[r] # None => B.weighing[r] # None
      BY <1>6, <2>1 DEF Removes, Books
    <2>4. Agreed(C)
      <3> HIDE DEF C
      <3> QED
        BY <2>2, <2>3 DEF Agreed
    <2> QED
      BY <2>1, <2>4 DEF Stands
  <1>7. CASE Credits(B, C, e)
    <2>1. C.weighing = B.weighing /\ e.entity = "movement" /\ e.row \in Movement
      BY <1>1, <1>7 DEF Credits, Books, Asked, TableOf
    <2>2. C.money[e.row] = [worker |-> e.worker, value |-> e.value]
      BY <1>7, <2>1 DEF Credits, Books
    <2> QED
      BY <2>1, <2>2 DEF Agreed, Stands
  <1>8. CASE C = B /\ e.entity = "weighing" /\ ~e.deleted /\ v.answer \in Done
    <2>1. e.row \in Weighing
      BY <1>1, <1>8 DEF Asked, TableOf
    <2>2. B.weighing[e.row] # None
      <3>1. v.answer = u.answer
        BY <1>2 DEF Verdict
      <3>2. u = PushWeighing(B, d, e)
        BY <1>8 DEF ApplyPushEntity
      <3>3. CASE B.weighing[e.row] = None
        <4>1. ~Reads(B, d, e.row)
          BY <3>3 DEF Reads
        <4>2. CASE B.worker[e.worker] = None
          BY <1>8, <3>1, <3>2, <4>1, <4>2 DEF PushWeighing, Verdict, Done
        <4>3. CASE B.worker[e.worker] # None
          <5>1. Weighs(B, u.books, d, e) /\ u.answer = "applied"
            BY <1>8, <3>2, <3>3, <4>1, <4>3 DEF PushWeighing, Verdict, Weighs
          <5>2. Weighs(B, C, d, e)
            BY <1>2, <5>1
          <5>3. C.weighing[e.row] # None
            <6> DEFINE row == [by |-> d, worker |-> e.worker, value |-> e.value,
                               at |-> e.at, live |-> TRUE, settled |-> FALSE]
            <6>1. e.worker \in Worker /\ e.value \in Value /\ e.at \in Nat
              BY <1>1 DEF Envelope
            <6>2. row \in WeighingRow
              BY <6>1 DEF WeighingRow
            <6>3. C.weighing[e.row] = row
              <7> HIDE DEF C
              <7> QED
                BY <2>1, <5>2 DEF Weighs, Books
            <6> HIDE DEF row, C
            <6> QED
              BY <6>2, <6>3, NoneAssumption
          <5> QED
            BY <1>8, <5>3
        <4> QED
          BY <4>2, <4>3
      <3> QED
        BY <3>3
    <2>3. Said(e.row, B.weighing[e.row].worker, B.weighing[e.row].value)
      BY <2>1, <2>2 DEF Agreed
    <2>4. Said(e.row, e.worker, e.value)
      BY <1>8 DEF Honest
    <2>5. B.weighing[e.row].worker = e.worker /\ B.weighing[e.row].value = e.value
      BY <2>3, <2>4, SaidOnce
    <2>6. Stands(B, e)
      BY <1>8, <2>2, <2>5 DEF Stands
    <2> QED
      BY <1>8, <2>6
  <1>9. CASE C = B /\ e.entity = "movement" /\ v.answer \in Done
    <2>1. v.answer = u.answer /\ u = PushLedgerEntry(B, d, e)
      BY <1>2, <1>9 DEF Verdict, ApplyPushEntity
    <2>2. e.row \in Movement
      BY <1>1, <1>9 DEF Asked, TableOf
    <2>3. B.money[e.row] = [worker |-> e.worker, value |-> e.value]
      <3>1. CASE B.money[e.row] = None
        <4>1. u.answer = "applied" /\ Credits(B, u.books, e)
          BY <1>9, <2>1, <3>1 DEF PushLedgerEntry, Verdict, Done, Credits
        <4>2. C = [B EXCEPT !.money[e.row] = [worker |-> e.worker, value |-> e.value]]
          BY <1>2, <4>1 DEF Credits
        <4> QED
          BY <1>9, <2>2, <4>2 DEF Books
      <3>2. CASE B.money[e.row] # None
        BY <1>9, <2>1, <3>2 DEF PushLedgerEntry, Verdict, Done
      <3> QED
        BY <3>1, <3>2
    <2> QED
      BY <1>9, <2>3 DEF Stands
  <1>10. CASE /\ C = B
              /\ \/ e.entity = "worker" \/ (e.entity = "weighing" /\ e.deleted)
                 \/ v.answer \notin Done
    BY <1>10 DEF Stands
  <1> QED
    BY <1>1, <1>3, <1>4, <1>5, <1>6, <1>7, <1>8, <1>9, <1>10

\* The same with the registry.
LEMMA AnsweredIsThere ==
    ASSUME OneWeighingPerId, scene \in Scene, now \in Nat,
           NEW B \in Books, Founded(B), Agreed(B), Remembers(B),
           NEW d \in Handset, NEW e \in Honest
    PROVE  LET v == PushOne(B, d, e) IN
           /\ Agreed(v.books) /\ Remembers(v.books)
           /\ v.answer \in Done => Stands(v.books, e)
  <1> DEFINE u == ApplyPushOp(B, d, e)
             v == PushOne(B, d, e)
             C == u.books
             D == RecordSyncOp(C, e, u.answer)
  <1>1. e \in Envelope /\ e.opId \in OpId /\ Asked(e)
    BY DEF Honest, Envelope
  <1>2. \A S \in Books : Stands(S, Act(e)) <=> Stands(S, e)
    BY DEF Stands, Act
  <1>3. CASE FindSyncOp(B, e) # "new"
    <2>1. v.books = B /\ v.answer = FindSyncOp(B, e)
      BY <1>3 DEF PushOne, Verdict
    <2>2. FindSyncOp(B, e) \in Done => Stands(B, e)
      BY <1>1, <1>2, <1>3 DEF FindSyncOp, Done, Remembers
    <2> QED
      BY <2>1, <2>2
  <1>4. CASE FindSyncOp(B, e) = "new"
    <2>1. v.books = D /\ v.answer = u.answer
      BY <1>4 DEF PushOne, Verdict
    <2>2. Agreed(C) /\ (u.answer \in Done => Stands(C, e))
      BY DoneIsThere
    <2>3. C \in Books /\ Keeps(B, C) /\ C.ops = B.ops
      <3>1. \/ C = B
            \/ TakesOn(B, C, e) \/ Removes(B, C, e) \/ Weighs(B, C, d, e) \/ Credits(B, C, e)
        BY <1>1, EnvelopeDoes
      <3> HIDE DEF C
      <3>2. CASE C = B
        BY <3>2, SameGrows DEF Grows
      <3> QED
        BY <1>1, <3>1, <3>2, TakesOnGrows, RemovesGrows, WeighsGrows, CreditsGrows DEF Grows
    <2>4. ASSUME NEW o \in OpId, B.ops[o] # None
          PROVE  Stands(C, B.ops[o].act)
      <3> DEFINE a == B.ops[o].act
      <3>1. B.ops[o] \in Remembered /\ \A m \in Movement : B.money[m] \in MovementRow \cup {None}
        BY <2>4 DEF Books
      <3>2. Stands(B, a) /\ a.worker \in Worker /\ a.value \in Value
        BY <2>4, <3>1 DEF Remembers, Remembered
      <3>3. Asked(a)
        BY <3>1 DEF Remembered
      <3> QED
        BY <2>3, <3>1, <3>2, <3>3, StandsOn
    <2>5. D.worker = C.worker /\ D.weighing = C.weighing /\ D.money = C.money
      BY <2>3 DEF RecordSyncOp, Books
    <2>6. \A o \in OpId : D.ops[o] # None =>
             \/ B.ops[o] # None /\ D.ops[o] = B.ops[o]
             \/ D.ops[o].act = Act(e) /\ u.answer \in Done
      BY <1>1, <2>3 DEF RecordSyncOp, Books
    <2> HIDE DEF C, D, u, v
    <2>7. \A a : Stands(C, a) <=> Stands(D, a)
      BY <2>5 DEF Stands
    <2>8. Stands(C, e) => Stands(D, Act(e))
      BY <1>2, <2>3, <2>7
    <2>9. Remembers(D)
      BY <2>2, <2>4, <2>6, <2>7, <2>8 DEF Remembers
    <2>10. Agreed(D)
      BY <2>2, <2>5 DEF Agreed
    <2> QED
      BY <2>1, <2>2, <2>7, <2>9, <2>10 DEF v
  <1> QED
    BY <1>3, <1>4

\* After a batch everything in it that was answered as done is in the books.
LEMMA BatchIsThere ==
    ASSUME OneWeighingPerId, PushTypeOK, Agreed(books), Remembers(books),
           NEW d \in Handset, NEW batch \in Seq(Honest), NEW ran, ran = PushAll(d, batch)
    PROVE  /\ Agreed(ran[Len(batch)].books) /\ Remembers(ran[Len(batch)].books)
           /\ \A e \in AnsweredIn(batch, ran, Done) : Stands(ran[Len(batch)].books, e)
  <1> DEFINE n == Len(batch)
             There(i) == /\ Agreed(ran[i].books) /\ Remembers(ran[i].books)
                         /\ \A k \in 1..i :
                               ran[k].answer \in Done => Stands(ran[i].books, batch[k])
             P == {i \in 0..n : There(i)}
  <1>1. scene \in Scene /\ BooksTyped /\ now \in Nat
    BY TypesAre DEF PushTypeOK
  <1>2. batch \in Seq(Envelope)
    BY DEF Honest
  <1>3. n \in Nat /\ DOMAIN batch = 1..n /\ \A i \in 1..n : batch[i] \in Honest
    OBVIOUS
  <1>4. /\ ran[0].books = books
        /\ \A i \in 1..n : i - 1 \in 0..n /\ ran[i] = PushOne(ran[i - 1].books, d, batch[i])
        /\ \A i \in 0..n : ran[i] \in Verdicts /\ Founded(ran[i].books)
    BY <1>1, <1>2, BatchRuns DEF BooksTyped
  <1>5. 0 \in P
    <2>1. \A k \in 1..0 : FALSE
      OBVIOUS
    <2> QED
      BY <1>3, <1>4, <2>1
  <1>6. ASSUME NEW i \in 1..n, i - 1 \in P
        PROVE  i \in P
    <2> DEFINE B == ran[i - 1].books
               C == ran[i].books
               e == batch[i]
    <2>1. B \in Books /\ Founded(B) /\ Agreed(B) /\ Remembers(B) /\ e \in Honest /\ e \in Envelope
      BY <1>3, <1>4, <1>6 DEF Verdicts, Honest
    <2>2. ran[i] = PushOne(B, d, e)
      BY <1>4
    <2>3. Agreed(C) /\ Remembers(C) /\ (ran[i].answer \in Done => Stands(C, e))
      <3> HIDE DEF B, e
      <3> QED
        BY <1>1, <2>1, <2>2, AnsweredIsThere
    <2>4. Keeps(B, C)
      <3> HIDE DEF B, e
      <3> QED
        BY <1>1, <2>1, <2>2, OneEnvelope DEF Grows
    <2>5. ASSUME NEW k \in 1..i, ran[k].answer \in Done
          PROVE  Stands(C, batch[k])
      <3>1. CASE k = i
        BY <2>3, <2>5, <3>1
      <3>2. CASE k # i
        <4>1. k \in 1..(i - 1) /\ k \in 1..n
          BY <1>3, <3>2
        <4>2. Stands(B, batch[k])
          BY <1>6, <2>5, <4>1
        <4>3. Asked(batch[k]) /\ batch[k].worker \in Worker /\ batch[k].value \in Value
          BY <1>3, <4>1 DEF Honest, Envelope
        <4>4. \A m \in Movement : B.money[m] \in MovementRow \cup {None}
          BY <2>1 DEF Books
        <4> HIDE DEF B, C
        <4> QED
          BY <2>4, <4>2, <4>3, <4>4, StandsOn
      <3> QED
        BY <3>1, <3>2
    <2>6. i \in 0..n
      BY <1>3
    <2> QED
      BY <2>3, <2>5, <2>6
  <1>7. \A i \in 0..n : i \in P
    <2> HIDE DEF n, P
    <2> QED
      BY <1>3, <1>5, <1>6, StepByStep
  <1>8. There(n)
    BY <1>3, <1>7
  <1> QED
    BY <1>3, <1>8 DEF AnsweredIn

LEMMA FactsStart ==
    ASSUME PushInit
    PROVE  FactInv
  <1>1. outbox \in [Handset -> Seq(Honest)] /\ wire \in [Handset -> SUBSET Seq(Honest)]
    BY DEF PushInit
  <1>2. (\A r \in Weighing : books.weighing[r] = None) /\ (\A o \in OpId : books.ops[o] = None)
    BY DEF PushInit
  <1> QED
    BY <1>1, <1>2 DEF PushInit, FactInv, Agreed, Remembers, FactsAreKept

\* Outside a push no weighing comes, nothing is remembered and nobody is told.
LEMMA ElsewhereNothingComes ==
    ASSUME PushTypeOK, [PushNext]_pushVars,
           ~\E d \in Handset : \E batch \in wire[d] :
              \E commits, arrives \in BOOLEAN : Push(d, batch, commits, arrives)
    PROVE  /\ told' = told /\ unsaved' = unsaved
           /\ \A r \in Weighing : books.weighing[r] = None => books'.weighing[r] = None
           /\ \A o \in OpId : books'.ops[o] = None \/ books'.ops[o] = books.ops[o]
  <1> USE TypesAre DEF BooksTyped
  <1>1. CASE books' = books /\ told' = told /\ unsaved' = unsaved
    BY <1>1
  <1>2. ASSUME NEW w \in Worker, DeactivateWorker(w) \/ RestoreWorker(w)
        PROVE  /\ told' = told /\ unsaved' = unsaved
               /\ books'.weighing = books.weighing /\ books'.ops = books.ops
    <2>1. /\ told' = told /\ unsaved' = unsaved
          /\ \E off : books' = [books EXCEPT !.worker[w].off = off]
      BY <1>2 DEF DeactivateWorker, RestoreWorker, InTheOffice
    <2> QED
      BY <2>1 DEF Books
  <1>3. ASSUME NEW r \in Weighing, DeleteWorkRecord(r) \/ SettleWorkRecord(r)
        PROVE  /\ told' = told /\ unsaved' = unsaved /\ books'.ops = books.ops
               /\ \A q \in Weighing : books.weighing[q] = None => books'.weighing[q] = None
    <2>1. told' = told /\ unsaved' = unsaved /\ books.weighing[r] # None
      BY <1>3 DEF DeleteWorkRecord, SettleWorkRecord, InTheOffice
    <2>2. \E row : books' = [books EXCEPT !.weighing[r] = row]
      <3>1. CASE DeleteWorkRecord(r)
        <4>1. books' = [books EXCEPT !.weighing[r] = [books.weighing[r] EXCEPT !.live = FALSE]]
          BY <3>1 DEF DeleteWorkRecord, InTheOffice, Books
        <4> QED
          BY <4>1
      <3>2. CASE SettleWorkRecord(r)
        <4>1. books' = [books EXCEPT !.weighing[r] = [books.weighing[r] EXCEPT !.settled = TRUE]]
          BY <3>2 DEF SettleWorkRecord, InTheOffice, Books
        <4> QED
          BY <4>1
      <3> QED
        BY <1>3, <3>1, <3>2
    <2> QED
      BY <2>1, <2>2 DEF Books
  <1>4. ASSUME PruneSyncOps
        PROVE  /\ told' = told /\ unsaved' = unsaved /\ books'.weighing = books.weighing
               /\ \A o \in OpId : books'.ops[o] = None \/ books'.ops[o] = books.ops[o]
    BY <1>4 DEF PruneSyncOps, Books
  <1>5. \A d \in Handset : Note(d) \/ Send(d) =>
             books' = books /\ told' = told /\ unsaved' = unsaved
    BY DEF Note, Send
  <1>6. UNCHANGED pushVars => books' = books /\ told' = told /\ unsaved' = unsaved
    BY DEF pushVars
  <1> QED
    BY <1>1, <1>2, <1>3, <1>4, <1>5, <1>6 DEF PushNext, Step

LEMMA FactsStay ==
    ASSUME OneWeighingPerId, PushTypeOK, FactInv, [PushNext]_pushVars
    PROVE  FactInv'
  <1>1. scene' = scene /\ Honest \subseteq Envelope /\ Keeps(books, books') /\ books \in Books
    BY BooksGrow DEF PushNext, pushVars, Honest, PushTypeOK
  <1>2. \A m \in Movement : books.money[m] \in MovementRow \cup {None}
    BY <1>1 DEF Books
  <1>3. ASSUME NEW d \in Handset, Note(d)
        PROVE  Last(outbox'[d]) \in Honest
    <2> DEFINE e == Last(outbox'[d])
    <2>1. e \in Envelope
      BY <1>3, NoteWrites
    <2>2. ASSUME e.entity = "weighing", ~e.deleted
          PROVE  Said(e.row, e.worker, e.value)
      <3> DEFINE i == noted[d] + 1
      <3>1. /\ i \in DOMAIN scene.diary[d]
            /\ LET a == scene.diary[d][i] IN
               /\ a.entity = "weighing" /\ ~a.deleted
               /\ a.row = e.row /\ a.worker = e.worker /\ a.value = e.value
        BY <1>3, <2>2, NoteWrites
      <3> HIDE DEF i, e
      <3> QED
        BY <3>1 DEF Said
    <2> QED
      BY <2>1, <2>2 DEF Honest
  <1>4. outbox' \in [Handset -> Seq(Honest)] /\ wire' \in [Handset -> SUBSET Seq(Honest)]
    <2>1. outbox \in [Handset -> Seq(Honest)] /\ wire \in [Handset -> SUBSET Seq(Honest)]
      BY DEF FactInv
    <2> QED
      BY <1>1, <1>3, <2>1, EnvelopesMove
  \* What was told before stands, for nothing in the books is lost.
  <1>5. \A e \in told \ unsaved : Stands(books', e)
    <2> TAKE e \in told \ unsaved
    <2>1. e \in Envelope /\ Stands(books, e)
      BY DEF FactInv, FactsAreKept, PushTypeOK
    <2>2. Asked(e) /\ e.worker \in Worker /\ e.value \in Value
      BY <2>1 DEF Envelope
    <2> QED
      BY <1>1, <1>2, <2>1, <2>2, StandsOn
  <1>6. Agreed(books') /\ Remembers(books') /\ \A e \in told' \ unsaved' : Stands(books', e)
    <2>1. ASSUME NEW d \in Handset, NEW batch \in wire[d], NEW commits \in BOOLEAN,
                 NEW arrives \in BOOLEAN, Push(d, batch, commits, arrives)
          PROVE  Agreed(books') /\ Remembers(books') /\ \A e \in told' \ unsaved' : Stands(books', e)
      <3> DEFINE ran == PushAll(d, batch)
      <3>1. batch \in Seq(Honest) /\ Agreed(books) /\ Remembers(books)
        BY DEF FactInv
      <3>2. /\ books' = IF commits THEN ran[Len(batch)].books ELSE books
            /\ told' \ unsaved' \subseteq
                  (told \ unsaved) \cup (IF commits THEN AnsweredIn(batch, ran, Done) ELSE {})
        <4>1. books' = IF commits THEN ran[Len(batch)].books ELSE books
          BY <2>1 DEF Push
        <4> QED
          BY <2>1, <4>1, WhatIsTold DEF PushTypeOK
      <3>3. /\ Agreed(ran[Len(batch)].books) /\ Remembers(ran[Len(batch)].books)
            /\ \A e \in AnsweredIn(batch, ran, Done) : Stands(ran[Len(batch)].books, e)
        BY <3>1, BatchIsThere
      <3> HIDE DEF ran
      <3> QED
        BY <1>5, <3>1, <3>2, <3>3
    <2>2. CASE ~\E d \in Handset : \E batch \in wire[d] :
                  \E commits, arrives \in BOOLEAN : Push(d, batch, commits, arrives)
      <3>1. /\ told' = told /\ unsaved' = unsaved
            /\ \A r \in Weighing : books.weighing[r] = None => books'.weighing[r] = None
            /\ \A o \in OpId : books'.ops[o] = None \/ books'.ops[o] = books.ops[o]
        BY <2>2, ElsewhereNothingComes
      <3>2. Agreed(books')
        BY <1>1, <3>1 DEF FactInv, Agreed, Keeps
      <3>3. ASSUME NEW o \in OpId, books'.ops[o] # None
            PROVE  Stands(books', books'.ops[o].act)
        <4> DEFINE a == books.ops[o].act
        <4>1. books'.ops[o] = books.ops[o] /\ books.ops[o] # None
          BY <3>1, <3>3
        <4>2. books.ops[o] \in Remembered
          BY <1>1, <4>1 DEF Books
        <4>3. Stands(books, a) /\ Asked(a) /\ a.worker \in Worker /\ a.value \in Value
          BY <4>1, <4>2 DEF FactInv, Remembers, Remembered
        <4>4. Stands(books', a)
          BY <1>1, <1>2, <4>3, StandsOn
        <4> QED
          BY <4>1, <4>4
      <3> QED
        BY <1>5, <3>1, <3>2, <3>3 DEF Remembers
    <2> QED
      BY <2>1, <2>2
  \* The diaries are what they were, and what was said in them.
  <1>7. /\ Honest' = Honest
        /\ Agreed(books)' <=> Agreed(books')
        /\ Remembers(books)' <=> Remembers(books')
    BY <1>1 DEF Honest, Agreed, Remembers, Said
  <1> QED
    BY <1>4, <1>6, <1>7 DEF FactInv, FactsAreKept

\* A weighing or a movement of which a handset was told that it is done is in the
\* books, with what the envelope said, unless no batch that answered so was committed:
\* for any handsets, batches, copies, lost answers, failing commits and sweeps of the
\* registry, provided that no two weighings were given the same id.
THEOREM ToldIsKept ==
    ASSUME OneWeighingPerId
    PROVE  PushSpec => []FactsAreKept
  <1>1. PushInit => FactInv
    BY FactsStart
  <1>2. PushTypeOK /\ FactInv /\ [PushNext]_pushVars => FactInv'
    BY FactsStay
  <1>3. FactInv => FactsAreKept
    BY DEF FactInv
  <1> QED
    BY <1>1, <1>2, <1>3, PushTyped, PTL DEF PushSpec

=============================================================================
