---------------------------- MODULE StockProofs -----------------------------
(***************************************************************************)
(* What holds of Stock for any warehouses, quantities, people and bounds.  *)
(***************************************************************************)
EXTENDS Stock, Sums

(***************************************************************************)
(* Between the look at a movement and the opposite that is written of it   *)
(* others commit.  What stays true meanwhile is that the movement a        *)
(* request is about is there and of the sale it is about, and that of all  *)
(* the requests past their unique key no two write under the same one,     *)
(* which is still free.                                                    *)
(***************************************************************************)
Sound(t, m, s) ==
    /\ t.op \in {"move", "sale"} =>
        t.row # None /\ t.row.back = None /\ t.row.sale = IF t.op = "sale" THEN t.id ELSE None
    /\ t.op = "void" => t.id \in Rows(s)
    /\ t.op = "reverse" /\ t.at = "look" => t.id \in Rows(m) /\ m[t.id].sale = None
    /\ t.op \in {"reverse", "void"} /\ t.at # "look" =>
        /\ t.row # None
        /\ t.row.sale = None
        /\ t.row.back \in Rows(m)
        /\ m[t.row.back].sale = IF t.op = "void" THEN t.id ELSE None

Held(t) == t.at \in {"share", "commit"}

Free(t, m, s) ==
    /\ t.op = "move" => m[t.id] = None
    /\ t.op = "sale" => s[t.id] = None
    /\ t.op \in {"reverse", "void"} => ~Reversed(m, t.row.back)

Clash(t, u) ==
    \/ t.op = u.op /\ t.op \in {"move", "sale"} /\ t.id = u.id
    \/ t.op \in {"reverse", "void"} /\ u.op \in {"reverse", "void"} /\ t.row.back = u.row.back

Kept ==
    /\ move \in [Id -> Movement \cup {None}]
    /\ sale \in [Id -> {None, "live", "void"}]
    /\ tx \in [Slot -> Transaction \cup {None}]
    /\ shown \in [Screen -> [moves : SUBSET Id, sales : SUBSET Id]]

Forms ==
    /\ form \in [Screen -> Dialog \cup {None}]
    /\ left \in [Screen -> Allowance]

Offered ==
    \A s \in Screen :
        /\ \A i \in shown[s].moves : i \in Rows(move) /\ move[i].sale = None
        /\ shown[s].sales \subseteq Rows(sale)

Going == \A x \in Slot : tx[x] # None => Sound(tx[x], move, sale)

Keyed ==
    \A x \in Slot : tx[x] # None /\ Held(tx[x]) =>
        /\ Free(tx[x], move, sale)
        /\ \A y \in Slot \ {x} : tx[y] # None /\ Held(tx[y]) => ~Clash(tx[y], tx[x])

BackIsThere == \A i \in Rows(move) : move[i].back # None => move[i].back \in Rows(move)

StockInv == Kept /\ Offered /\ Going /\ Keyed /\ BackIsThere /\ SalesAgree

\* The same request, as far as it matters what it writes.
Alike(t, u) == t.op = u.op /\ t.id = u.id /\ t.row = u.row /\ t.at = u.at

\* A step that leaves the tables and the lists alone, and what the requests write.
LEMMA Quiet ==
    ASSUME StockInv, UNCHANGED <<move, sale, shown>>,
           tx' \in [Slot -> Transaction \cup {None}],
           \A y \in Slot : tx'[y] # None => tx[y] # None /\ Alike(tx'[y], tx[y])
    PROVE  StockInv'
<1>1. Kept' /\ Offered' /\ BackIsThere' /\ SalesAgree'
  BY DEF StockInv, Kept, Offered, BackIsThere, SalesAgree, Rows, Reversed
<1>2. Going'
  BY DEF StockInv, Going, Sound, Alike
<1>3. Keyed'
  BY DEF StockInv, Keyed, Held, Free, Clash, Alike
<1> QED
  BY <1>1, <1>2, <1>3 DEF StockInv

\* One slot gets a request, or the next step of the one it has.
LEMMA OneTx ==
    ASSUME StockInv, UNCHANGED <<move, sale, shown>>, NEW x \in Slot, NEW r,
           tx' = [tx EXCEPT ![x] = r], r \in Transaction, Sound(r, move, sale),
           Held(r) => /\ Free(r, move, sale)
                      /\ \A y \in Slot \ {x} : tx[y] # None /\ Held(tx[y]) => ~Clash(tx[y], r)
    PROVE  StockInv'
<1>1. Kept' /\ Offered' /\ BackIsThere' /\ SalesAgree'
  BY DEF StockInv, Kept, Offered, BackIsThere, SalesAgree, Rows, Reversed
<1>2. tx'[x] = r /\ \A y \in Slot \ {x} : tx'[y] = tx[y]
  BY DEF StockInv, Kept
<1>3. Going'
  BY <1>2 DEF StockInv, Going
<1>4. Keyed'
  <2> SUFFICES ASSUME NEW y \in Slot, tx'[y] # None, Held(tx'[y])
               PROVE  /\ Free(tx'[y], move, sale)
                      /\ \A z \in Slot \ {y} : tx'[z] # None /\ Held(tx'[z]) => ~Clash(tx'[z], tx'[y])
    BY DEF Keyed
  <2>1. CASE y = x
    BY <1>2, <2>1
  <2>2. CASE y # x
    <3>1. Free(tx'[y], move, sale)
      BY <1>2, <2>2 DEF StockInv, Keyed
    <3>2. ASSUME NEW z \in Slot \ {y}, tx'[z] # None, Held(tx'[z])
          PROVE  ~Clash(tx'[z], tx'[y])
      <4>1. CASE z = x
        BY <1>2, <2>2, <3>2, <4>1 DEF Clash
      <4>2. CASE z # x
        BY <1>2, <2>2, <3>2, <4>2 DEF StockInv, Keyed
      <4> QED
        BY <4>1, <4>2
    <3> QED
      BY <3>1, <3>2
  <2> QED
    BY <2>1, <2>2
<1> QED
  BY <1>1, <1>3, <1>4 DEF StockInv

\* A request that moves on to another statement, with the row it has or one that
\* is found for it.
LEMMA MovesOn ==
    ASSUME StockInv, UNCHANGED <<move, sale, shown>>, NEW x \in Slot, tx[x] # None,
           NEW r \in Transaction, tx' = [tx EXCEPT ![x] = r],
           r.op = tx[x].op, r.id = tx[x].id, r.at # "look",
           tx[x].at # "look" \/ tx[x].op \in {"move", "sale"} => r.row = tx[x].row,
           tx[x].at = "look" /\ tx[x].op \in {"reverse", "void"} =>
               /\ r.row # None /\ r.row.sale = None /\ r.row.back \in Rows(move)
               /\ move[r.row.back].sale = IF tx[x].op = "void" THEN tx[x].id ELSE None,
           Held(r) => Held(tx[x]) \/ (tx[x].at = "claim" /\ Blockers(x) = {} /\ ~Taken(x))
    PROVE  StockInv'
<1>1. tx[x] \in Transaction
  BY DEF StockInv, Kept
<1>5. Sound(tx[x], move, sale)
  BY DEF StockInv, Going
<1>6. Sound(r, move, sale)
  BY <1>1, <1>5 DEF Sound
<1>7. ASSUME Held(r)
      PROVE  /\ Free(r, move, sale)
             /\ \A y \in Slot \ {x} : tx[y] # None /\ Held(tx[y]) => ~Clash(tx[y], r)
  <2>1. CASE Held(tx[x])
    BY <1>7, <2>1 DEF StockInv, Keyed, Held, Free, Clash
  <2>2. CASE ~Held(tx[x])
    <3>1. tx[x].at = "claim" /\ Blockers(x) = {} /\ ~Taken(x) /\ r.row = tx[x].row
      BY <1>7, <2>2 DEF Held
    <3>2. Free(r, move, sale)
      BY <1>1, <3>1 DEF Free, Taken, Transaction
    <3>3. ASSUME NEW y \in Slot \ {x}, tx[y] # None, Held(tx[y])
          PROVE  ~Clash(tx[y], r)
      <4>1. Key(y) # Key(x)
        BY <3>1, <3>3 DEF Blockers, Open, Held, Holds
      <4>2. tx[y] \in Transaction
        BY <3>3 DEF StockInv, Kept
      <4> QED
        BY <1>1, <3>1, <4>1, <4>2 DEF Key, Clash, Transaction
    <3> QED
      BY <3>2, <3>3
  <2> QED
    BY <2>1, <2>2
<1> QED
  BY <1>6, <1>7, OneTx

\* A request that ends without a trace.
LEMMA Ends ==
    ASSUME StockInv, UNCHANGED <<move, sale, shown>>, NEW x \in Slot, NEW a, Answer(x, a)
    PROVE  StockInv'
<1>1. tx' \in [Slot -> Transaction \cup {None}]
  BY DEF StockInv, Kept, Answer
<1>2. \A y \in Slot : tx'[y] # None => tx[y] # None /\ Alike(tx'[y], tx[y])
  BY DEF StockInv, Kept, Answer, Alike
<1> QED
  BY <1>1, <1>2, Quiet

\* A request that goes on to its next statement with what it has.
LEMMA GoesOn ==
    ASSUME StockInv, UNCHANGED <<move, sale, shown>>, NEW x \in Slot, tx[x] # None,
           NEW at \in {"lock", "guard", "claim", "share", "commit"}, Goes(x, at),
           tx[x].at = "look" => tx[x].op \in {"move", "sale"},
           at \in {"share", "commit"} =>
               Held(tx[x]) \/ (tx[x].at = "claim" /\ Blockers(x) = {} /\ ~Taken(x))
    PROVE  StockInv'
<1>1. tx[x] \in Transaction
  BY DEF StockInv, Kept
<1>2. PICK r \in {[tx[x] EXCEPT !.at = at]} : TRUE
  OBVIOUS
<1>3. r \in Transaction /\ r.op = tx[x].op /\ r.id = tx[x].id /\ r.row = tx[x].row /\ r.at = at
  BY <1>1, <1>2 DEF Transaction
<1>4. tx' = [tx EXCEPT ![x] = r]
  BY <1>2 DEF Goes
<1> QED
  BY <1>3, <1>4, MovesOn DEF Held

\* A lock on the product comes with the next statement.
LEMMA LocksAndGoesOn ==
    ASSUME StockInv, UNCHANGED <<move, sale, shown>>, NEW x \in Slot, tx[x] # None,
           NEW at \in {"guard", "commit"}, NEW lock \in {"none", "share", "update"},
           tx' = [tx EXCEPT ![x] = [tx[x] EXCEPT !.at = at, !.lock = lock]],
           tx[x].at # "look", at = "commit" => Held(tx[x])
    PROVE  StockInv'
<1>1. tx[x] \in Transaction
  BY DEF StockInv, Kept
<1>2. PICK r \in {[tx[x] EXCEPT !.at = at, !.lock = lock]} : TRUE
  OBVIOUS
<1>3. r \in Transaction /\ r.op = tx[x].op /\ r.id = tx[x].id /\ r.row = tx[x].row /\ r.at = at
  BY <1>1, <1>2 DEF Transaction
<1>4. tx' = [tx EXCEPT ![x] = r]
  BY <1>2
<1> QED
  BY <1>3, <1>4, MovesOn DEF Held

\* The opposite of a movement corrects it and is of no sale.
LEMMA OppositeIsOne ==
    ASSUME move \in [Id -> Movement \cup {None}], NEW i \in Rows(move), move[i].back = None
    PROVE  /\ Opposite(i) \in Movement /\ Opposite(i) # None
           /\ Opposite(i).sale = None /\ Opposite(i).back = i
<1>1. /\ i \in Id /\ i # None
      /\ move[i] \in [shelf : Shelf, qty : Int \ {0}, sale : Id \cup {None}, back : {None},
                      sure : BOOLEAN, typed : (Screen \X Nat \X Intent) \cup {None}]
  BY NoneAssumption DEF Rows, Movement, Id
<1>2. PICK m \in [shelf : Shelf, qty : Int \ {0}, sale : Id \cup {None}, back : {None},
                  sure : BOOLEAN, typed : (Screen \X Nat \X Intent) \cup {None}] : m = move[i]
  BY <1>1
<1>3. -m.qty \in Int \ {0}
  OBVIOUS
<1>4. Opposite(i) = [m EXCEPT !.qty = -m.qty, !.sale = None, !.back = i, !.typed = None]
  BY <1>2 DEF Opposite
<1>5. Opposite(i) \in [shelf : Shelf, qty : Int \ {0}, sale : {None}, back : {i},
                       sure : BOOLEAN, typed : {None}]
  BY <1>3, <1>4
<1>6. Opposite(i) \in Movement
  BY <1>1, <1>5 DEF Movement
<1> QED
  BY <1>5, <1>6, NoneAssumption

\* The movement of a sale is there.
LEMMA SaleHasOne ==
    ASSUME SalesAgree, NEW n \in Rows(sale)
    PROVE  Venta(n) \in Rows(move) /\ move[Venta(n)].sale = n
<1>1. \E i \in Rows(move) : move[i].sale = n
  BY DEF SalesAgree
<1> QED
  BY <1>1 DEF Venta

LEMMA LookKeeps ==
    ASSUME StockInv, NEW x \in Slot, Look(x)
    PROVE  StockInv'
<1>0. tx[x] # None /\ tx[x].at = "look" /\ UNCHANGED <<move, sale, shown>>
  BY DEF Look
<1>1. CASE \E a \in {"ok", "refused"} : Answer(x, a)
  BY <1>0, <1>1, Ends
<1>2. CASE tx[x].op \in {"move", "sale"} /\ \E at \in {"lock", "claim"} : Goes(x, at)
  BY <1>0, <1>2, GoesOn
<1>3. ASSUME NEW i, i = (IF tx[x].op = "void" THEN Venta(tx[x].id) ELSE tx[x].id),
             tx[x].op \in {"reverse", "void"}, move[i].back = None, ~Reversed(move, i),
             tx' = [tx EXCEPT ![x].at = "claim", ![x].row = Opposite(i)]
      PROVE  StockInv'
  <2>1. tx[x] \in Transaction /\ Sound(tx[x], move, sale) /\ SalesAgree
    BY <1>0 DEF StockInv, Kept, Going
  <2>2. i \in Rows(move) /\ move[i].sale = IF tx[x].op = "void" THEN tx[x].id ELSE None
    BY <1>0, <1>3, <2>1, SaleHasOne DEF Sound
  <2>3. /\ Opposite(i) \in Movement /\ Opposite(i) # None
        /\ Opposite(i).sale = None /\ Opposite(i).back = i
    BY <1>3, <2>2, OppositeIsOne DEF StockInv, Kept
  <2>4. PICK r \in {[tx[x] EXCEPT !.at = "claim", !.row = Opposite(i)]} : TRUE
    OBVIOUS
  <2>5. r \in Transaction /\ r.op = tx[x].op /\ r.id = tx[x].id /\ r.row = Opposite(i) /\ r.at = "claim"
    BY <2>1, <2>3, <2>4 DEF Transaction
  <2>6. tx' = [tx EXCEPT ![x] = r]
    BY <1>3, <2>4 DEF StockInv, Kept
  <2> QED
    <3>1. ~Held(r) /\ r.at # "look"
      BY <2>5 DEF Held
    <3>2. /\ r.row # None /\ r.row.sale = None /\ r.row.back \in Rows(move)
          /\ move[r.row.back].sale = IF tx[x].op = "void" THEN tx[x].id ELSE None
      BY <2>2, <2>3, <2>5
    <3>3. ~(tx[x].at # "look" \/ tx[x].op \in {"move", "sale"})
      BY <1>0, <1>3
    <3> QED
      BY <1>0, <2>5, <2>6, <3>1, <3>2, <3>3, MovesOn
<1> QED
  BY <1>1, <1>2, <1>3 DEF Look

\* What a transaction keeps when it commits.
LEMMA CommitKeeps ==
    ASSUME StockInv, NEW x \in Slot, Commit(x)
    PROVE  StockInv'
<1>1. tx[x] # None /\ tx[x].at = "commit" /\ shown' = shown
  BY DEF Commit
<1>2. tx[x] \in Transaction /\ Sound(tx[x], move, sale) /\ Free(tx[x], move, sale) /\ Held(tx[x])
  BY <1>1 DEF StockInv, Kept, Going, Keyed, Held
<1>3. PICK i \in IF tx[x].op = "move" THEN {tx[x].id} ELSE NewMove :
        move' = [move EXCEPT ![i] = tx[x].row]
  BY DEF Commit
<1>4. /\ sale' = CASE tx[x].op = "sale" -> [sale EXCEPT ![tx[x].id] = "live"]
                   [] tx[x].op = "void" -> [sale EXCEPT ![tx[x].id] = "void"]
                   [] OTHER -> sale
      /\ tx' = [tx EXCEPT ![x] = None]
  BY DEF Commit, Answer
<1>5. /\ i \in Id /\ move[i] = None
      /\ \A y \in Slot \ {x} : tx[y] # None /\ tx[y].op = "move" /\ Held(tx[y]) => tx[y].id # i
  <2>1. CASE tx[x].op = "move"
    <3>1. i = tx[x].id
      BY <1>3, <2>1
    <3>2. i \in Id /\ move[i] = None
      BY <1>2, <2>1, <3>1 DEF Transaction, Free
    <3>3. ASSUME NEW y \in Slot \ {x}, tx[y] # None, tx[y].op = "move", Held(tx[y])
          PROVE  tx[y].id # i
      BY <1>1, <1>2, <2>1, <3>1, <3>3 DEF StockInv, Keyed, Clash
    <3> QED
      BY <3>2, <3>3
  <2>2. CASE tx[x].op # "move"
    BY <1>3, <2>2 DEF NewMove, Unused, Used, Rows, Open
  <2> QED
    BY <2>1, <2>2
<1>6. tx[x].row \in Movement /\ tx[x].row # None /\ tx[x].id \in Id
      /\ tx[x].op \in {"move", "sale", "reverse", "void"}
  BY <1>1, <1>2 DEF Sound, Transaction
<1>7. /\ move'[i] = tx[x].row
      /\ \A j \in Id \ {i} : move'[j] = move[j]
      /\ Rows(move') = Rows(move) \cup {i}
      /\ i \notin Rows(move)
  BY <1>3, <1>5, <1>6 DEF StockInv, Kept, Rows
<1>8. \A n \in Id : sale'[n] = IF tx[x].op = "sale" /\ n = tx[x].id THEN "live"
                               ELSE IF tx[x].op = "void" /\ n = tx[x].id THEN "void"
                               ELSE sale[n]
  BY <1>4, <1>6 DEF StockInv, Kept
<1>9. Rows(sale') = Rows(sale) \cup (IF tx[x].op = "sale" THEN {tx[x].id} ELSE {})
  BY <1>2, <1>6, <1>8, NoneAssumption DEF Rows, Sound
<1>10. Kept'
  BY <1>1, <1>3, <1>4, <1>5, <1>6 DEF StockInv, Kept
<1>11. Offered'
  BY <1>1, <1>7, <1>9 DEF StockInv, Offered, Rows
<1>12. \A y \in Slot : tx'[y] # None => y # x /\ tx[y] # None /\ tx'[y] = tx[y]
  BY <1>4 DEF StockInv, Kept
<1>13. Going'
  <2> SUFFICES ASSUME NEW y \in Slot, tx'[y] # None
               PROVE  Sound(tx'[y], move', sale')
    BY DEF Going
  <2>1. Sound(tx[y], move, sale) /\ tx'[y] = tx[y]
    BY <1>12 DEF StockInv, Going
  <2> QED
    BY <1>7, <1>9, <2>1 DEF Sound, Rows
<1>14. \A k \in Rows(move) : Reversed(move', k) <=> Reversed(move, k) \/ tx[x].row.back = k
  BY <1>5, <1>7 DEF Reversed, Rows
<1>15. Keyed'
  <2> SUFFICES ASSUME NEW y \in Slot, tx'[y] # None, Held(tx'[y])
               PROVE  /\ Free(tx'[y], move', sale')
                      /\ \A z \in Slot \ {y} : tx'[z] # None /\ Held(tx'[z]) => ~Clash(tx'[z], tx'[y])
    BY DEF Keyed
  <2>1. y # x /\ tx[y] # None /\ tx'[y] = tx[y] /\ Held(tx[y]) /\ ~Clash(tx[x], tx[y])
        /\ Free(tx[y], move, sale) /\ Sound(tx[y], move, sale) /\ tx[y] \in Transaction
    BY <1>1, <1>2, <1>12 DEF StockInv, Kept, Going, Keyed
  <2>2. \A z \in Slot \ {y} : tx'[z] # None /\ Held(tx'[z]) => ~Clash(tx'[z], tx'[y])
    BY <1>12, <2>1 DEF StockInv, Keyed
  <2>3. CASE tx[y].op = "move"
    <3>1. tx[y].id \in Id \ {i} /\ move[tx[y].id] = None
      BY <1>5, <2>1, <2>3 DEF Free, Transaction
    <3>2. Free(tx[y], move', sale')
      BY <1>7, <2>3, <3>1 DEF Free
    <3> QED
      BY <2>1, <2>2, <3>2
  <2>4. CASE tx[y].op = "sale"
    <3>1. tx[y].id \in Id /\ sale[tx[y].id] = None /\ ~(tx[x].op = "sale" /\ tx[y].id = tx[x].id)
      BY <2>1, <2>4 DEF Free, Clash, Transaction
    <3>2. ~(tx[x].op = "void" /\ tx[y].id = tx[x].id)
      BY <1>2, <3>1 DEF Sound, Rows
    <3>3. Free(tx[y], move', sale')
      BY <1>8, <2>4, <3>1, <3>2 DEF Free
    <3> QED
      BY <2>1, <2>2, <3>3
  <2>5. CASE tx[y].op \in {"reverse", "void"}
    <3>1. tx[y].row.back \in Rows(move) /\ ~Reversed(move, tx[y].row.back)
      BY <2>1, <2>5 DEF Free, Sound, Held
    <3>2. tx[x].row.back # tx[y].row.back
      BY <1>2, <1>6, <2>1, <2>5, <3>1, NoneAssumption DEF Clash, Sound, Rows, Id
    <3>3. ~Reversed(move', tx[y].row.back)
      BY <1>14, <3>1, <3>2
    <3>4. Free(tx[y], move', sale')
      BY <2>5, <3>3 DEF Free
    <3> QED
      BY <2>1, <2>2, <3>4
  <2> QED
    BY <2>1, <2>3, <2>4, <2>5 DEF Transaction
<1>17. BackIsThere'
  <2>1. tx[x].row.back # None => tx[x].row.back \in Rows(move)
    BY <1>1, <1>2, <1>6 DEF Sound
  <2> QED
    BY <1>7, <2>1 DEF StockInv, BackIsThere, Rows
<1>16. SalesAgree'
  <2>1. \A j \in Rows(move') : move'[j].sale # None => sale'[move'[j].sale] # None
    <3>1. ASSUME NEW j \in Rows(move), move[j].sale # None
          PROVE  sale'[move[j].sale] # None
      <4>1. move[j].sale \in Id
        BY <3>1 DEF StockInv, Kept, Rows, Movement
      <4> QED
        BY <1>8, <3>1, <4>1, NoneAssumption DEF StockInv, SalesAgree
    <3>2. tx[x].row.sale # None => sale'[tx[x].row.sale] # None
      BY <1>2, <1>6, <1>8, <1>1, NoneAssumption DEF Sound
    <3> QED
      BY <1>7, <3>1, <3>2 DEF Rows
  <2>2. ASSUME NEW n \in Rows(sale')
        PROVE  \E k \in Rows(move') :
                 /\ \A j \in Rows(move') : move'[j].sale = n <=> j = k
                 /\ sale'[n] = "void" <=> Reversed(move', k)
    <3>0. n \in Id
      BY DEF Rows
    <3>1. CASE tx[x].op = "sale" /\ n = tx[x].id
      <4>1. tx[x].row.sale = n /\ tx[x].row.back = None /\ sale[n] = None /\ sale'[n] = "live"
        BY <1>2, <1>8, <3>0, <3>1 DEF Sound, Free
      <4>2. \A j \in Rows(move) : move[j].sale # n
        BY <3>0, <4>1, NoneAssumption DEF StockInv, SalesAgree, Id
      <4>3. \A j \in Rows(move') : move'[j].sale = n <=> j = i
        BY <1>7, <4>1, <4>2 DEF Rows
      <4>4. ~Reversed(move', i)
        <5>1. \A j \in Rows(move) : move[j].back # i
          BY <1>5, <1>7, NoneAssumption DEF StockInv, BackIsThere, Id
        <5> QED
          BY <1>5, <1>7, <4>1, <5>1, NoneAssumption DEF Reversed, Rows, Id
      <4> QED
        BY <1>7, <4>1, <4>3, <4>4
    <3>2. CASE ~(tx[x].op = "sale" /\ n = tx[x].id)
      <4>1. n \in Rows(sale)
        BY <1>9, <3>2
      <4>2. PICK k \in Rows(move) : /\ \A j \in Rows(move) : move[j].sale = n <=> j = k
                                    /\ sale[n] = "void" <=> Reversed(move, k)
        BY <4>1 DEF StockInv, SalesAgree
      <4>3. tx[x].row.sale # n
        BY <1>1, <1>2, <1>6, <3>0, <3>2, NoneAssumption DEF Sound, Id
      <4>4. \A j \in Rows(move') : move'[j].sale = n <=> j = k
        BY <1>7, <4>2, <4>3 DEF Rows
      <4>5. sale'[n] = "void" <=> Reversed(move', k)
        <5>1. CASE tx[x].op = "void" /\ tx[x].id = n
          BY <1>1, <1>2, <1>8, <1>14, <3>0, <4>2, <5>1 DEF Sound
        <5>2. CASE ~(tx[x].op = "void" /\ tx[x].id = n)
          <6>1. tx[x].row.back # k
            BY <1>1, <1>2, <1>6, <3>0, <4>2, <5>2, NoneAssumption DEF Sound, Rows, Id
          <6> QED
            BY <1>8, <1>14, <3>0, <3>2, <4>2, <5>2, <6>1
        <5> QED
          BY <5>1, <5>2
      <4> QED
        BY <1>7, <4>2, <4>4, <4>5
    <3> QED
      BY <3>1, <3>2
  <2> QED
    BY <2>1, <2>2 DEF SalesAgree
<1> QED
  BY <1>10, <1>11, <1>13, <1>15, <1>16, <1>17 DEF StockInv

\* The other statements of a request.
LEMMA RunKeeps ==
    ASSUME StockInv, NEW x \in Slot, Runs(x) \/ ConnectionLost(x)
    PROVE  StockInv'
<1>1. CASE Look(x)
  BY <1>1, LookKeeps
<1>2. CASE LockProductForStock(x)
  <2>1. tx' = [tx EXCEPT ![x] = [tx[x] EXCEPT !.at = "guard", !.lock = "update"]]
    BY <1>2 DEF LockProductForStock, StockInv, Kept
  <2> QED
    BY <1>2, <2>1, LocksAndGoesOn DEF LockProductForStock
<1>3. CASE GuardStock(x)
  <2>1. CASE Answer(x, "refused")
    BY <1>3, <2>1, Ends DEF GuardStock
  <2>2. CASE Goes(x, "claim")
    BY <1>3, <2>2, GoesOn DEF GuardStock
  <2> QED
    BY <1>3, <2>1, <2>2 DEF GuardStock
<1>4. CASE Claim(x)
  <2>1. CASE Answer(x, "refused")
    BY <1>4, <2>1, Ends DEF Claim
  <2>2. CASE ~Taken(x) /\ Goes(x, "share")
    BY <1>4, <2>2, GoesOn DEF Claim
  <2> QED
    BY <1>4, <2>1, <2>2 DEF Claim
<1>5. CASE Share(x)
  <2>1. PICK lock \in {"none", "share", "update"} :
          lock = IF tx[x].lock = "update" THEN tx[x].lock ELSE "share"
    OBVIOUS
  <2>2. tx' = [tx EXCEPT ![x] = [tx[x] EXCEPT !.at = "commit", !.lock = lock]]
    BY <1>5, <2>1 DEF Share, StockInv, Kept, Transaction
  <2> QED
    BY <1>5, <2>2, LocksAndGoesOn DEF Share, Held
<1>6. CASE Commit(x)
  BY <1>6, CommitKeeps
<1>7. CASE DeadlockVictim(x) \/ ConnectionLost(x)
  BY <1>7, Ends DEF DeadlockVictim, ConnectionLost
<1> QED
  BY <1>1, <1>2, <1>3, <1>4, <1>5, <1>6, <1>7 DEF Runs

\* What the people at the screens do.
LEMMA ScreenKeeps ==
    ASSUME StockInv, Forms, NEW s \in Screen,
           \/ ReadLevels(s) \/ ReadRows(s) \/ OpenDialog(s) \/ Leave(s) \/ TickAnyway(s)
           \/ Save(s) \/ TakeBack(s)
    PROVE  StockInv'
<1>1. CASE ReadLevels(s) \/ OpenDialog(s) \/ TickAnyway(s)
  <2>1. UNCHANGED <<move, sale, tx, shown>>
    BY <1>1 DEF ReadLevels, OpenDialog, TickAnyway
  <2>2. \A y \in Slot : tx'[y] # None => tx[y] # None /\ Alike(tx'[y], tx[y])
    BY <2>1 DEF Alike
  <2> QED
    BY <2>1, <2>2, Quiet DEF StockInv, Kept
<1>2. CASE ReadRows(s)
  <2>1. UNCHANGED <<move, sale, tx>>
    BY <1>2 DEF ReadRows
  <2>2. Offered'
    BY <1>2 DEF ReadRows, CanReverse, StockInv, Kept, Offered, Rows
  <2>3. Kept'
    BY <1>2, <2>1 DEF ReadRows, StockInv, Kept, Rows
  <2> QED
    BY <2>1, <2>2, <2>3 DEF StockInv, Going, Keyed, BackIsThere, SalesAgree, Rows, Reversed
<1>3. CASE Leave(s)
  <2>1. UNCHANGED <<move, sale, shown>>
        /\ tx' = [x \in Slot |-> IF tx[x] # None /\ tx[x].for = s
                                 THEN [tx[x] EXCEPT !.for = None] ELSE tx[x]]
    BY <1>3 DEF Leave
  <2>2. ASSUME NEW y \in Slot
        PROVE  /\ tx'[y] \in Transaction \cup {None}
               /\ tx'[y] # None => tx[y] # None /\ Alike(tx'[y], tx[y])
    <3>1. CASE tx[y] # None /\ tx[y].for = s
      <4>1. tx[y] \in Transaction /\ tx'[y] = [tx[y] EXCEPT !.for = None]
        BY <2>1, <3>1 DEF StockInv, Kept
      <4> QED
        BY <3>1, <4>1 DEF Transaction, Alike
    <3>2. CASE ~(tx[y] # None /\ tx[y].for = s)
      BY <2>1, <3>2 DEF StockInv, Kept, Alike
    <3> QED
      BY <3>1, <3>2
  <2>3. tx' \in [Slot -> Transaction \cup {None}]
    BY <2>1, <2>2
  <2> QED
    BY <2>1, <2>2, <2>3, Quiet
<1>4. CASE Save(s)
  <2>1. PICK x \in Slot \ Open, n \in Intent : \E i \in Mint(s, n) :
          tx' = [tx EXCEPT ![x] =
              [op |-> form[s].kind, id |-> i, at |-> "look", lock |-> "none", for |-> s,
               row |-> [shelf |-> n[1], qty |-> n[2], back |-> None, sure |-> form[s].sure,
                        sale |-> IF form[s].kind = "sale" THEN i ELSE None,
                        typed |-> <<s, form[s].number[2], n>>]]]
    BY <1>4 DEF Save
  <2>2. PICK i \in Mint(s, n) :
          tx' = [tx EXCEPT ![x] =
              [op |-> form[s].kind, id |-> i, at |-> "look", lock |-> "none", for |-> s,
               row |-> [shelf |-> n[1], qty |-> n[2], back |-> None, sure |-> form[s].sure,
                        sale |-> IF form[s].kind = "sale" THEN i ELSE None,
                        typed |-> <<s, form[s].number[2], n>>]]]
    BY <2>1
  <2> DEFINE row == [shelf |-> n[1], qty |-> n[2], back |-> None, sure |-> form[s].sure,
                     sale |-> IF form[s].kind = "sale" THEN i ELSE None,
                     typed |-> <<s, form[s].number[2], n>>]
             r == [op |-> form[s].kind, id |-> i, at |-> "look", lock |-> "none", for |-> s,
                   row |-> row]
  <2>3. form[s] \in Dialog
    BY <1>4 DEF Save, Forms
  <2>4. i \in Id
    BY <2>3 DEF Mint, NewMove, NewSale, Unused, Dialog
  <2>5. row \in Movement /\ row.back = None /\ row.sale = IF form[s].kind = "sale" THEN i ELSE None
    <3>1. n[1] \in Shelf /\ n[2] \in Int \ {0}
      BY QtyAssumption DEF Intent
    <3>2. form[s].sure \in BOOLEAN /\ form[s].number[2] \in Nat
      BY <2>3 DEF Dialog
    <3> QED
      BY <2>4, <3>1, <3>2 DEF Movement
  <2> HIDE DEF row
  <2>6. r \in Transaction /\ ~Held(r) /\ Sound(r, move, sale)
    BY <2>3, <2>4, <2>5, NoneAssumption DEF Transaction, Held, Sound, Dialog
  <2>7. UNCHANGED <<move, sale, shown>> /\ tx' = [tx EXCEPT ![x] = r]
    BY <1>4, <2>2 DEF Save, row
  <2> HIDE DEF r
  <2> QED
    BY <2>6, <2>7, OneTx
<1>5. CASE TakeBack(s)
  <2>1. PICK x \in Slot \ Open, op \in {"reverse", "void"} :
          \E i \in IF op = "reverse" THEN shown[s].moves ELSE shown[s].sales :
              tx' = [tx EXCEPT ![x] = [op |-> op, id |-> i, row |-> None, at |-> "look",
                                       lock |-> "none", for |-> s]]
    BY <1>5 DEF TakeBack
  <2>2. PICK i \in IF op = "reverse" THEN shown[s].moves ELSE shown[s].sales :
              tx' = [tx EXCEPT ![x] = [op |-> op, id |-> i, row |-> None, at |-> "look",
                                       lock |-> "none", for |-> s]]
    BY <2>1
  <2> DEFINE r == [op |-> op, id |-> i, row |-> None, at |-> "look", lock |-> "none", for |-> s]
  <2>3. /\ i \in Id
        /\ op = "reverse" => i \in Rows(move) /\ move[i].sale = None
        /\ op = "void" => i \in Rows(sale)
    BY <2>2 DEF StockInv, Offered, Rows
  <2>4. r \in Transaction /\ ~Held(r) /\ Sound(r, move, sale)
    BY <2>3 DEF Transaction, Held, Sound
  <2>5. UNCHANGED <<move, sale, shown>> /\ tx' = [tx EXCEPT ![x] = r]
    BY <1>5, <2>2 DEF TakeBack
  <2> HIDE DEF r
  <2> QED
    BY <2>4, <2>5, OneTx
<1> QED
  BY <1>1, <1>2, <1>3, <1>4, <1>5

\* A screen loses one of what it may still do.
LEMMA SpendKeeps ==
    ASSUME left \in [Screen -> Allowance], NEW s \in Screen,
           NEW what \in {"dialog", "undo", "read", "loss"}, Spend(s, what)
    PROVE  left' \in [Screen -> Allowance]
<1>1. left[s] \in Allowance /\ left[s][what] - 1 \in Nat
  BY DEF Spend, Allowance
<1>2. [left[s] EXCEPT ![what] = left[s][what] - 1] \in Allowance
  BY <1>1 DEF Allowance
<1> QED
  BY <1>2 DEF Spend

\* A dialog that is told of an error, and one whose answer is not waited for, is
\* as it was.
LEMMA ToldKeeps ==
    ASSUME Forms, NEW x \in Slot,
           \/ form' = form
           \/ \E a : Answer(x, a)
           \/ form' = [s \in Screen |->
                  IF Awaits(s, x) THEN [form[s] EXCEPT !.busy = FALSE] ELSE form[s]]
    PROVE  form' \in [Screen -> Dialog \cup {None}]
<1>1. \A s \in Screen : Awaits(s, x) => [form[s] EXCEPT !.busy = FALSE] \in Dialog
  BY DEF Awaits, Forms, Dialog
<1> QED
  BY <1>1 DEF Answer, Forms

LEMMA FormsKeep ==
    ASSUME Forms, [Next]_vars
    PROVE  Forms'
<1>1. ASSUME NEW x \in Slot, Runs(x)
      PROVE  Forms'
  <2>1. left' = left
    BY <1>1 DEF Runs, Look, LockProductForStock, GuardStock, Claim, Share, Commit, DeadlockVictim
  <2>2. form' = form \/ \E a : Answer(x, a)
    BY <1>1 DEF Runs, Look, LockProductForStock, GuardStock, Claim, Share, Commit,
                DeadlockVictim, Goes
  <2> QED
    BY <2>1, <2>2, ToldKeeps DEF Forms
<1>2. ASSUME NEW x \in Slot, ConnectionLost(x) \/ Unanswered(x)
      PROVE  Forms'
  <2>1. left' \in [Screen -> Allowance]
    BY <1>2, SpendKeeps DEF ConnectionLost, Unanswered, Fails, Forms
  <2>2. form' \in [Screen -> Dialog \cup {None}]
    BY <1>2, ToldKeeps DEF ConnectionLost, Unanswered
  <2> QED
    BY <2>1, <2>2 DEF Forms
<1>3. ASSUME NEW s \in Screen, ReadLevels(s) \/ ReadRows(s) \/ TakeBack(s)
      PROVE  Forms'
  BY <1>3, SpendKeeps DEF ReadLevels, ReadRows, TakeBack, Forms
<1>4. ASSUME NEW s \in Screen, OpenDialog(s)
      PROVE  Forms'
  <2>1. left' \in [Screen -> Allowance]
    BY <1>4, SpendKeeps DEF OpenDialog, Forms
  <2>2. left[s].dialog \in Nat
    BY DEF Forms, Allowance
  <2>3. \A kind \in {"move", "sale"} :
          [kind |-> kind, number |-> <<s, left[s].dialog>>, sure |-> FALSE, busy |-> FALSE,
           ids |-> [n \in Intent |-> None]] \in Dialog
    BY <2>2 DEF Dialog
  <2> QED
    BY <1>4, <2>1, <2>3 DEF OpenDialog, Forms
<1>5. ASSUME NEW s \in Screen, Leave(s)
      PROVE  Forms'
  <2>1. left' \in [Screen -> Allowance]
    BY <1>5, SpendKeeps DEF Leave, Fails, Forms
  <2> QED
    BY <1>5, <2>1 DEF Leave, Forms
<1>6. ASSUME NEW s \in Screen, TickAnyway(s)
      PROVE  Forms'
  <2>1. form[s] \in Dialog /\ left' = left
    BY <1>6 DEF TickAnyway, Forms
  <2>2. [form[s] EXCEPT !.sure = ~form[s].sure] \in Dialog
    BY <2>1 DEF Dialog
  <2> QED
    BY <1>6, <2>1, <2>2 DEF TickAnyway, Forms
<1>7. ASSUME NEW s \in Screen, Save(s)
      PROVE  Forms'
  <2>1. form[s] \in Dialog /\ left' = left
    BY <1>7 DEF Save, Forms
  <2>2. PICK n \in Intent : \E i \in Mint(s, n) :
          form' = [form EXCEPT ![s].busy = TRUE, ![s].ids[n] = i]
    BY <1>7 DEF Save
  <2>3. PICK i \in Mint(s, n) : form' = [form EXCEPT ![s].busy = TRUE, ![s].ids[n] = i]
    BY <2>2
  <2>4. i \in Id
    BY <2>1 DEF Mint, NewMove, NewSale, Unused, Dialog
  <2>5. [form[s].ids EXCEPT ![n] = i] \in [Intent -> Id \cup {None}]
    BY <2>1, <2>4 DEF Dialog
  <2>6. [form[s] EXCEPT !.busy = TRUE, !.ids = [form[s].ids EXCEPT ![n] = i]] \in Dialog
    BY <2>1, <2>5 DEF Dialog
  <2>7. form' = [form EXCEPT ![s] =
                    [form[s] EXCEPT !.busy = TRUE, !.ids = [form[s].ids EXCEPT ![n] = i]]]
    BY <2>1, <2>3 DEF Forms, Dialog
  <2> QED
    BY <2>1, <2>6, <2>7 DEF Forms
<1>8. CASE UNCHANGED vars
  BY <1>8 DEF vars, Forms
<1> QED
  BY <1>1, <1>2, <1>3, <1>4, <1>5, <1>6, <1>7, <1>8 DEF Next

\* The books begin right.
LEMMA StockInit == Init => StockInv /\ Forms
<1> SUFFICES ASSUME Init
             PROVE  StockInv /\ Forms
  OBVIOUS
<1>1. PICK s \in Shelf :
        move = [i \in Id |-> IF i # 1 THEN None ELSE
            [shelf |-> s, qty |-> Opening, sale |-> None, back |-> None, sure |-> FALSE,
             typed |-> None]]
  BY DEF Init
<1> DEFINE first == [shelf |-> s, qty |-> Opening, sale |-> None, back |-> None, sure |-> FALSE,
                     typed |-> None]
<1>2. first \in Movement /\ first.sale = None /\ first.back = None
  BY QtyAssumption DEF Movement
<1>3. move = [i \in Id |-> IF i # 1 THEN None ELSE first]
  BY <1>1
<1> HIDE DEF first
<1>4. Kept /\ Forms
  BY <1>2, <1>3, BoundAssumption DEF Init, Kept, Forms
<1>5. Offered /\ Going /\ Keyed /\ BackIsThere /\ SalesAgree
  BY <1>2, <1>3 DEF Init, Offered, Going, Keyed, BackIsThere, SalesAgree, Rows
<1> QED
  BY <1>4, <1>5 DEF StockInv

\* Every step keeps them right.
LEMMA StockStep == StockInv /\ Forms /\ [Next]_vars => (StockInv /\ Forms)'
<1> SUFFICES ASSUME StockInv, Forms, [Next]_vars
             PROVE  StockInv'
  BY FormsKeep
<1>1. ASSUME NEW x \in Slot, Runs(x) \/ ConnectionLost(x)
      PROVE  StockInv'
  BY <1>1, RunKeeps
<1>2. ASSUME NEW x \in Slot, Unanswered(x)
      PROVE  StockInv'
  <2>1. tx[x] \in Transaction /\ UNCHANGED <<move, sale, shown>>
        /\ tx' = [tx EXCEPT ![x].for = None]
    BY <1>2 DEF Unanswered, StockInv, Kept
  <2>2. [tx[x] EXCEPT !.for = None] \in Transaction /\ Alike([tx[x] EXCEPT !.for = None], tx[x])
    BY <2>1 DEF Transaction, Alike
  <2>3. tx' = [tx EXCEPT ![x] = [tx[x] EXCEPT !.for = None]]
    BY <2>1
  <2>4. tx' \in [Slot -> Transaction \cup {None}]
    BY <2>2, <2>3 DEF StockInv, Kept
  <2>5. \A y \in Slot : tx'[y] # None => tx[y] # None /\ Alike(tx'[y], tx[y])
    BY <1>2, <2>2, <2>3 DEF StockInv, Kept, Alike, Unanswered
  <2> QED
    BY <2>1, <2>4, <2>5, Quiet
<1>3. ASSUME NEW s \in Screen,
             \/ ReadLevels(s) \/ ReadRows(s) \/ OpenDialog(s) \/ Leave(s) \/ TickAnyway(s)
             \/ Save(s) \/ TakeBack(s)
      PROVE  StockInv'
  BY <1>3, ScreenKeeps
<1>4. CASE UNCHANGED vars
  BY <1>4 DEF vars, StockInv, Kept, Offered, Going, Keyed, BackIsThere, SalesAgree, Rows, Reversed
<1> QED
  BY <1>1, <1>2, <1>3, <1>4 DEF Next

(***************************************************************************)
(* A sale that stands has taken its goods out and a void one has them      *)
(* back, once: whatever is recorded, sent again, corrected and voided at   *)
(* the same time, from lists however old (CreateSale, VoidSale,            *)
(* ReverseStockMove and the pages that offer them).                        *)
(***************************************************************************)
THEOREM SalesAndStockAgree == Spec => []SalesAgree
<1>1. StockInv => SalesAgree
  BY DEF StockInv
<1> QED
  BY StockInit, StockStep, <1>1, PTL DEF Spec

-----------------------------------------------------------------------------
(***************************************************************************)
(* What is typed once in a dialog of Stock is written once, for any number *)
(* of screens, dialogs and transactions.                                   *)
(***************************************************************************)

(***************************************************************************)
(* The id of an intent lives in three places: the dialog that minted it,   *)
(* the requests it sent, which may outlive the dialog, and the row one of  *)
(* them wrote.  All three are one mapping from what was typed to an id, to *)
(* which nothing is added but by a dialog that has no id yet for what is   *)
(* typed in it; and no dialog has the number of an earlier one.            *)
(***************************************************************************)
RowIs(i, t, op, id) ==
    /\ move[i] # None
    /\ move[i].typed = t
    /\ op = IF move[i].sale = None THEN "move" ELSE "sale"
    /\ id = IF move[i].sale = None THEN i ELSE move[i].sale

TxIs(x, t, op, id) ==
    /\ tx[x] # None
    /\ tx[x].op \in {"move", "sale"}
    /\ tx[x].row.typed = t
    /\ op = tx[x].op
    /\ id = tx[x].id

FormIs(s, t, op, id) ==
    /\ form[s] # None
    /\ op = form[s].kind
    /\ \E n \in Intent : t = <<s, form[s].number[2], n>> /\ form[s].ids[n] # None /\ id = form[s].ids[n]

Written(t, op, id) ==
    \/ \E i \in Id : RowIs(i, t, op, id)
    \/ \E x \in Slot : TxIs(x, t, op, id)
    \/ \E s \in Screen : FormIs(s, t, op, id)

Typed == Screen \X Nat \X Intent
Kind == {"move", "sale"}

OneId ==
    \A t \in Typed, p, q \in Kind, i, j \in Id :
        Written(t, p, i) /\ Written(t, q, j) => p = q /\ i = j

Numbered ==
    /\ \A s \in Screen, k \in Nat, n \in Intent, p \in Kind, i \in Id :
          Written(<<s, k, n>>, p, i) => k > left[s].dialog
    /\ \A s \in Screen : form[s] # None => form[s].number[2] > left[s].dialog

Unsent ==
    \A s \in Screen, k \in Nat, n \in Intent :
        form[s] # None /\ form[s].number[2] = k /\ form[s].ids[n] = None =>
            \A p \in Kind, i \in Id : ~Written(<<s, k, n>>, p, i)

IntentInv == OneId /\ Numbered /\ Unsent

-----------------------------------------------------------------------------
(* Steps that add nothing to the mapping. *)

Shrinks ==
    \A t \in Typed, p \in Kind, i \in Id : Written(t, p, i)' => Written(t, p, i)

FormsStay ==
    \A s \in Screen : form'[s] # None =>
        /\ form[s] # None
        /\ form'[s].kind = form[s].kind
        /\ form'[s].number = form[s].number
        /\ form'[s].ids = form[s].ids

RequestsStay ==
    \A x \in Slot : tx'[x] # None /\ tx'[x].op \in Kind =>
        /\ tx[x] # None
        /\ tx'[x].op = tx[x].op /\ tx'[x].id = tx[x].id /\ tx'[x].row = tx[x].row

LeftFalls == \A s \in Screen : left[s].dialog \in Nat /\ left'[s].dialog \in Nat
                                 /\ left'[s].dialog <= left[s].dialog

LEMMA NothingMinted ==
    ASSUME IntentInv, Forms, Shrinks, FormsStay, LeftFalls
    PROVE  IntentInv'
<1>1. OneId'
  BY DEF IntentInv, OneId, Shrinks
<1>2. \A s \in Screen : form[s] # None => form[s].number[2] \in Nat
  BY DEF Forms, Dialog
<1>3. Numbered'
  <2>1. ASSUME NEW s \in Screen, NEW k \in Nat, NEW n \in Intent, NEW p \in Kind, NEW i \in Id,
               Written(<<s, k, n>>, p, i)'
        PROVE  k > left'[s].dialog
    <3>1. <<s, k, n>> \in Typed
      BY DEF Typed
    <3>2. Written(<<s, k, n>>, p, i)
      BY <2>1, <3>1 DEF Shrinks
    <3>3. k > left[s].dialog
      BY <3>2 DEF IntentInv, Numbered
    <3> QED
      BY <3>3 DEF LeftFalls
  <2>2. ASSUME NEW s \in Screen, form'[s] # None
        PROVE  form'[s].number[2] > left'[s].dialog
    <3>1. form[s] # None /\ form'[s].number = form[s].number
      BY <2>2 DEF FormsStay
    <3>2. form[s].number[2] > left[s].dialog /\ form[s].number[2] \in Nat
      BY <1>2, <3>1 DEF IntentInv, Numbered
    <3> QED
      BY <3>1, <3>2 DEF LeftFalls
  <2> QED
    BY <2>1, <2>2 DEF Numbered
<1>4. Unsent'
  <2> SUFFICES ASSUME NEW s \in Screen, NEW k \in Nat, NEW n \in Intent, form'[s] # None,
                      form'[s].number[2] = k, form'[s].ids[n] = None,
                      NEW p \in Kind, NEW i \in Id, Written(<<s, k, n>>, p, i)'
               PROVE  FALSE
    BY DEF Unsent
  <2>1. form[s] # None /\ form[s].number[2] = k /\ form[s].ids[n] = None
    BY DEF FormsStay
  <2>2. Written(<<s, k, n>>, p, i)
    BY DEF Shrinks, Typed
  <2> QED
    BY <2>1, <2>2 DEF IntentInv, Unsent
<1> QED
  BY <1>1, <1>3, <1>4 DEF IntentInv

LEMMA DialogsShrink ==
    ASSUME FormsStay, NEW s \in Screen, NEW t \in Typed, NEW p \in Kind, NEW i \in Id,
           FormIs(s, t, p, i)'
    PROVE  FormIs(s, t, p, i)
BY DEF FormsStay, FormIs

LEMMA RequestsShrink ==
    ASSUME RequestsStay, NEW x \in Slot, NEW t \in Typed, NEW p \in Kind, NEW i \in Id,
           TxIs(x, t, p, i)'
    PROVE  TxIs(x, t, p, i)
BY DEF RequestsStay, TxIs, Kind

\* A step that keeps the rows, and of the requests and the dialogs no more than
\* there were.
LEMMA NothingNew ==
    ASSUME IntentInv, Forms, move' = move, RequestsStay, FormsStay, LeftFalls
    PROVE  IntentInv'
<1>1. \A i \in Id, t \in Typed, p \in Kind, n \in Id : RowIs(i, t, p, n)' => RowIs(i, t, p, n)
  BY DEF RowIs
<1>2. Shrinks
  BY <1>1, DialogsShrink, RequestsShrink DEF Shrinks, Written
<1> QED
  BY <1>2, NothingMinted

-----------------------------------------------------------------------------
(* The steps. *)

LEMMA LeftStays == ASSUME Forms, left' = left PROVE LeftFalls
BY DEF Forms, Allowance, LeftFalls

LEMMA LeftSpent ==
    ASSUME Forms, NEW s \in Screen, NEW what \in {"dialog", "undo", "read", "loss"}, Spend(s, what)
    PROVE  LeftFalls
<1>1. left[s] \in Allowance /\ left[s][what] - 1 \in Nat /\ left[s][what] - 1 <= left[s][what]
  BY DEF Forms, Spend, Allowance
<1>2. left' = [left EXCEPT ![s] = [left[s] EXCEPT ![what] = left[s][what] - 1]]
  BY DEF Spend
<1>3. [left[s] EXCEPT ![what] = left[s][what] - 1].dialog \in Nat
      /\ [left[s] EXCEPT ![what] = left[s][what] - 1].dialog <= left[s].dialog
  BY <1>1 DEF Allowance
<1> QED
  BY <1>2, <1>3 DEF Forms, Allowance, LeftFalls

\* A dialog that gets an answer has what it had, if it stays open.
LEMMA AnswerStays ==
    ASSUME Forms, StockInv, NEW x \in Slot, NEW a, Answer(x, a)
    PROVE  RequestsStay /\ FormsStay
<1>1. RequestsStay
  BY DEF Answer, RequestsStay, StockInv, Kept
<1>2. \A s \in Screen : form[s] # None => form[s] \in Dialog
  BY DEF Forms
<1>3. FormsStay
  <2> SUFFICES ASSUME NEW s \in Screen, form'[s] # None
               PROVE  /\ form[s] # None
                      /\ form'[s].kind = form[s].kind
                      /\ form'[s].number = form[s].number
                      /\ form'[s].ids = form[s].ids
    BY DEF FormsStay
  <2>1. CASE ~Awaits(s, x)
    BY <2>1 DEF Answer
  <2>2. CASE Awaits(s, x)
    <3>1. form[s] \in Dialog /\ form'[s] = [form[s] EXCEPT !.busy = FALSE]
      BY <1>2, <2>2 DEF Awaits, Answer
    <3> QED
      BY <2>2, <3>1 DEF Awaits, Dialog
  <2> QED
    BY <2>1, <2>2
<1> QED
  BY <1>1, <1>3

\* The row a request writes bears the id the request had for what was typed.
LEMMA CommitMintsNothing ==
    ASSUME IntentInv, StockInv, Forms, NEW x \in Slot, Commit(x)
    PROVE  IntentInv'
<1>1. /\ tx[x] # None /\ tx[x].at = "commit"
      /\ Answer(x, "ok") /\ left' = left
  BY DEF Commit
<1>2. tx[x] \in Transaction /\ Sound(tx[x], move, sale)
  BY <1>1 DEF StockInv, Kept, Going
<1>3. PICK i \in IF tx[x].op = "move" THEN {tx[x].id} ELSE NewMove :
        move' = [move EXCEPT ![i] = tx[x].row]
  BY DEF Commit
<1>4. i \in Id
  BY <1>2, <1>3 DEF Transaction, NewMove, Unused
<1>5. move'[i] = tx[x].row /\ \A j \in Id \ {i} : move'[j] = move[j]
  BY <1>3, <1>4 DEF StockInv, Kept
<1>6. tx[x].row \in Movement /\ tx[x].op \in {"move", "sale", "reverse", "void"}
  BY <1>1, <1>2 DEF Sound, Transaction
<1>7. CASE tx[x].op \in {"reverse", "void"}
  <2>1. tx[x].row.back \in Id
    BY <1>1, <1>2, <1>7 DEF Sound, Rows
  <2>2. tx[x].row.typed = None
    BY <1>6, <2>1, NoneAssumption DEF Movement, Id
  <2>3. ASSUME NEW j \in Id, NEW t \in Typed, NEW p \in Kind, NEW n \in Id, RowIs(j, t, p, n)'
        PROVE  RowIs(j, t, p, n)
    BY <1>5, <2>2, <2>3, NoneAssumption DEF RowIs, Typed
  <2>4. Shrinks
    BY <1>1, <2>3, AnswerStays, DialogsShrink, RequestsShrink DEF Shrinks, Written
  <2> QED
    BY <1>1, <2>4, AnswerStays, LeftStays, NothingMinted
<1>8. CASE tx[x].op \in {"move", "sale"}
  <2>1. tx[x].row.sale = (IF tx[x].op = "sale" THEN tx[x].id ELSE None) /\ tx[x].id \in Id
    BY <1>2, <1>8 DEF Sound, Transaction
  <2>2. ASSUME NEW t \in Typed, NEW p \in Kind, NEW n \in Id, RowIs(i, t, p, n)'
        PROVE  TxIs(x, t, p, n)
    BY <1>1, <1>3, <1>5, <1>8, <2>1, <2>2, NoneAssumption DEF RowIs, TxIs, Id
  <2>3. ASSUME NEW j \in Id \ {i}, NEW t \in Typed, NEW p \in Kind, NEW n \in Id,
               RowIs(j, t, p, n)'
        PROVE  RowIs(j, t, p, n)
    BY <1>5, <2>3 DEF RowIs
  <2>4. Shrinks
    BY <1>1, <2>2, <2>3, AnswerStays, DialogsShrink, RequestsShrink DEF Shrinks, Written
  <2> QED
    BY <1>1, <2>4, AnswerStays, LeftStays, NothingMinted
<1> QED
  BY <1>6, <1>7, <1>8

\* The other statements of a request.
LEMMA RunMintsNothing ==
    ASSUME IntentInv, StockInv, Forms, NEW x \in Slot, Runs(x) \/ ConnectionLost(x) \/ Unanswered(x)
    PROVE  IntentInv'
<1>1. CASE Commit(x)
  BY <1>1, CommitMintsNothing
<1>2. ASSUME NEW a, Answer(x, a), move' = move, left' = left \/ Fails
      PROVE  IntentInv'
  BY <1>2, AnswerStays, LeftStays, LeftSpent, NothingNew DEF Fails
<1>3. ASSUME RequestsStay, form' = form, move' = move, left' = left
      PROVE  IntentInv'
  BY <1>3, LeftStays, NothingNew DEF FormsStay
<1>4. CASE Look(x)
  <2>0. tx[x] \in Transaction /\ move' = move /\ left' = left
    BY <1>4 DEF Look, StockInv, Kept
  <2>1. CASE \E a \in {"ok", "refused"} : Answer(x, a)
    BY <1>2, <2>0, <2>1
  <2>2. CASE \E at \in {"lock", "claim"} : Goes(x, at)
    <3>1. tx'[x].op = tx[x].op /\ tx'[x].id = tx[x].id /\ tx'[x].row = tx[x].row
          /\ \A y \in Slot \ {x} : tx'[y] = tx[y]
      BY <2>0, <2>2 DEF Goes, StockInv, Kept, Transaction
    <3>2. RequestsStay
      BY <1>4, <3>1 DEF Look, RequestsStay
    <3> QED
      BY <1>3, <2>0, <2>2, <3>2 DEF Goes
  <2>3. CASE /\ tx[x].op \in {"reverse", "void"}
             /\ \E r \in {Opposite(Venta(tx[x].id)), Opposite(tx[x].id)} :
                    tx' = [tx EXCEPT ![x].at = "claim", ![x].row = r]
             /\ form' = form
    <3>1. tx'[x].op = tx[x].op
      BY <2>0, <2>3 DEF StockInv, Kept, Transaction
    <3>2. RequestsStay
      BY <2>3, <3>1 DEF RequestsStay, StockInv, Kept, Kind
    <3> QED
      BY <1>3, <2>0, <2>3, <3>2
  <2> QED
    BY <1>4, <2>1, <2>2, <2>3 DEF Look
<1>5. CASE LockProductForStock(x)
  BY <1>3, <1>5 DEF LockProductForStock, RequestsStay, StockInv, Kept, Transaction
<1>6. CASE GuardStock(x)
  <2>1. CASE Answer(x, "refused")
    BY <1>2, <1>6, <2>1 DEF GuardStock
  <2>2. CASE Goes(x, "claim")
    BY <1>3, <1>6, <2>2 DEF GuardStock, Goes, RequestsStay, StockInv, Kept, Transaction
  <2> QED
    BY <1>6, <2>1, <2>2 DEF GuardStock
<1>7. CASE Claim(x)
  <2>1. CASE Answer(x, "refused")
    BY <1>2, <1>7, <2>1 DEF Claim
  <2>2. CASE Goes(x, "share")
    BY <1>3, <1>7, <2>2 DEF Claim, Goes, RequestsStay, StockInv, Kept, Transaction
  <2> QED
    BY <1>7, <2>1, <2>2 DEF Claim
<1>8. CASE Share(x)
  BY <1>3, <1>8 DEF Share, RequestsStay, StockInv, Kept, Transaction
<1>9. CASE DeadlockVictim(x) \/ ConnectionLost(x)
  BY <1>2, <1>9 DEF DeadlockVictim, ConnectionLost
<1>10. CASE Unanswered(x)
  <2>1. RequestsStay
    BY <1>10 DEF Unanswered, RequestsStay, StockInv, Kept, Transaction
  <2>2. FormsStay
    <3>1. \A s \in Screen : form'[s] # None => form[s] # None /\ form[s] \in Dialog
                 /\ form'[s] \in {form[s], [form[s] EXCEPT !.busy = FALSE]}
      BY <1>10 DEF Unanswered, Forms, Awaits
    <3> QED
      BY <3>1 DEF FormsStay, Dialog
  <2>3. LeftFalls /\ move' = move
    BY <1>10, LeftSpent DEF Unanswered, Fails
  <2> QED
    BY <2>1, <2>2, <2>3, NothingNew
<1> QED
  BY <1>1, <1>4, <1>5, <1>6, <1>7, <1>8, <1>9, <1>10 DEF Runs

\* A dialog that opens has a number of its own.
LEMMA OpenMintsNothing ==
    ASSUME IntentInv, Forms, NEW s \in Screen, OpenDialog(s)
    PROVE  IntentInv'
<1>1. /\ form[s] = None /\ move' = move /\ tx' = tx
      /\ LeftFalls
  BY LeftSpent DEF OpenDialog
<1>2. left[s].dialog \in Nat /\ left'[s].dialog < left[s].dialog
  BY DEF OpenDialog, Spend, Forms, Allowance
<1>3. PICK kind \in Kind :
        form' = [form EXCEPT ![s] =
            [kind |-> kind, number |-> <<s, left[s].dialog>>, sure |-> FALSE, busy |-> FALSE,
             ids |-> [n \in Intent |-> None]]]
  BY DEF OpenDialog, Kind
<1>4. /\ form'[s].number[2] = left[s].dialog
      /\ \A n \in Intent : form'[s].ids[n] = None
      /\ \A p \in Screen \ {s} : form'[p] = form[p]
  BY <1>3 DEF Forms
<1>5. \A p \in Screen, t \in Typed, q \in Kind, i \in Id : FormIs(p, t, q, i)' => FormIs(p, t, q, i)
  BY <1>4 DEF FormIs
<1>6. Shrinks
  <2>1. \A i \in Id, t \in Typed, q \in Kind, n \in Id : RowIs(i, t, q, n)' => RowIs(i, t, q, n)
    BY <1>1 DEF RowIs
  <2>2. \A x \in Slot, t \in Typed, q \in Kind, n \in Id : TxIs(x, t, q, n)' => TxIs(x, t, q, n)
    BY <1>1 DEF TxIs
  <2> QED
    BY <1>5, <2>1, <2>2 DEF Shrinks, Written
<1>7. OneId'
  BY <1>6 DEF IntentInv, OneId, Shrinks
<1>8. Numbered'
  <2>1. ASSUME NEW p \in Screen, NEW k \in Nat, NEW n \in Intent, NEW q \in Kind, NEW i \in Id,
               Written(<<p, k, n>>, q, i)'
        PROVE  k > left'[p].dialog
    <3>1. Written(<<p, k, n>>, q, i)
      BY <1>6, <2>1 DEF Shrinks, Typed
    <3>2. k > left[p].dialog
      BY <3>1 DEF IntentInv, Numbered
    <3> QED
      BY <1>1, <3>2 DEF LeftFalls
  <2>2. ASSUME NEW p \in Screen, form'[p] # None
        PROVE  form'[p].number[2] > left'[p].dialog
    <3>1. CASE p = s
      BY <1>2, <1>4, <3>1
    <3>2. CASE p # s
      <4>1. form'[p] = form[p] /\ form[p].number[2] \in Nat
        BY <1>4, <2>2, <3>2 DEF Forms, Dialog
      <4> QED
        BY <1>1, <2>2, <4>1 DEF IntentInv, Numbered, LeftFalls
    <3> QED
      BY <3>1, <3>2
  <2> QED
    BY <2>1, <2>2 DEF Numbered
<1>9. Unsent'
  <2> SUFFICES ASSUME NEW p \in Screen, NEW k \in Nat, NEW n \in Intent, form'[p] # None,
                      form'[p].number[2] = k, form'[p].ids[n] = None,
                      NEW q \in Kind, NEW i \in Id, Written(<<p, k, n>>, q, i)'
               PROVE  FALSE
    BY DEF Unsent
  <2>1. Written(<<p, k, n>>, q, i)
    BY <1>6 DEF Shrinks, Typed
  <2>2. CASE p = s
    BY <1>2, <1>4, <2>1, <2>2 DEF IntentInv, Numbered
  <2>3. CASE p # s
    BY <1>4, <2>1, <2>3 DEF IntentInv, Unsent
  <2> QED
    BY <2>2, <2>3
<1> QED
  BY <1>7, <1>8, <1>9 DEF IntentInv

\* A dialog mints an id for what it has sent nothing of yet, and sends it again
\* under the id it minted.
LEMMA SaveMintsOnce ==
    ASSUME IntentInv, StockInv, Forms, NEW s \in Screen, Save(s)
    PROVE  IntentInv'
<1>1. PICK x \in Slot \ Open, n \in Intent : \E i \in Mint(s, n) :
        /\ form' = [form EXCEPT ![s].busy = TRUE, ![s].ids[n] = i]
        /\ tx' = [tx EXCEPT ![x] =
              [op |-> form[s].kind, id |-> i, at |-> "look", lock |-> "none", for |-> s,
               row |-> [shelf |-> n[1], qty |-> n[2], back |-> None, sure |-> form[s].sure,
                        sale |-> IF form[s].kind = "sale" THEN i ELSE None,
                        typed |-> <<s, form[s].number[2], n>>]]]
  BY DEF Save
<1>2. PICK i \in Mint(s, n) :
        /\ form' = [form EXCEPT ![s].busy = TRUE, ![s].ids[n] = i]
        /\ tx' = [tx EXCEPT ![x] =
              [op |-> form[s].kind, id |-> i, at |-> "look", lock |-> "none", for |-> s,
               row |-> [shelf |-> n[1], qty |-> n[2], back |-> None, sure |-> form[s].sure,
                        sale |-> IF form[s].kind = "sale" THEN i ELSE None,
                        typed |-> <<s, form[s].number[2], n>>]]]
  BY <1>1
<1>3. form[s] # None /\ form[s] \in Dialog /\ move' = move /\ left' = left
  BY DEF Save, Forms
<1>4. PICK k \in Nat, kind \in Kind : form[s].number[2] = k /\ form[s].kind = kind
  BY <1>3 DEF Dialog, Kind
<1>5. i \in Id /\ i # None /\ (form[s].ids[n] # None => i = form[s].ids[n])
  BY <1>3, NoneAssumption DEF Mint, NewMove, NewSale, Unused, Dialog, Id
<1>6. /\ form'[s].number[2] = k /\ form'[s].kind = kind
      /\ form'[s].ids[n] = i
      /\ \A m \in Intent \ {n} : form'[s].ids[m] = form[s].ids[m]
      /\ \A p \in Screen \ {s} : form'[p] = form[p]
  <2>1. form' = [form EXCEPT ![s] =
                    [form[s] EXCEPT !.busy = TRUE, !.ids = [form[s].ids EXCEPT ![n] = i]]]
    BY <1>2, <1>3 DEF Forms, Dialog
  <2>2. form'[s] = [form[s] EXCEPT !.busy = TRUE, !.ids = [form[s].ids EXCEPT ![n] = i]]
        /\ \A p \in Screen \ {s} : form'[p] = form[p]
    BY <2>1 DEF Forms
  <2>3. /\ form'[s].number = form[s].number /\ form'[s].kind = form[s].kind
        /\ form'[s].ids = [form[s].ids EXCEPT ![n] = i]
    <3>1. [form[s].ids EXCEPT ![n] = i] \in [Intent -> Id \cup {None}]
      BY <1>3, <1>5 DEF Dialog
    <3>2. PICK ids \in [Intent -> Id \cup {None}] : ids = [form[s].ids EXCEPT ![n] = i]
      BY <3>1
    <3>3. form'[s] = [form[s] EXCEPT !.busy = TRUE, !.ids = ids]
      BY <2>2, <3>2
    <3>4. form'[s].number = form[s].number /\ form'[s].kind = form[s].kind /\ form'[s].ids = ids
      BY <1>3, <3>3 DEF Dialog
    <3> QED
      BY <3>2, <3>4
  <2> QED
    BY <1>3, <1>4, <2>2, <2>3 DEF Dialog
<1> DEFINE typed == <<s, k, n>>
<1>7. typed \in Typed
  BY DEF Typed
<1>8. ASSUME NEW t \in Typed, NEW p \in Kind, NEW j \in Id, Written(t, p, j)'
      PROVE  Written(t, p, j) \/ (t = typed /\ p = kind /\ j = i)
  <2>1. ASSUME NEW r \in Id, RowIs(r, t, p, j)'
        PROVE  RowIs(r, t, p, j)
    BY <1>3, <2>1 DEF RowIs
  <2>2. ASSUME NEW y \in Slot, TxIs(y, t, p, j)'
        PROVE  TxIs(y, t, p, j) \/ (t = typed /\ p = kind /\ j = i)
    <3>1. CASE y = x
      BY <1>2, <1>4, <2>2, <3>1 DEF StockInv, Kept, TxIs
    <3>2. CASE y # x
      BY <1>2, <2>2, <3>2 DEF StockInv, Kept, TxIs
    <3> QED
      BY <3>1, <3>2
  <2>3. ASSUME NEW q \in Screen, FormIs(q, t, p, j)'
        PROVE  FormIs(q, t, p, j) \/ (t = typed /\ p = kind /\ j = i)
    BY <1>3, <1>4, <1>6, <2>3 DEF FormIs
  <2> QED
    BY <1>8, <2>1, <2>2, <2>3 DEF Written
<1>9. form[s].ids[n] # None => Written(typed, kind, i)
  BY <1>3, <1>4, <1>5 DEF Written, FormIs
<1>10. form[s].ids[n] = None => \A p \in Kind, j \in Id : ~Written(typed, p, j)
  BY <1>3, <1>4 DEF IntentInv, Unsent
<1>11. OneId'
  <2> SUFFICES ASSUME NEW t \in Typed, NEW p \in Kind, NEW q \in Kind, NEW j \in Id, NEW l \in Id,
                      Written(t, p, j)', Written(t, q, l)'
               PROVE  p = q /\ j = l
    BY DEF OneId
  <2> HIDE DEF typed
  <2>1. Written(t, p, j) \/ (t = typed /\ p = kind /\ j = i)
    BY <1>8
  <2>2. Written(t, q, l) \/ (t = typed /\ q = kind /\ l = i)
    BY <1>8
  <2> QED
    BY <1>5, <1>7, <1>9, <1>10, <2>1, <2>2 DEF IntentInv, OneId
<1>12. Numbered'
  <2>1. k > left[s].dialog
    BY <1>3, <1>4 DEF IntentInv, Numbered
  <2>2. ASSUME NEW p \in Screen, NEW l \in Nat, NEW m \in Intent, NEW q \in Kind, NEW j \in Id,
               Written(<<p, l, m>>, q, j)'
        PROVE  l > left[p].dialog
    <3>1. <<p, l, m>> \in Typed
      BY DEF Typed
    <3>2. Written(<<p, l, m>>, q, j) \/ <<p, l, m>> = typed
      BY <1>8, <2>2, <3>1
    <3> QED
      BY <2>1, <3>2 DEF IntentInv, Numbered
  <2>3. ASSUME NEW p \in Screen, form'[p] # None
        PROVE  form'[p].number[2] > left[p].dialog
    BY <1>6, <2>1, <2>3 DEF IntentInv, Numbered
  <2> QED
    BY <1>3, <2>2, <2>3 DEF Numbered
<1>13. Unsent'
  <2> SUFFICES ASSUME NEW p \in Screen, NEW l \in Nat, NEW m \in Intent, form'[p] # None,
                      form'[p].number[2] = l, form'[p].ids[m] = None,
                      NEW q \in Kind, NEW j \in Id, Written(<<p, l, m>>, q, j)'
               PROVE  FALSE
    BY DEF Unsent
  <2>1. form[p] # None /\ form[p].number[2] = l /\ form[p].ids[m] = None /\ ~(p = s /\ m = n)
    BY <1>3, <1>4, <1>5, <1>6
  <2>2. <<p, l, m>> # typed
    BY <2>1
  <2>3. <<p, l, m>> \in Typed
    BY DEF Typed
  <2>4. Written(<<p, l, m>>, q, j)
    BY <1>8, <2>2, <2>3
  <2> QED
    BY <2>1, <2>4 DEF IntentInv, Unsent
<1> QED
  BY <1>11, <1>12, <1>13 DEF IntentInv

LEMMA IntentInit == Init => IntentInv
<1> SUFFICES ASSUME Init
             PROVE  IntentInv
  OBVIOUS
<1>1. /\ \A x \in Slot : tx[x] = None
      /\ \A s \in Screen : form[s] = None
  BY DEF Init
<1>2. \A i \in Id : move[i] # None => move[i].typed = None
  BY DEF Init
<1>3. \A t \in Typed, p \in Kind, i \in Id : ~Written(t, p, i)
  BY <1>1, <1>2, NoneAssumption DEF Written, RowIs, TxIs, FormIs, Typed
<1> QED
  BY <1>1, <1>3 DEF IntentInv, OneId, Numbered, Unsent, Typed

\* The people at the screens mint an id only where there is none.
LEMMA ScreenMintsOnce ==
    ASSUME IntentInv, StockInv, Forms, NEW s \in Screen,
           \/ ReadLevels(s) \/ ReadRows(s) \/ OpenDialog(s) \/ Leave(s) \/ TickAnyway(s)
           \/ Save(s) \/ TakeBack(s)
    PROVE  IntentInv'
<1>1. CASE OpenDialog(s)
  BY <1>1, OpenMintsNothing
<1>2. CASE Save(s)
  BY <1>2, SaveMintsOnce
<1>3. CASE ReadLevels(s) \/ ReadRows(s)
  <2>1. move' = move /\ RequestsStay /\ FormsStay
    BY <1>3 DEF ReadLevels, ReadRows, RequestsStay, FormsStay
  <2>2. LeftFalls
    BY <1>3, LeftSpent DEF ReadLevels, ReadRows
  <2> QED
    BY <2>1, <2>2, NothingNew
<1>4. CASE Leave(s)
  <2>1. move' = move /\ FormsStay
    BY <1>4 DEF Leave, FormsStay, Forms
  <2>2. RequestsStay
    <3>1. \A x \in Slot : tx'[x] # None => tx[x] # None /\ tx[x] \in Transaction
                 /\ tx'[x] \in {tx[x], [tx[x] EXCEPT !.for = None]}
      BY <1>4 DEF Leave, StockInv, Kept
    <3> QED
      BY <3>1 DEF RequestsStay, Transaction
  <2>3. LeftFalls
    BY <1>4, LeftSpent, LeftStays DEF Leave, Fails
  <2> QED
    BY <2>1, <2>2, <2>3, NothingNew
<1>5. CASE TickAnyway(s)
  <2>1. form[s] \in Dialog /\ form' = [form EXCEPT ![s] = [form[s] EXCEPT !.sure = ~form[s].sure]]
    BY <1>5 DEF TickAnyway, Forms
  <2>2. FormsStay
    BY <1>5, <2>1 DEF TickAnyway, FormsStay, Forms, Dialog
  <2>3. move' = move /\ RequestsStay /\ LeftFalls
    BY <1>5, LeftStays DEF TickAnyway, RequestsStay
  <2> QED
    BY <2>2, <2>3, NothingNew
<1>6. CASE TakeBack(s)
  <2>1. move' = move /\ FormsStay
    BY <1>6 DEF TakeBack, FormsStay
  <2>2. PICK x \in Slot \ Open, op \in {"reverse", "void"} : \E i :
          tx' = [tx EXCEPT ![x] = [op |-> op, id |-> i, row |-> None, at |-> "look",
                                   lock |-> "none", for |-> s]]
    BY <1>6 DEF TakeBack
  <2>3. RequestsStay
    BY <2>2 DEF RequestsStay, StockInv, Kept, Kind
  <2>4. LeftFalls
    BY <1>6, LeftSpent DEF TakeBack
  <2> QED
    BY <2>1, <2>3, <2>4, NothingNew
<1> QED
  BY <1>1, <1>2, <1>3, <1>4, <1>5, <1>6

OnceInv == StockInv /\ Forms /\ IntentInv

LEMMA OnceStep == OnceInv /\ [Next]_vars => OnceInv'
<1> SUFFICES ASSUME OnceInv, [Next]_vars
             PROVE  IntentInv'
  BY StockStep DEF OnceInv
<1>1. CASE UNCHANGED vars
  <2>1. move' = move /\ RequestsStay /\ FormsStay /\ left' = left
    BY <1>1 DEF vars, RequestsStay, FormsStay
  <2> QED
    BY <2>1, LeftStays, NothingNew DEF OnceInv
<1> QED
  BY <1>1, RunMintsNothing, ScreenMintsOnce DEF OnceInv, Next

\* Two rows of one typing have one id, and a sale has one row.
LEMMA OnceWritten == OnceInv => WrittenOnce
<1> SUFFICES ASSUME OnceInv, NEW i \in Rows(move), NEW j \in Rows(move),
                    move[i].typed # None, move[i].typed = move[j].typed
             PROVE  i = j
  BY DEF WrittenOnce
<1>1. i \in Id /\ j \in Id /\ move[i] \in Movement /\ move[j] \in Movement
  BY DEF OnceInv, StockInv, Kept, Rows
<1>2. PICK t \in Typed : move[i].typed = t /\ move[j].typed = t
  BY <1>1 DEF Movement, Typed
<1> DEFINE Op(x) == IF move[x].sale = None THEN "move" ELSE "sale"
           Name(x) == IF move[x].sale = None THEN x ELSE move[x].sale
<1>3. Name(i) \in Id /\ Name(j) \in Id /\ Op(i) \in Kind /\ Op(j) \in Kind
  BY <1>1 DEF Movement, Kind
<1>4. RowIs(i, t, Op(i), Name(i)) /\ RowIs(j, t, Op(j), Name(j))
  BY <1>2 DEF RowIs, Rows
<1>5. Written(t, Op(i), Name(i)) /\ Written(t, Op(j), Name(j))
  BY <1>1, <1>4 DEF Written
<1> HIDE DEF Op, Name
<1>6. Op(i) = Op(j) /\ Name(i) = Name(j)
  BY <1>3, <1>5 DEF OnceInv, IntentInv, OneId
<1>7. CASE move[i].sale = None
  BY <1>6, <1>7 DEF Op, Name
<1>8. CASE move[i].sale # None
  <2>1. move[j].sale = move[i].sale
    BY <1>6, <1>8 DEF Op, Name
  <2>2. move[i].sale \in Rows(sale)
    BY <1>1, <1>8 DEF OnceInv, StockInv, SalesAgree, Movement, Rows
  <2> QED
    BY <2>1, <2>2 DEF OnceInv, StockInv, SalesAgree
<1> QED
  BY <1>7, <1>8

(***************************************************************************)
(* One movement or one sale for what is typed once, whatever breaks and    *)
(* however often it is sent (StockMoveDialog.tsx, SaleFormDialog.tsx).     *)
(***************************************************************************)
THEOREM TypedOnceWrittenOnce == Spec => []WrittenOnce
<1>1. Init => OnceInv
  BY StockInit, IntentInit DEF OnceInv
<1> QED
  BY <1>1, OnceStep, OnceWritten, PTL DEF Spec

-----------------------------------------------------------------------------
(***************************************************************************)
(* The levels.  A level is a sum of figures, of which Sums says how it     *)
(* changes when a movement is added.                                       *)
(***************************************************************************)
Moves(m) == m \in [Id -> Movement \cup {None}]

Figures(m) == [i \in Rows(m) |-> m[i].qty]
On(m, s) == {i \in Rows(m) : m[i].shelf = s}
Stands(m, s) == {i \in On(m, s) : m[i].back = None /\ ~Reversed(m, i)}
Sum(m, S) == Total(Figures(m), S)

\* Movements are finitely many and their figures integers.
LEMMA MoveFigures ==
    ASSUME NEW m, Moves(m)
    PROVE  /\ \A i \in Rows(m) : /\ i \in Id /\ m[i] \in Movement
                                 /\ Figures(m)[i] = m[i].qty
                                 /\ Figures(m)[i] \in Int
           /\ \A s : On(m, s) \in SUBSET Rows(m) /\ Stands(m, s) \in SUBSET Rows(m)
           /\ \A S \in SUBSET Rows(m) : IsFiniteSet(S) /\ Sum(m, S) \in Int
<1>1. \A i \in Rows(m) : i \in Id /\ m[i] \in Movement
  BY DEF Moves, Rows
<1>2. \A i \in Rows(m) : Figures(m)[i] = m[i].qty /\ m[i].qty \in Int
  BY <1>1 DEF Figures, Movement
<1>3. \A s : On(m, s) \in SUBSET Rows(m) /\ Stands(m, s) \in SUBSET Rows(m)
  BY DEF On, Stands
<1>4. ASSUME NEW S \in SUBSET Rows(m)
      PROVE  IsFiniteSet(S) /\ Sum(m, S) \in Int
  <2>1. IsFiniteSet(Id)
    BY FS_Interval, BoundAssumption DEF Id
  <2>2. IsFiniteSet(S)
    BY <1>1, <2>1, FS_Subset
  <2>3. \A i \in S : Figures(m)[i] \in Int
    BY <1>2
  <2> QED
    BY <2>2, <2>3, TotalStep DEF Sum
<1> QED
  BY <1>1, <1>2, <1>3, <1>4

\* What is on hand, as a sum of figures.
LEMMA OnHandIs ==
    ASSUME NEW m, Moves(m), NEW s
    PROVE  StockOnHand(m, s) = Sum(m, On(m, s)) /\ StockOnHand(m, s) \in Int
<1> DEFINE S == On(m, s)
           v == Figures(m)
           Eq(f) == f = [t \in SUBSET S |->
                           IF t = {} THEN 0
                           ELSE m[CHOOSE x \in t : TRUE].qty + f[t \ {CHOOSE x \in t : TRUE}]]
<1>1. StockOnHand(m, s) = (CHOOSE f : Eq(f))[S]
  <2>1. StockOnHand(m, s) = MapThenSumSet(LAMBDA i : m[i].qty, S)
    BY DEF StockOnHand, On
  <2> QED
    BY <2>1 DEF MapThenSumSet, MapThenFoldSet
<1>2. IsFiniteSet(S) /\ \A i \in S : v[i] = m[i].qty /\ v[i] \in Int
  BY MoveFigures
<1>3. Sum(m, S) \in Int
  BY MoveFigures
<1> HIDE DEF v, S
<1>4. \A f : Eq(f) <=> AddsUp(f, v, S)
  <2>1. \A t \in SUBSET S : t # {} => Pick(t) \in S
    BY PickIn
  <2> QED
    BY <1>2, <2>1 DEF AddsUp, Pick
<1>5. \E f : AddsUp(f, v, S)
  BY <1>2, AddingUpIsPossible
<1> HIDE DEF Eq
<1>6. AddsUp(CHOOSE f : Eq(f), v, S)
  BY <1>4, <1>5
<1>7. (CHOOSE f : Eq(f))[S] = Total(v, S)
  BY <1>2, <1>6, OneTotal
<1> QED
  BY <1>1, <1>3, <1>7 DEF Sum, v, S

\* A movement is written under an id that has none.
Adds(m, new, n, row) == n \in Id /\ m[n] = None /\ row \in Movement /\ new = [m EXCEPT ![n] = row]

LEMMA AddsOne ==
    ASSUME NEW m, Moves(m), NEW new, NEW n, NEW row, Adds(m, new, n, row)
    PROVE  /\ Moves(new) /\ n \notin Rows(m) /\ Rows(new) = Rows(m) \cup {n}
           /\ new[n] = row /\ \A i \in Rows(m) : new[i] = m[i]
           /\ Figures(new)[n] = row.qty /\ row.qty \in Int
           /\ \A i \in Rows(m) : Figures(new)[i] = Figures(m)[i]
<1>1. row # None
  BY NoneAssumption DEF Adds
<1>2. Moves(new) /\ new[n] = row /\ \A i \in Id : i # n => new[i] = m[i]
  BY DEF Moves, Adds
<1>3. n \notin Rows(m) /\ Rows(new) = Rows(m) \cup {n}
  BY <1>1, <1>2 DEF Rows, Adds
<1>4. \A i \in Rows(m) : new[i] = m[i]
  BY <1>2, <1>3 DEF Rows
<1>5. row.qty \in Int
  BY DEF Adds, Movement
<1> QED
  BY <1>2, <1>3, <1>4, <1>5 DEF Figures

\* A sum that has the new movement, or has not, or loses an old one.
LEMMA SumWithMove ==
    ASSUME NEW m, Moves(m), NEW new, NEW n, NEW row, Adds(m, new, n, row)
    PROVE  \A S \in SUBSET Rows(m) :
              /\ Sum(new, S) = Sum(m, S)
              /\ Sum(new, S \cup {n}) = Sum(m, S) + row.qty
              /\ \A i \in S : Sum(new, S \ {i}) = Sum(m, S) - m[i].qty
              /\ Sum(m, S) \in Int
<1> TAKE S \in SUBSET Rows(m)
<1> DEFINE v == Figures(m)
           u == Figures(new)
<1>1. /\ IsFiniteSet(S) /\ n \notin S
      /\ \A x \in S : v[x] \in Int /\ v[x] = m[x].qty /\ u[x] = v[x]
      /\ u[n] = row.qty /\ row.qty \in Int
      /\ Total(v, S) \in Int
  BY MoveFigures, AddsOne DEF Sum
<1> HIDE DEF v, u
<1>2. Total(u, S) = Total(v, S)
  BY <1>1, TotalSame
<1>3. Total(u, S \cup {n}) = Total(v, S) + row.qty
  <2>1. IsFiniteSet(S) /\ n \notin S /\ u[n] \in Int
    BY <1>1
  <2>2. \A x \in S : v[x] \in Int
    BY <1>1
  <2>3. \A x \in S : u[x] = v[x]
    BY <1>1
  <2>4. Total(u, S \cup {n}) = Total(v, S) + u[n]
    BY <2>1, <2>2, <2>3, TotalGrows
  <2> QED
    BY <1>1, <2>4
<1>4. ASSUME NEW i \in S
      PROVE  Total(u, S \ {i}) = Total(v, S) - m[i].qty
  BY <1>1, TotalShrinks
<1> QED
  BY <1>1, <1>2, <1>3, <1>4 DEF Sum, u, v

\* A level is what stands: what was taken back and what took it back are nothing
\* together.
Level(m) == \A s \in Shelf : Sum(m, On(m, s)) = Sum(m, Stands(m, s))

Backed(m) == \A i \in Rows(m) : m[i].back # None => m[i].back \in Rows(m)

LEMMA OnWithMove ==
    ASSUME NEW m, Moves(m), NEW new, NEW n, NEW row, Adds(m, new, n, row), NEW s
    PROVE  On(new, s) = IF row.shelf = s THEN On(m, s) \cup {n} ELSE On(m, s)
  BY AddsOne DEF On

\* A movement that takes nothing back.
LEMMA PlainMove ==
    ASSUME NEW m, Moves(m), Level(m), Backed(m), NEW new, NEW n, NEW row, Adds(m, new, n, row),
           row.back = None
    PROVE  Level(new)
<1>1. /\ n \in Id /\ n # None /\ n \notin Rows(m) /\ Rows(new) = Rows(m) \cup {n}
      /\ new[n] = row /\ \A i \in Rows(m) : new[i] = m[i]
  <2>1. n \in Id /\ n # None
    BY NoneAssumption DEF Adds, Id
  <2> QED
    BY <2>1, AddsOne
<1>2. \A i \in Id : i # None /\ (Reversed(new, i) <=> Reversed(m, i))
  BY <1>1, NoneAssumption DEF Reversed, Id
<1>3. ~Reversed(m, n)
  BY <1>1 DEF Reversed, Backed
<1>4. \A S \in SUBSET Rows(m) :
              /\ Sum(new, S) = Sum(m, S)
              /\ Sum(new, S \cup {n}) = Sum(m, S) + row.qty
              /\ \A i \in S : Sum(new, S \ {i}) = Sum(m, S) - m[i].qty
              /\ Sum(m, S) \in Int
  BY SumWithMove
<1> SUFFICES ASSUME NEW s \in Shelf
             PROVE  Sum(new, On(new, s)) = Sum(new, Stands(new, s))
  BY DEF Level
<1>5. Sum(m, On(m, s)) = Sum(m, Stands(m, s))
  BY DEF Level
<1>6. On(m, s) \in SUBSET Rows(m) /\ Stands(m, s) \in SUBSET Rows(m) /\ Rows(m) \subseteq Id
  BY MoveFigures DEF Rows
<1>7. CASE row.shelf = s
  <2>1. On(new, s) = On(m, s) \cup {n}
    BY <1>7, OnWithMove
  <2>2. Stands(new, s) = Stands(m, s) \cup {n}
    BY <1>1, <1>2, <1>3, <1>6, <2>1 DEF Stands
  <2>3. /\ Sum(new, On(m, s) \cup {n}) = Sum(m, On(m, s)) + row.qty
        /\ Sum(new, Stands(m, s) \cup {n}) = Sum(m, Stands(m, s)) + row.qty
    BY <1>4, <1>6
  <2> QED
    BY <1>5, <2>1, <2>2, <2>3
<1>8. CASE row.shelf # s
  <2>1. On(new, s) = On(m, s)
    BY <1>8, OnWithMove
  <2>2. Stands(new, s) = Stands(m, s)
    BY <1>1, <1>2, <1>6, <2>1 DEF Stands
  <2> QED
    BY <1>4, <1>5, <1>6, <2>1, <2>2
<1> QED
  BY <1>7, <1>8

\* The opposite of a movement that stands.
LEMMA OppositeMove ==
    ASSUME NEW m, Moves(m), Level(m), Backed(m), NEW new, NEW n, NEW row, Adds(m, new, n, row),
           NEW j \in Rows(m), m[j].back = None, ~Reversed(m, j),
           row.back = j, row.qty = -m[j].qty, row.shelf = m[j].shelf
    PROVE  Level(new)
<1>1. /\ n \in Id /\ j \in Id /\ n # j /\ j # None /\ n \notin Rows(m)
      /\ Rows(new) = Rows(m) \cup {n}
      /\ new[n] = row /\ \A i \in Rows(m) : new[i] = m[i]
  <2>1. n \in Id /\ j \in Id /\ j # None
    BY NoneAssumption DEF Adds, Id, Rows
  <2>2. n \notin Rows(m)
    BY AddsOne
  <2> QED
    BY <2>1, <2>2, AddsOne
<1>2. \A i \in Id : Reversed(new, i) <=> Reversed(m, i) \/ i = j
  BY <1>1 DEF Reversed
<1>4. \A S \in SUBSET Rows(m) :
              /\ Sum(new, S) = Sum(m, S)
              /\ Sum(new, S \cup {n}) = Sum(m, S) + row.qty
              /\ \A i \in S : Sum(new, S \ {i}) = Sum(m, S) - m[i].qty
              /\ Sum(m, S) \in Int
  BY SumWithMove
<1> SUFFICES ASSUME NEW s \in Shelf
             PROVE  Sum(new, On(new, s)) = Sum(new, Stands(new, s))
  BY DEF Level
<1>5. Sum(m, On(m, s)) = Sum(m, Stands(m, s)) /\ m[j].qty \in Int
  BY MoveFigures DEF Level
<1>6. On(m, s) \in SUBSET Rows(m) /\ Stands(m, s) \in SUBSET Rows(m) /\ Rows(m) \subseteq Id
  BY MoveFigures DEF Rows
<1>7. CASE row.shelf = s
  <2>1. On(new, s) = On(m, s) \cup {n}
    BY <1>7, OnWithMove
  <2>2. Stands(new, s) = Stands(m, s) \ {j}
    BY <1>1, <1>2, <1>6, <2>1 DEF Stands
  <2>3. j \in Stands(m, s)
    BY <1>7 DEF Stands, On
  <2>4. /\ Sum(new, On(m, s) \cup {n}) = Sum(m, On(m, s)) + row.qty
        /\ Sum(new, Stands(m, s) \ {j}) = Sum(m, Stands(m, s)) - m[j].qty
        /\ Sum(m, On(m, s)) \in Int
    BY <1>4, <1>6, <2>3
  <2> QED
    BY <1>5, <2>1, <2>2, <2>4
<1>8. CASE row.shelf # s
  <2>1. On(new, s) = On(m, s)
    BY <1>8, OnWithMove
  <2>2. Stands(new, s) = Stands(m, s)
    <3>1. j \notin On(m, s)
      BY <1>8 DEF On
    <3> QED
      BY <1>1, <1>2, <1>6, <2>1, <3>1 DEF Stands
  <2> QED
    BY <1>4, <1>5, <1>6, <2>1, <2>2
<1> QED
  BY <1>7, <1>8

(***************************************************************************)
(* Between the look at what is left and the commit nobody else commits a   *)
(* movement: who looked holds the product for update, and nobody commits   *)
(* without a lock on it.  And what takes a movement back is the opposite   *)
(* of one that takes nothing back.                                         *)
(***************************************************************************)
Mirror(t, m) ==
    t.op \in {"reverse", "void"} /\ t.at # "look" =>
        /\ m[t.row.back].back = None
        /\ t.row.qty = -m[t.row.back].qty
        /\ t.row.shelf = m[t.row.back].shelf

NeedsLook(t) == t.op \in {"move", "sale"} /\ t.row.qty < 0 /\ ~t.row.sure

Looked(t, m) ==
    /\ t.at = "guard" => t.lock = "update"
    /\ t.at = "commit" => t.lock # "none"
    /\ t.at \in {"claim", "share", "commit"} /\ NeedsLook(t) =>
        /\ t.lock = "update"
        /\ Sum(m, On(m, t.row.shelf)) + t.row.qty >= 0

Apart(t, u) == t.lock = "update" => u.lock = "none"

LevelInv ==
    /\ Level(move)
    /\ \A x \in Slot : tx[x] # None =>
        /\ Mirror(tx[x], move)
        /\ Looked(tx[x], move)
        /\ \A y \in Slot \ {x} : tx[y] # None => Apart(tx[x], tx[y])

\* A step that leaves the movements alone and the requests that do not end as
\* they are, but for who waits for them.
LEMMA QuietLevel ==
    ASSUME LevelInv, move' = move,
           \A y \in Slot : tx'[y] # None =>
              tx[y] # None /\ Alike(tx'[y], tx[y]) /\ tx'[y].lock = tx[y].lock
    PROVE  LevelInv'
<1>1. \A y \in Slot : tx'[y] # None => Mirror(tx'[y], move) /\ Looked(tx'[y], move)
  BY DEF LevelInv, Mirror, Looked, NeedsLook, Alike
<1>2. \A x, y \in Slot : x # y /\ tx'[x] # None /\ tx'[y] # None => Apart(tx'[x], tx'[y])
  BY DEF LevelInv, Apart
<1>3. Level(move)
  BY DEF LevelInv
<1> QED
  BY <1>1, <1>2, <1>3 DEF LevelInv

\* One request gets on.
LEMMA OneTxLevel ==
    ASSUME Kept, LevelInv, move' = move, NEW x \in Slot, NEW r, tx' = [tx EXCEPT ![x] = r],
           Mirror(r, move), Looked(r, move),
           \A y \in Slot \ {x} : tx[y] # None => Apart(r, tx[y]) /\ Apart(tx[y], r)
    PROVE  LevelInv'
<1>1. tx'[x] = r /\ \A y \in Slot \ {x} : tx'[y] = tx[y]
  BY DEF Kept
<1>2. \A y \in Slot : tx'[y] # None => Mirror(tx'[y], move) /\ Looked(tx'[y], move)
  BY <1>1 DEF LevelInv
<1>3. \A y, z \in Slot : y # z /\ tx'[y] # None /\ tx'[z] # None => Apart(tx'[y], tx'[z])
  BY <1>1 DEF LevelInv
<1>4. Level(move)
  BY DEF LevelInv
<1> QED
  BY <1>2, <1>3, <1>4 DEF LevelInv

\* A request that goes on with the lock it has.
LEMMA GoesOnLevel ==
    ASSUME Kept, LevelInv, move' = move, NEW x \in Slot, tx[x] # None,
           NEW at \in {"lock", "guard", "claim", "share", "commit"}, Goes(x, at),
           \A r \in Transaction :
              /\ r.op = tx[x].op /\ r.id = tx[x].id /\ r.row = tx[x].row /\ r.at = at
              /\ r.lock = tx[x].lock
              => Mirror(r, move) /\ Looked(r, move)
    PROVE  LevelInv'
<1>1. tx[x] \in Transaction
  BY DEF Kept
<1>2. PICK r \in {[tx[x] EXCEPT !.at = at]} : TRUE
  OBVIOUS
<1>3. r \in Transaction /\ r.op = tx[x].op /\ r.id = tx[x].id /\ r.row = tx[x].row /\ r.at = at
      /\ r.lock = tx[x].lock
  BY <1>1, <1>2 DEF Transaction
<1>4. tx' = [tx EXCEPT ![x] = r]
  BY <1>2 DEF Goes
<1>5. \A y \in Slot \ {x} : tx[y] # None => Apart(r, tx[y]) /\ Apart(tx[y], r)
  BY <1>3 DEF LevelInv, Apart
<1> QED
  BY <1>3, <1>4, <1>5, OneTxLevel

\* What is to be taken back is found and its opposite prepared.
LEMMA LookLevel ==
    ASSUME StockInv, LevelInv, NEW x \in Slot, Look(x)
    PROVE  LevelInv'
<1>0. /\ tx[x] # None /\ tx[x].at = "look" /\ move' = move
      /\ Kept /\ tx[x] \in Transaction /\ Sound(tx[x], move, sale) /\ SalesAgree
  BY DEF Look, StockInv, Kept, Going
<1>1. CASE \E a \in {"ok", "refused"} : Answer(x, a)
  BY <1>0, <1>1, QuietLevel DEF Answer, Kept, Alike
<1>2. CASE /\ tx[x].op \in {"move", "sale"}
           /\ Goes(x, IF tx[x].row.qty < 0 /\ ~tx[x].row.sure THEN "lock" ELSE "claim")
  <2>1. PICK at \in {"lock", "claim"} :
          at = IF tx[x].row.qty < 0 /\ ~tx[x].row.sure THEN "lock" ELSE "claim"
    OBVIOUS
  <2>2. Goes(x, at)
    BY <1>2, <2>1
  <2>3. \A r \in Transaction :
           /\ r.op = tx[x].op /\ r.id = tx[x].id /\ r.row = tx[x].row /\ r.at = at
           /\ r.lock = tx[x].lock
           => Mirror(r, move) /\ Looked(r, move)
    BY <1>2, <2>1 DEF Mirror, Looked, NeedsLook
  <2> QED
    BY <1>0, <2>2, <2>3, GoesOnLevel
<1>3. ASSUME NEW i, i = (IF tx[x].op = "void" THEN Venta(tx[x].id) ELSE tx[x].id),
             tx[x].op \in {"reverse", "void"}, move[i].back = None, ~Reversed(move, i),
             tx' = [tx EXCEPT ![x].at = "claim", ![x].row = Opposite(i)]
      PROVE  LevelInv'
  <2>2. i \in Rows(move)
    BY <1>0, <1>3, SaleHasOne DEF Sound
  <2>3. Opposite(i) \in Movement /\ Opposite(i).back = i
    BY <1>0, <1>3, <2>2, OppositeIsOne DEF Kept
  <2>4. Opposite(i).qty = -move[i].qty /\ Opposite(i).shelf = move[i].shelf
    <3>1. move[i] \in Movement
      BY <1>0, <2>2 DEF Kept, Rows
    <3> QED
      BY <3>1 DEF Opposite, Movement
  <2>5. PICK r \in {[tx[x] EXCEPT !.at = "claim", !.row = Opposite(i)]} : TRUE
    OBVIOUS
  <2>6. r \in Transaction /\ r.op = tx[x].op /\ r.row = Opposite(i) /\ r.at = "claim"
        /\ r.lock = tx[x].lock
    BY <1>0, <2>3, <2>5 DEF Transaction
  <2>7. tx' = [tx EXCEPT ![x] = r]
    BY <1>0, <1>3, <2>5 DEF Kept
  <2>8. Mirror(r, move) /\ Looked(r, move)
    BY <1>3, <2>3, <2>4, <2>6 DEF Mirror, Looked, NeedsLook
  <2>9. \A y \in Slot \ {x} : tx[y] # None => Apart(r, tx[y]) /\ Apart(tx[y], r)
    BY <1>0, <2>6 DEF LevelInv, Apart
  <2> QED
    BY <1>0, <2>7, <2>8, <2>9, OneTxLevel
<1> QED
  BY <1>1, <1>2, <1>3 DEF Look

\* The row a request writes, as an addition.
LEMMA CommitAdds ==
    ASSUME StockInv, NEW x \in Slot, Commit(x)
    PROVE  /\ tx[x] # None /\ tx[x].at = "commit" /\ tx' = [tx EXCEPT ![x] = None]
           /\ \E n : Adds(move, move', n, tx[x].row)
<1>1. /\ tx[x] # None /\ tx[x].at = "commit" /\ tx' = [tx EXCEPT ![x] = None]
  BY DEF Commit, Answer
<1>2. tx[x] \in Transaction /\ Sound(tx[x], move, sale) /\ Free(tx[x], move, sale)
  BY <1>1 DEF StockInv, Kept, Going, Keyed, Held
<1>3. PICK n \in IF tx[x].op = "move" THEN {tx[x].id} ELSE NewMove :
        move' = [move EXCEPT ![n] = tx[x].row]
  BY DEF Commit
<1>4. n \in Id /\ move[n] = None
  <2>1. CASE tx[x].op = "move"
    BY <1>2, <1>3, <2>1 DEF Free, Transaction
  <2>2. CASE tx[x].op # "move"
    BY <1>3, <2>2 DEF NewMove, Unused, Rows
  <2> QED
    BY <2>1, <2>2
<1>5. tx[x].row \in Movement
  BY <1>1, <1>2 DEF Sound, Transaction
<1> QED
  BY <1>1, <1>3, <1>4, <1>5 DEF Adds

LEMMA CommitLevel ==
    ASSUME StockInv, LevelInv, NEW x \in Slot, Commit(x)
    PROVE  LevelInv'
<1>1. tx[x] # None /\ tx[x].at = "commit" /\ tx' = [tx EXCEPT ![x] = None]
  BY CommitAdds
<1>2. PICK n : Adds(move, move', n, tx[x].row)
  BY CommitAdds
<1>3. /\ Moves(move) /\ Backed(move) /\ Level(move)
      /\ tx[x] \in Transaction /\ Sound(tx[x], move, sale) /\ Free(tx[x], move, sale)
      /\ Mirror(tx[x], move) /\ tx[x].lock # "none"
  BY <1>1 DEF StockInv, Kept, Going, Keyed, Held, BackIsThere, Moves, Backed, LevelInv, Looked
<1>4. Level(move')
  <2>1. CASE tx[x].op \in {"move", "sale"}
    BY <1>2, <1>3, <2>1, PlainMove DEF Sound
  <2>2. CASE tx[x].op \in {"reverse", "void"}
    <3>1. /\ tx[x].row.back \in Rows(move)
          /\ move[tx[x].row.back].back = None /\ ~Reversed(move, tx[x].row.back)
          /\ tx[x].row.qty = -move[tx[x].row.back].qty
          /\ tx[x].row.shelf = move[tx[x].row.back].shelf
      BY <1>1, <1>3, <2>2 DEF Sound, Free, Mirror
    <3> QED
      BY <1>2, <1>3, <3>1, OppositeMove
  <2> QED
    BY <1>3, <2>1, <2>2 DEF Transaction
<1>5. /\ tx'[x] = None /\ \A y \in Slot \ {x} : tx'[y] = tx[y]
  BY <1>1 DEF StockInv, Kept
<1>6. \A i \in Rows(move) : move'[i] = move[i]
  BY <1>2, <1>3, AddsOne
<1>7. ASSUME NEW y \in Slot, tx'[y] # None
      PROVE  Mirror(tx'[y], move') /\ Looked(tx'[y], move')
  <2>1. y # x /\ tx'[y] = tx[y] /\ tx[y] # None
    BY <1>5, <1>7
  <2>2. Mirror(tx[y], move')
    <3>1. tx[y].op \in {"reverse", "void"} /\ tx[y].at # "look" => tx[y].row.back \in Rows(move)
      BY <2>1 DEF StockInv, Going, Sound
    <3> QED
      BY <1>6, <2>1, <3>1 DEF LevelInv, Mirror
  <2>3. Looked(tx[y], move')
    BY <1>1, <1>3, <2>1 DEF LevelInv, Looked, Apart
  <2> QED
    BY <2>1, <2>2, <2>3
<1>8. \A y, z \in Slot : y # z /\ tx'[y] # None /\ tx'[z] # None => Apart(tx'[y], tx'[z])
  BY <1>5 DEF LevelInv
<1> QED
  BY <1>4, <1>7, <1>8 DEF LevelInv

\* The statements of a request.
LEMMA RunLevel ==
    ASSUME StockInv, LevelInv, NEW x \in Slot, Runs(x) \/ ConnectionLost(x) \/ Unanswered(x)
    PROVE  LevelInv'
<1>0. Kept
  BY DEF StockInv
<1>1. CASE Look(x)
  BY <1>1, LookLevel
<1>2. ASSUME NEW a, Answer(x, a), move' = move
      PROVE  LevelInv'
  BY <1>0, <1>2, QuietLevel DEF Answer, Kept, Alike
<1>3. CASE LockProductForStock(x)
  <2>1. tx[x] # None /\ tx[x].at = "lock" /\ Blockers(x) = {} /\ tx[x] \in Transaction /\ move' = move
    BY <1>0, <1>3 DEF LockProductForStock, Kept
  <2>2. PICK r \in {[tx[x] EXCEPT !.at = "guard", !.lock = "update"]} : TRUE
    OBVIOUS
  <2>3. r.op = tx[x].op /\ r.row = tx[x].row /\ r.at = "guard" /\ r.lock = "update"
    BY <2>1, <2>2 DEF Transaction
  <2>4. tx' = [tx EXCEPT ![x] = r]
    BY <1>0, <1>3, <2>2 DEF LockProductForStock, Kept
  <2>5. Mirror(r, move) /\ Looked(r, move)
    BY <2>1, <2>3 DEF LevelInv, Mirror, Looked
  <2>6. \A y \in Slot \ {x} : tx[y] # None => tx[y].lock = "none"
    BY <2>1 DEF Blockers, Open
  <2>7. \A y \in Slot \ {x} : tx[y] # None => Apart(r, tx[y]) /\ Apart(tx[y], r)
    BY <2>6 DEF Apart
  <2> QED
    BY <1>0, <2>1, <2>4, <2>5, <2>7, OneTxLevel
<1>4. CASE GuardStock(x)
  <2>0. tx[x] # None /\ tx[x].at = "guard" /\ move' = move /\ Looked(tx[x], move) /\ Mirror(tx[x], move)
    BY <1>4 DEF GuardStock, LevelInv
  <2>1. CASE Answer(x, "refused")
    BY <1>2, <2>0, <2>1
  <2>2. CASE ~(StockOnHand(move, tx[x].row.shelf) + tx[x].row.qty < 0) /\ Goes(x, "claim")
    <3>1. tx[x] \in Transaction /\ Sound(tx[x], move, sale)
      BY <2>0 DEF StockInv, Kept, Going
    <3>2. tx[x].row # None
      BY <2>0, <3>1 DEF Sound, Transaction
    <3>3. tx[x].row.qty \in Int
      BY <3>1, <3>2 DEF Transaction, Movement
    <3>4. Sum(move, On(move, tx[x].row.shelf)) + tx[x].row.qty >= 0
      BY <1>0, <2>2, <3>3, OnHandIs DEF Kept, Moves
    <3>5. \A r \in Transaction :
             /\ r.op = tx[x].op /\ r.id = tx[x].id /\ r.row = tx[x].row /\ r.at = "claim"
             /\ r.lock = tx[x].lock
             => Mirror(r, move) /\ Looked(r, move)
      BY <2>0, <3>4 DEF Mirror, Looked
    <3> QED
      BY <1>0, <2>0, <2>2, <3>5, GoesOnLevel
  <2> QED
    BY <1>4, <2>1, <2>2 DEF GuardStock
<1>5. CASE Claim(x)
  <2>0. tx[x] # None /\ tx[x].at = "claim" /\ move' = move /\ Looked(tx[x], move) /\ Mirror(tx[x], move)
    BY <1>5 DEF Claim, LevelInv
  <2>1. CASE Answer(x, "refused")
    BY <1>2, <2>0, <2>1
  <2>2. CASE Goes(x, "share")
    <3>1. \A r \in Transaction :
             /\ r.op = tx[x].op /\ r.id = tx[x].id /\ r.row = tx[x].row /\ r.at = "share"
             /\ r.lock = tx[x].lock
             => Mirror(r, move) /\ Looked(r, move)
      BY <2>0 DEF Mirror, Looked, NeedsLook
    <3> QED
      BY <1>0, <2>0, <2>2, <3>1, GoesOnLevel
  <2> QED
    BY <1>5, <2>1, <2>2 DEF Claim
<1>6. CASE Share(x)
  <2>1. /\ tx[x] # None /\ tx[x].at = "share" /\ Blockers(x) = {} /\ tx[x] \in Transaction
        /\ move' = move /\ Looked(tx[x], move) /\ Mirror(tx[x], move)
    BY <1>0, <1>6 DEF Share, Kept, LevelInv
  <2>2. PICK lock \in {"share", "update"} :
          lock = IF tx[x].lock = "update" THEN "update" ELSE "share"
    OBVIOUS
  <2>3. PICK r \in {[tx[x] EXCEPT !.at = "commit", !.lock = lock]} : TRUE
    OBVIOUS
  <2>4. r.op = tx[x].op /\ r.row = tx[x].row /\ r.at = "commit" /\ r.lock = lock
    BY <2>1, <2>3 DEF Transaction
  <2>5. tx' = [tx EXCEPT ![x] = r]
    BY <1>0, <1>6, <2>2, <2>3 DEF Share, Kept, Transaction
  <2>6. Mirror(r, move) /\ Looked(r, move)
    BY <2>1, <2>2, <2>4 DEF Mirror, Looked, NeedsLook
  <2>7. \A y \in Slot \ {x} : tx[y] # None => tx[y].lock # "update"
    BY <2>1 DEF Blockers, Open
  <2>8. \A y \in Slot \ {x} : tx[y] # None => Apart(r, tx[y]) /\ Apart(tx[y], r)
    BY <2>1, <2>2, <2>4, <2>7 DEF LevelInv, Apart
  <2> QED
    BY <1>0, <2>1, <2>5, <2>6, <2>8, OneTxLevel
<1>7. CASE Commit(x)
  BY <1>7, CommitLevel
<1>8. CASE DeadlockVictim(x) \/ ConnectionLost(x)
  BY <1>2, <1>8 DEF DeadlockVictim, ConnectionLost
<1>9. CASE Unanswered(x)
  <2>1. tx[x] \in Transaction /\ move' = move /\ tx' = [tx EXCEPT ![x].for = None]
    BY <1>0, <1>9 DEF Unanswered, Kept
  <2>2. \A y \in Slot : tx'[y] # None =>
              tx[y] # None /\ Alike(tx'[y], tx[y]) /\ tx'[y].lock = tx[y].lock
    BY <1>0, <1>9, <2>1 DEF Kept, Alike, Transaction, Unanswered
  <2> QED
    BY <2>1, <2>2, QuietLevel
<1> QED
  BY <1>1, <1>3, <1>4, <1>5, <1>6, <1>7, <1>8, <1>9 DEF Runs

\* The people at the screens change no level and take no lock.
LEMMA ScreenLevel ==
    ASSUME StockInv, LevelInv, NEW s \in Screen,
           \/ ReadLevels(s) \/ ReadRows(s) \/ OpenDialog(s) \/ Leave(s) \/ TickAnyway(s)
           \/ Save(s) \/ TakeBack(s)
    PROVE  LevelInv'
<1>0. Kept /\ move' = move
  BY DEF StockInv, ReadLevels, ReadRows, OpenDialog, Leave, TickAnyway, Save, TakeBack
<1>1. CASE ReadLevels(s) \/ ReadRows(s) \/ OpenDialog(s) \/ TickAnyway(s)
  <2>1. tx' = tx
    BY <1>1 DEF ReadLevels, ReadRows, OpenDialog, TickAnyway
  <2> QED
    BY <1>0, <2>1, QuietLevel DEF Alike
<1>2. CASE Leave(s)
  <2>1. \A y \in Slot : tx'[y] = IF tx[y] # None /\ tx[y].for = s
                                 THEN [tx[y] EXCEPT !.for = None] ELSE tx[y]
    BY <1>2 DEF Leave
  <2>2. \A y \in Slot : tx[y] # None => tx[y] \in Transaction
    BY <1>0 DEF Kept
  <2>3. \A y \in Slot : tx'[y] # None =>
              tx[y] # None /\ Alike(tx'[y], tx[y]) /\ tx'[y].lock = tx[y].lock
    BY <2>1, <2>2 DEF Alike, Transaction
  <2> QED
    BY <1>0, <2>3, QuietLevel
<1>3. ASSUME NEW x \in Slot, NEW r, tx[x] = None, tx' = [tx EXCEPT ![x] = r],
             r.at = "look", r.lock = "none"
      PROVE  LevelInv'
  <2>1. Mirror(r, move) /\ Looked(r, move)
    BY <1>3 DEF Mirror, Looked
  <2>2. \A y \in Slot \ {x} : Apart(r, tx[y]) /\ Apart(tx[y], r)
    BY <1>3 DEF Apart
  <2> QED
    BY <1>0, <1>3, <2>1, <2>2, OneTxLevel
<1>4. CASE Save(s)
  <2>1. PICK x \in Slot \ Open, n \in Intent : \E i \in Mint(s, n) :
          tx' = [tx EXCEPT ![x] =
                [op |-> form[s].kind, id |-> i, at |-> "look", lock |-> "none", for |-> s,
                 row |-> [shelf |-> n[1], qty |-> n[2], back |-> None, sure |-> form[s].sure,
                          sale |-> IF form[s].kind = "sale" THEN i ELSE None,
                          typed |-> <<s, form[s].number[2], n>>]]]
    BY <1>4 DEF Save
  <2>2. PICK i \in Mint(s, n) :
          tx' = [tx EXCEPT ![x] =
                [op |-> form[s].kind, id |-> i, at |-> "look", lock |-> "none", for |-> s,
                 row |-> [shelf |-> n[1], qty |-> n[2], back |-> None, sure |-> form[s].sure,
                          sale |-> IF form[s].kind = "sale" THEN i ELSE None,
                          typed |-> <<s, form[s].number[2], n>>]]]
    BY <2>1
  <2> DEFINE r == [op |-> form[s].kind, id |-> i, at |-> "look", lock |-> "none", for |-> s,
                 row |-> [shelf |-> n[1], qty |-> n[2], back |-> None, sure |-> form[s].sure,
                          sale |-> IF form[s].kind = "sale" THEN i ELSE None,
                          typed |-> <<s, form[s].number[2], n>>]]
  <2>3. tx' = [tx EXCEPT ![x] = r] /\ r.at = "look" /\ r.lock = "none"
    BY <2>2
  <2> HIDE DEF r
  <2> QED
    BY <1>3, <2>1, <2>3 DEF Open
<1>5. CASE TakeBack(s)
  BY <1>3, <1>5 DEF TakeBack, Open
<1> QED
  BY <1>1, <1>2, <1>4, <1>5

\* The first movement is all there is.
LEMMA LevelInit == Init => LevelInv
<1> SUFFICES ASSUME Init
             PROVE  LevelInv
  OBVIOUS
<1>1. PICK s \in Shelf :
        move = [i \in Id |-> IF i # 1 THEN None ELSE
            [shelf |-> s, qty |-> Opening, sale |-> None, back |-> None, sure |-> FALSE,
             typed |-> None]]
  BY DEF Init
<1> DEFINE first == [shelf |-> s, qty |-> Opening, sale |-> None, back |-> None, sure |-> FALSE,
                     typed |-> None]
           none == [i \in Id |-> None]
<1>2. first \in Movement /\ first.back = None
  BY QtyAssumption DEF Movement
<1>3. move = [i \in Id |-> IF i # 1 THEN None ELSE first]
  BY <1>1
<1> HIDE DEF first
<1>4. 1 \in Id
  BY BoundAssumption DEF Id
<1>5. Moves(none) /\ Rows(none) = {}
  BY DEF Moves, Rows
<1>6. Level(none) /\ Backed(none)
  <2>1. \A h : On(none, h) = {} /\ Stands(none, h) = {}
    BY <1>5 DEF On, Stands
  <2> QED
    BY <1>5, <2>1 DEF Level, Backed
<1>7. Adds(none, move, 1, first)
  BY <1>2, <1>3, <1>4 DEF Adds
<1> HIDE DEF none
<1>8. Level(move)
  BY <1>2, <1>5, <1>6, <1>7, PlainMove
<1> QED
  BY <1>8 DEF Init, LevelInv

LEMMA LevelStep == StockInv /\ Forms /\ LevelInv /\ [Next]_vars => LevelInv'
<1> SUFFICES ASSUME StockInv, LevelInv, [Next]_vars
             PROVE  LevelInv'
  OBVIOUS
<1>1. ASSUME NEW x \in Slot, Runs(x) \/ ConnectionLost(x) \/ Unanswered(x)
      PROVE  LevelInv'
  BY <1>1, RunLevel
<1>2. ASSUME NEW s \in Screen,
             \/ ReadLevels(s) \/ ReadRows(s) \/ OpenDialog(s) \/ Leave(s) \/ TickAnyway(s)
             \/ Save(s) \/ TakeBack(s)
      PROVE  LevelInv'
  BY <1>2, ScreenLevel
<1>3. CASE UNCHANGED vars
  <2>1. move' = move /\ tx' = tx
    BY <1>3 DEF vars
  <2> QED
    BY <2>1, QuietLevel DEF Alike
<1> QED
  BY <1>1, <1>2, <1>3 DEF Next

\* What stands, as a table of its own, adds up to what stands.
LEMMA LevelSuffices ==
    ASSUME Kept, LevelInv
    PROVE  LevelIsWhatStands
<1> SUFFICES ASSUME NEW s \in Shelf
             PROVE  StockOnHand(move, s) = StockOnHand(
                        [i \in Id |-> IF move[i] # None /\ move[i].back = None /\ ~Reversed(move, i)
                                      THEN move[i] ELSE None], s)
  BY DEF LevelIsWhatStands
<1> DEFINE q == [i \in Id |-> IF move[i] # None /\ move[i].back = None /\ ~Reversed(move, i)
                              THEN move[i] ELSE None]
<1>1. Moves(move) /\ Moves(q)
  BY DEF Kept, Moves
<1>2. On(q, s) = Stands(move, s) /\ \A i \in On(q, s) : q[i] = move[i]
  BY DEF On, Stands, Rows
<1> HIDE DEF q
<1>3. /\ IsFiniteSet(On(q, s))
      /\ \A i \in On(q, s) : Figures(q)[i] \in Int /\ Figures(q)[i] = q[i].qty
      /\ \A i \in Stands(move, s) : Figures(move)[i] = move[i].qty
  BY <1>1, MoveFigures
<1>4. \A i \in On(q, s) : Figures(q)[i] \in Int /\ Figures(q)[i] = Figures(move)[i]
  BY <1>2, <1>3
<1>5. Total(Figures(q), On(q, s)) = Total(Figures(move), On(q, s))
  BY <1>3, <1>4, TotalSame
<1>6. Sum(q, On(q, s)) = Sum(move, Stands(move, s))
  BY <1>2, <1>5 DEF Sum
<1>7. StockOnHand(q, s) = Sum(q, On(q, s)) /\ StockOnHand(move, s) = Sum(move, On(move, s))
  BY <1>1, OnHandIs
<1> QED
  BY <1>6, <1>7 DEF LevelInv, Level, q

(***************************************************************************)
(* What is left in a warehouse is what came in and went out less what was  *)
(* taken back, whatever is recorded, sent again, corrected and voided at   *)
(* the same time (ReverseStockMove, VoidSale, ux_moves_reverses).          *)
(***************************************************************************)
THEOREM LevelsAddUp == Spec => []LevelIsWhatStands
<1> DEFINE I == StockInv /\ Forms /\ LevelInv
<1>1. Init => I
  BY StockInit, LevelInit
<1>2. I /\ [Next]_vars => I'
  BY StockStep, LevelStep
<1>3. I => LevelIsWhatStands
  BY LevelSuffices DEF StockInv
<1> QED
  BY <1>1, <1>2, <1>3, PTL DEF Spec

\* What a step may write of what was not waived.
GuardKept ==
    \A i \in Id :
        /\ move[i] = None /\ move'[i] # None
        /\ move'[i].qty < 0 /\ move'[i].back = None /\ ~move'[i].sure
        => StockOnHand(move', move'[i].shelf) >= 0

LEMMA GuardStep == StockInv /\ LevelInv /\ [Next]_vars => GuardKept
<1> SUFFICES ASSUME StockInv, LevelInv, [Next]_vars
             PROVE  GuardKept
  OBVIOUS
<1>1. CASE move' = move
  BY <1>1 DEF GuardKept
<1>2. ASSUME NEW x \in Slot, Commit(x)
      PROVE  GuardKept
  <2>1. tx[x] # None /\ tx[x].at = "commit"
    BY <1>2, CommitAdds
  <2>2. PICK n : Adds(move, move', n, tx[x].row)
    BY <1>2, CommitAdds
  <2>3. /\ Moves(move) /\ tx[x] \in Transaction /\ Sound(tx[x], move, sale)
        /\ Looked(tx[x], move)
    BY <2>1 DEF StockInv, Kept, Going, Moves, LevelInv
  <2>4. /\ Moves(move') /\ move'[n] = tx[x].row /\ n \notin Rows(move)
        /\ Rows(move') = Rows(move) \cup {n} /\ \A i \in Rows(move) : move'[i] = move[i]
    BY <2>2, <2>3, AddsOne
  <2> SUFFICES ASSUME NEW i \in Id, move[i] = None, move'[i] # None,
                      move'[i].qty < 0, move'[i].back = None, ~move'[i].sure
               PROVE  StockOnHand(move', move'[i].shelf) >= 0
    BY DEF GuardKept
  <2>5. i = n
    BY <2>4 DEF Rows
  <2> DEFINE h == tx[x].row.shelf
  <2>6. tx[x].op \in {"move", "sale"}
    <3>1. tx[x].op \in {"reverse", "void"} => tx[x].row.back \in Id
      BY <2>1, <2>3 DEF Sound, Rows
    <3>2. None \notin Id
      BY NoneAssumption DEF Id
    <3> QED
      BY <2>3, <2>4, <2>5, <3>1, <3>2 DEF Transaction
  <2>7. Sum(move, On(move, h)) + tx[x].row.qty >= 0
    BY <2>1, <2>3, <2>4, <2>5, <2>6 DEF Looked, NeedsLook
  <2>8. On(move', h) = On(move, h) \cup {n}
    BY <2>2, <2>3, OnWithMove
  <2>9. \A S \in SUBSET Rows(move) :
              /\ Sum(move', S) = Sum(move, S)
              /\ Sum(move', S \cup {n}) = Sum(move, S) + tx[x].row.qty
              /\ \A j \in S : Sum(move', S \ {j}) = Sum(move, S) - move[j].qty
              /\ Sum(move, S) \in Int
    BY <2>2, <2>3, SumWithMove
  <2>10. On(move, h) \in SUBSET Rows(move)
    BY <2>3, MoveFigures
  <2>11. StockOnHand(move', h) = Sum(move', On(move', h))
    BY <2>4, OnHandIs
  <2>12. StockOnHand(move', h) = Sum(move, On(move, h)) + tx[x].row.qty
    BY <2>8, <2>9, <2>10, <2>11
  <2> QED
    BY <2>4, <2>5, <2>7, <2>12
<1> QED
  BY <1>1, <1>2 DEF Next, vars, Runs, Look, LockProductForStock, GuardStock, Claim, Share,
       DeadlockVictim, ConnectionLost, Unanswered, ReadLevels, ReadRows, OpenDialog, Leave,
       TickAnyway, Save, TakeBack

(***************************************************************************)
(* What goes out and was not waived leaves no less than nothing, whatever  *)
(* else is recorded, corrected and voided between the look and the commit  *)
(* (LockProductForStock).                                                  *)
(***************************************************************************)
THEOREM TheLookHolds == Spec => GuardHolds
<1> DEFINE I == StockInv /\ Forms /\ LevelInv
<1>1. Init => I
  BY StockInit, LevelInit
<1>2. I /\ [Next]_vars => I'
  BY StockStep, LevelStep
<1>3. I /\ [Next]_vars => [GuardKept]_vars
  BY GuardStep
<1> QED
  BY <1>1, <1>2, <1>3, PTL DEF Spec, GuardHolds, GuardKept

\* The levels a page shows are integers.
LEMMA ShownStep ==
    ASSUME Kept, level \in [Screen -> [Shelf -> Int] \cup {None}], [Next]_vars
    PROVE  level' \in [Screen -> [Shelf -> Int] \cup {None}]
<1>1. CASE level' = level
  BY <1>1
<1>2. ASSUME NEW s \in Screen, ReadLevels(s)
      PROVE  level' \in [Screen -> [Shelf -> Int] \cup {None}]
  <2>1. \A h \in Shelf : StockOnHand(move, h) \in Int
    BY OnHandIs DEF Kept, Moves
  <2>2. [h \in Shelf |-> StockOnHand(move, h)] \in [Shelf -> Int]
    BY <2>1
  <2> QED
    BY <1>2, <2>2 DEF ReadLevels
<1> QED
  BY <1>1, <1>2 DEF Next, vars, Runs, Look, LockProductForStock, GuardStock, Claim, Share,
       Commit, DeadlockVictim, ConnectionLost, Unanswered, ReadRows, OpenDialog, Leave,
       TickAnyway, Save, TakeBack

(***************************************************************************)
(* Every variable holds values of the kinds the code stores in it.         *)
(***************************************************************************)
THEOREM TypeCorrect == Spec => []TypeOK
<1> DEFINE L == level \in [Screen -> [Shelf -> Int] \cup {None}]
           I == StockInv /\ Forms /\ L
<1>1. Init => I
  <2>1. Init => L
    BY DEF Init
  <2> QED
    BY <2>1, StockInit
<1>2. I /\ [Next]_vars => I'
  <2>1. StockInv => Kept
    BY DEF StockInv
  <2>2. Kept /\ L /\ [Next]_vars => L'
    BY ShownStep
  <2> QED
    BY <2>1, <2>2, StockStep
<1>3. I => TypeOK
  BY DEF StockInv, Kept, Forms, TypeOK
<1> QED
  BY <1>1, <1>2, <1>3, PTL DEF Spec
=============================================================================
