--------------------------- MODULE PayrollProofs ---------------------------
(***************************************************************************)
(* Proofs about Payroll for every set of workers, records, settlements and *)
(* ids: the tables keep their types, no weighing is paid for twice, paid   *)
(* work stands, nothing is rewritten or cancelled twice and no void stops  *)
(* halfway; then what the money adds up to: the guarded payments that      *)
(* stand stay within what was credited, and a devengo is worth its lines.  *)
(***************************************************************************)
EXTENDS Payroll, Sums, TLAPS

USE DEF LiveLine, Row

-----------------------------------------------------------------------------
(* What the writes do to the tables. *)

\* An insert of ledger rows under fresh ids keeps the ledger's type and keeps
\* every row that was there.
LEMMA InsertKeeps ==
    ASSUME TypeOK, NEW rows, DOMAIN rows \subseteq Unused,
           \A x \in DOMAIN rows : rows[x] \in LedgerRow,
           Insert(rows)
    PROVE  /\ ledger' \in [Entry -> LedgerRow \cup {None}]
           /\ \A e \in Entry : Row(e) => Row(e)' /\ ledger'[e] = ledger[e]
           /\ \A e \in Entry : Row(e)' /\ ~Row(e) =>
                 e \in DOMAIN rows /\ ledger'[e] = rows[e]
           /\ \A x \in DOMAIN rows : ledger'[x] = rows[x] /\ Row(x)' /\ x \in Entry
  BY NoneAssumption DEF TypeOK, Insert, Unused

\* The row that cancels an entry is a ledger row, of kind reverso.
LEMMA ReversalOfType ==
    ASSUME TypeOK, NEW e \in Entry, Row(e)
    PROVE  /\ ReversalOf(e) \in LedgerRow
           /\ ReversalOf(e).kind = "reverso"
           /\ ReversalOf(e).reverses = e
           /\ ReversalOf(e).settlement = ledger[e].settlement
  <1>1. ledger[e] \in LedgerRow
    BY DEF TypeOK
  <1> QED
    BY <1>1 DEF ReversalOf, LedgerRow, Kind, Withdrawal

\* An entry once reversed stays reversed while rows are only added.
LEMMA ReversedStays ==
    ASSUME NEW e \in Entry, Reversed(e),
           \A x \in Entry : Row(x) => Row(x)' /\ ledger'[x] = ledger[x]
    PROVE  Reversed(e)'
  BY DEF Reversed


\* Cancelling the unreversed devengos of a settlement adds reversals of that
\* settlement, keeps every other row, and leaves no devengo of it standing.
LEMMA ReverseEarningsEffect ==
    ASSUME TypeOK, NEW s \in Settlement, ReverseEarnings(s)
    PROVE  /\ ledger' \in [Entry -> LedgerRow \cup {None}]
           /\ \A e \in Entry : Row(e) => Row(e)' /\ ledger'[e] = ledger[e]
           /\ \A e \in Entry : Row(e)' /\ ~Row(e) =>
                 ledger'[e].kind = "reverso" /\ ledger'[e].settlement = s
           /\ \A e \in LiveDevengos(s) : Reversed(e)'
  <1>0. PICK ids \in SUBSET Unused : \E of \in [ids -> LiveDevengos(s)] :
           /\ \A e \in LiveDevengos(s) : \E x \in ids : of[x] = e
           /\ \A x, y \in ids : of[x] = of[y] => x = y
           /\ Insert([x \in ids |-> ReversalOf(of[x])])
    BY DEF ReverseEarnings
  <1>1. PICK of \in [ids -> LiveDevengos(s)] :
           /\ \A e \in LiveDevengos(s) : \E x \in ids : of[x] = e
           /\ Insert([x \in ids |-> ReversalOf(of[x])])
    BY <1>0
  <1> DEFINE rows == [x \in ids |-> ReversalOf(of[x])]
  <1>2. \A e \in LiveDevengos(s) : e \in Entry /\ Row(e) /\ ledger[e].settlement = s
    BY DEF LiveDevengos
  <1>3. \A x \in ids : /\ rows[x] \in LedgerRow
                       /\ rows[x].kind = "reverso"
                       /\ rows[x].settlement = s
                       /\ rows[x].reverses = of[x]
    BY <1>2, ReversalOfType
  <1>4. /\ ledger' \in [Entry -> LedgerRow \cup {None}]
        /\ \A e \in Entry : Row(e) => Row(e)' /\ ledger'[e] = ledger[e]
        /\ \A e \in Entry : Row(e)' /\ ~Row(e) => e \in ids /\ ledger'[e] = rows[e]
        /\ \A x \in ids : ledger'[x] = rows[x] /\ Row(x)' /\ x \in Entry
    <2> HIDE DEF rows
    <2>1. DOMAIN rows = ids
      BY DEF rows
    <2>2. Insert(rows)
      BY <1>1 DEF rows
    <2> QED
      BY <1>3, <2>1, <2>2, InsertKeeps
  <1>5. \A e \in LiveDevengos(s) : Reversed(e)'
    BY <1>1, <1>3, <1>4 DEF Reversed
  <1> QED
    BY <1>3, <1>4, <1>5

-----------------------------------------------------------------------------
(* Types *)

\* The amount of a line is an integer.
LEMMA AmountIsInt == \A q \in Quantity, p \in Price : q * p \in Int
  <1>1. \A q \in Quantity : q \in Int
    BY QuantityAssumption
  <1>2. \A p \in Price : p \in Int
    BY PriceAssumption
  <1>3. \A a, b \in Int : a * b \in Int
    OBVIOUS
  <1> QED
    BY <1>1, <1>2, <1>3

\* A void or a release rewrites the lines of one settlement within their type.
LEMMA VoidLinesType ==
    ASSUME TypeOK, NEW s \in Settlement, VoidLines(s)
    PROVE  line' \in [Settlement \X Record -> LineRow \cup {None}]
  <1>1. SUFFICES ASSUME NEW p \in Settlement \X Record
                 PROVE  line'[p] \in LineRow \cup {None}
    BY DEF VoidLines
  <1>2. line[p] \in LineRow \cup {None}
    BY DEF TypeOK
  <1> QED
    BY <1>2 DEF VoidLines, LineRow

\* What a settlement takes in is priced in integers, and so is its total, which
\* is the figure the person settling was shown.
LEMMA TakenIsPriced ==
    ASSUME TypeOK, NEW w \in Worker, NEW s \in Settlement, NEW e \in Entry,
           Settle(w, s, e)
    PROVE  /\ Gross(Pending(w, shown[w].scope)) \in Int
           /\ \A r \in Pending(w, shown[w].scope) :
                 r \in Record /\ record[r].quantity \in Quantity /\ AmountOf(r) \in Int
  <1> DEFINE chosen == Pending(w, shown[w].scope)
  <1>1. Gross(chosen) \in Int
    BY CentsAssumption DEF Settle, TypeOK, Preview
  <1>2. ASSUME NEW r \in chosen
        PROVE  r \in Record /\ record[r].quantity \in Quantity /\ AmountOf(r) \in Int
    <2>1. r \in Record /\ record[r] # None
      BY <1>2 DEF Settle, Pending, TypeOK, Preview
    <2>2. record[r] \in RecordRow
      BY <2>1 DEF TypeOK
    <2>3. record[r].quantity \in Quantity /\ record[r].price \in Price \cup {None}
      BY <2>2 DEF RecordRow
    <2>4. weekPrice \in Price
      BY DEF TypeOK
    <2>5. PICK price \in Price : AmountOf(r) = record[r].quantity * price
      BY <2>3, <2>4 DEF AmountOf
    <2>6. record[r].quantity * price \in Int
      BY <2>3, AmountIsInt
    <2> QED
      BY <2>1, <2>3, <2>5, <2>6
  <1> QED
    BY <1>1, <1>2

\* Every request keeps the tables in their types.
LEMMA TypeStep == TypeOK /\ [Next]_vars => TypeOK'
  <1> SUFFICES ASSUME TypeOK, [Next]_vars PROVE TypeOK'
    OBVIOUS
  <1> USE DEF books
  <1>1. ASSUME NEW r \in Record, NEW w \in Worker, NEW q \in Quantity,
               NEW p \in Price \cup {None}, CreateWorkRecord(r, w, q, p)
        PROVE  TypeOK'
    BY <1>1 DEF TypeOK, CreateWorkRecord, RecordRow
  <1>2. ASSUME NEW r \in Record, NEW q \in Quantity,
               NEW status \in {"active", "inactive"},
               UpdateWorkRecord(r, q, status)
        PROVE  TypeOK'
    <2>1. record[r] \in RecordRow
      BY <1>2 DEF TypeOK, UpdateWorkRecord
    <2>2. (status = "inactive") \in BOOLEAN
      OBVIOUS
    <2>3. [record[r] EXCEPT !.quantity = q, !.deleted = (status = "inactive")]
             \in RecordRow
      BY <2>1, <2>2 DEF RecordRow
    <2> QED
      BY <1>2, <2>3 DEF TypeOK, UpdateWorkRecord
  <1>3. ASSUME NEW r \in Record, SoftDeleteWorkRecord(r) PROVE TypeOK'
    <2>1. record[r] \in RecordRow
      BY <1>3 DEF TypeOK, SoftDeleteWorkRecord
    <2>2. [record[r] EXCEPT !.deleted = TRUE] \in RecordRow
      BY <2>1 DEF RecordRow
    <2> QED
      BY <1>3, <2>2 DEF TypeOK, SoftDeleteWorkRecord
  <1>4. ASSUME NEW p \in Price, SetWeekPrice(p) PROVE TypeOK'
    BY <1>4 DEF TypeOK, SetWeekPrice
  <1>5. ASSUME NEW w \in Worker, NEW scope \in SUBSET Record,
               SettlementPreview(w, scope)
        PROVE  TypeOK'
    BY <1>5 DEF TypeOK, SettlementPreview, Preview
  <1>6. ASSUME NEW w \in Worker, NEW s \in Settlement, NEW e \in Entry, Settle(w, s, e)
        PROVE  TypeOK'
    <2> DEFINE chosen == Pending(w, shown[w].scope)
               row == [worker |-> w, kind |-> "devengo", amount |-> Gross(chosen),
                       settlement |-> s, reverses |-> None, guarded |-> FALSE]
    <2>1. Gross(chosen) \in Int
      BY <1>6, TakenIsPriced
    <2>2. row \in LedgerRow
      BY <2>1 DEF LedgerRow, Kind
    <2>3. ledger' \in [Entry -> LedgerRow \cup {None}]
      BY <1>6, <2>2 DEF Settle, Insert, TypeOK
    <2>4. settlement' \in [Settlement -> SettlementRow \cup {None}]
      BY <1>6, <2>1 DEF Settle, SettlementRow, TypeOK
    <2>5. \A r \in chosen : /\ record[r].quantity \in Quantity
                            /\ AmountOf(r) \in Int
      BY <1>6, TakenIsPriced
    <2>6. line' \in [Settlement \X Record -> LineRow \cup {None}]
      BY <1>6, <2>5 DEF Settle, LineRow, TypeOK
    <2> QED
      BY <1>6, <2>3, <2>4, <2>6 DEF Settle, TypeOK
  <1>7. ASSUME NEW s \in Settlement, VoidSettlement(s) PROVE TypeOK'
    <2>1. settlement[s] \in SettlementRow
      BY <1>7 DEF VoidSettlement, TypeOK
    <2>2. settlement' \in [Settlement -> SettlementRow \cup {None}]
      BY <1>7, <2>1 DEF VoidSettlement, TypeOK, SettlementRow
    <2> QED
      BY <1>7, <2>2, VoidLinesType, ReverseEarningsEffect DEF VoidSettlement, TypeOK
  <1>8. ASSUME NEW s \in Settlement, NEW id \in Release, ReleaseSettlement(s, id)
        PROVE  TypeOK'
    BY <1>8, VoidLinesType, ReverseEarningsEffect DEF ReleaseSettlement, TypeOK
  <1>9. ASSUME NEW e \in Entry, NEW w \in Worker, NEW kind \in Withdrawal \cup {"ajuste"},
               NEW amount \in SignedAmount(kind), NEW over \in BOOLEAN,
               AddLedgerEntry(e, w, kind, amount, over)
        PROVE  TypeOK'
    <2> DEFINE row == [worker |-> w, kind |-> kind, amount |-> amount,
                       settlement |-> None, reverses |-> None,
                       guarded |-> kind = "pago" /\ ~over]
    <2>0. PICK a \in Amount : amount = a \/ amount = -a
      BY Zenon DEF SignedAmount
    <2>1. amount \in Int
      BY <2>0, AmountAssumption
    <2>2. (kind = "pago" /\ ~over) \in BOOLEAN
      OBVIOUS
    <2>3. row \in LedgerRow
      BY <2>1, <2>2 DEF LedgerRow, Kind, Withdrawal
    <2>4. ledger' \in [Entry -> LedgerRow \cup {None}]
      BY <1>9, <2>3 DEF AddLedgerEntry, Insert, TypeOK
    <2> QED
      BY <1>9, <2>4 DEF AddLedgerEntry, TypeOK
  <1>10. ASSUME NEW e \in Entry, NEW id \in Entry, ReverseLedgerEntry(e, id)
         PROVE  TypeOK'
    <2>1. ReversalOf(e) \in LedgerRow
      BY <1>10, ReversalOfType DEF ReverseLedgerEntry
    <2>2. ledger' \in [Entry -> LedgerRow \cup {None}]
      BY <1>10, <2>1 DEF ReverseLedgerEntry, Insert, TypeOK
    <2> QED
      BY <1>10, <2>2 DEF ReverseLedgerEntry, TypeOK
  <1>11. CASE UNCHANGED vars
    BY <1>11 DEF TypeOK, vars
  <1> QED
    BY <1>1, <1>2, <1>3, <1>4, <1>5, <1>6, <1>7, <1>8, <1>9, <1>10, <1>11 DEF Next


\* The books an early import left behind have their columns' types.
LEMMA HalfVoidedType ==
    ASSUME HalfVoided
    PROVE  /\ record \in [Record -> RecordRow \cup {None}]
           /\ settlement \in [Settlement -> SettlementRow \cup {None}]
           /\ line \in [Settlement \X Record -> LineRow \cup {None}]
           /\ ledger \in [Entry -> LedgerRow \cup {None}]
  <1>1. PICK w \in Worker, r \in Record, s \in Settlement, e \in Entry,
             q \in Quantity, p \in Price : HalfVoidedBooks(w, r, s, e, q, p)
    BY DEF HalfVoided
  <1>2. q * p \in Int
    BY AmountIsInt
  <1>3. record \in [Record -> RecordRow \cup {None}]
    BY <1>1 DEF HalfVoidedBooks, RecordRow
  <1>4. settlement \in [Settlement -> SettlementRow \cup {None}]
    BY <1>1, <1>2 DEF HalfVoidedBooks, SettlementRow
  <1>5. line \in [Settlement \X Record -> LineRow \cup {None}]
    BY <1>1, <1>2 DEF HalfVoidedBooks, LineRow
  <1>6. ledger \in [Entry -> LedgerRow \cup {None}]
    BY <1>1, <1>2 DEF HalfVoidedBooks, LedgerRow, Kind
  <1> QED
    BY <1>3, <1>4, <1>5, <1>6

\* The books begin within their types.
LEMMA TypeInit == Init => TypeOK
  <1> SUFFICES ASSUME Init PROVE TypeOK
    OBVIOUS
  <1>1. CASE NoBooks
    BY <1>1 DEF Init, NoBooks, TypeOK
  <1>2. CASE HalfVoided
    BY <1>2, HalfVoidedType DEF Init, TypeOK
  <1> QED
    BY <1>1, <1>2 DEF Init

\* Every table of the books holds rows of its columns' types, always.
THEOREM TypeCorrect == Spec => []TypeOK
  <1>1. Init => TypeOK
    BY TypeInit
  <1>2. TypeOK /\ [Next]_vars => TypeOK'
    BY TypeStep
  <1> QED
    BY <1>1, <1>2, PTL DEF Spec

-----------------------------------------------------------------------------
(* No weighing is paid for twice *)

\* The inductive invariant holds of empty books and of half-voided ones.
LEMMA CreditInit == Init => CreditInv
  <1> SUFFICES ASSUME Init PROVE CreditInv
    OBVIOUS
  <1>1. TypeOK
    BY TypeInit
  <1>2. CASE NoBooks
    BY <1>1, <1>2 DEF NoBooks, CreditInv, OneLiveLine, OwnersExist, OneDevengo,
                      CreditHoldsItsLines, Credits
  <1>3. CASE HalfVoided
    <2>1. PICK w \in Worker, r \in Record, s \in Settlement, e \in Entry,
               q \in Quantity, p \in Price : HalfVoidedBooks(w, r, s, e, q, p)
      BY <1>3 DEF HalfVoided
    <2>2. settlement[s] # None /\ s # None
      <3>1. q * p \in Int
        BY AmountIsInt
      <3>2. settlement[s] \in SettlementRow
        BY <2>1, <3>1 DEF HalfVoidedBooks, SettlementRow
      <3> QED
        BY <3>2, NoneAssumption
    <2>3. \A t \in Settlement, x \in Record : line[<<t, x>>] # None => t = s /\ x = r
      BY <2>1 DEF HalfVoidedBooks
    <2>4. line[<<s, r>>].live
      BY <2>1 DEF HalfVoidedBooks
    <2>5. \A x \in Entry : Row(x) => /\ x = e
                                     /\ ledger[x].settlement = s
                                     /\ ledger[x].reverses = None
      BY <2>1 DEF HalfVoidedBooks
    <2>6. OneLiveLine
      BY <2>3 DEF OneLiveLine
    <2>7. OwnersExist
      BY <2>2, <2>3, <2>5 DEF OwnersExist
    <2>8. OneDevengo
      BY <2>5 DEF OneDevengo
    <2>9. CreditHoldsItsLines
      BY <2>3, <2>4, <2>5 DEF CreditHoldsItsLines, Credits
    <2> QED
      BY <1>1, <2>6, <2>7, <2>8, <2>9 DEF CreditInv
  <1> QED
    BY <1>2, <1>3 DEF Init

\* A settlement that no row mentions yet takes unclaimed records under live
\* lines and writes the one devengo that credits them.
LEMMA CreditSettle ==
    ASSUME CreditInv, TypeOK',
           NEW w \in Worker, NEW s \in Settlement, NEW e \in Entry, Settle(w, s, e)
    PROVE  CreditInv'
  <1> DEFINE chosen == Pending(w, shown[w].scope)
             taken(r) == [quantity |-> record[r].quantity,
                          amount |-> AmountOf(r), live |-> TRUE]
  <1>0. TypeOK /\ OneLiveLine /\ OwnersExist /\ OneDevengo /\ CreditHoldsItsLines
    BY DEF CreditInv
  <1>1. /\ settlement[s] = None
        /\ settlement'[s] # None
        /\ \A t \in Settlement : t # s => settlement'[t] = settlement[t]
    <2> DEFINE row == [worker |-> w, gross |-> Gross(chosen), status |-> "open"]
    <2>1. settlement[s] = None /\ settlement' = [settlement EXCEPT ![s] = row]
      BY DEF Settle
    <2>2. Gross(chosen) \in Int
      BY <1>0, TakenIsPriced
    <2>3. row \in SettlementRow
      BY <2>2 DEF SettlementRow
    <2> HIDE DEF row
    <2> QED
      BY <1>0, <2>1, <2>3, NoneAssumption DEF TypeOK
  <1>2. \A t \in Settlement, r \in Record :
           line'[<<t, r>>] = IF t = s /\ r \in chosen THEN taken(r) ELSE line[<<t, r>>]
    BY DEF Settle
  <1>3. \A t \in Settlement, r \in chosen : ~LiveLine(t, r)
    BY DEF Pending, IsSettled
  <1>4. \A r \in Record : line[<<s, r>>] = None
    BY <1>0, <1>1 DEF OwnersExist
  <1>5. \A r \in chosen : taken(r) # None /\ taken(r).live
    <2>1. \A r \in chosen : taken(r) \in LineRow
      BY <1>0, TakenIsPriced DEF LineRow
    <2> QED
      BY <2>1, NoneAssumption
  <1>6. \A r \in Record : /\ r \in chosen => LiveLine(s, r)'
                          /\ r \notin chosen => line'[<<s, r>>] = None
                          /\ \A t \in Settlement : t # s => line'[<<t, r>>] = line[<<t, r>>]
    <2> HIDE DEF taken, chosen
    <2> QED
      BY <1>2, <1>4, <1>5
  <1>7. /\ ~Row(e)
        /\ Row(e)' /\ ledger'[e].kind = "devengo" /\ ledger'[e].settlement = s
        /\ ledger'[e].reverses = None
        /\ \A x \in Entry : x # e => ledger'[x] = ledger[x]
    <2> DEFINE row == [worker |-> w, kind |-> "devengo", amount |-> Gross(chosen),
                       settlement |-> s, reverses |-> None, guarded |-> FALSE]
    <2>1. row \in LedgerRow
      BY <1>0, TakenIsPriced DEF LedgerRow, Kind
    <2>2. ~Row(e) /\ Insert([x \in {e} |-> row])
      BY DEF Settle, Unused
    <2>3. ledger'[e] = row /\ \A x \in Entry : x # e => ledger'[x] = ledger[x]
      BY <2>2 DEF Insert
    <2>4. row # None
      BY <2>1, NoneAssumption
    <2>5. row.kind = "devengo" /\ row.settlement = s /\ row.reverses = None
      OBVIOUS
    <2> HIDE DEF row
    <2>6. ~Row(e)
      BY <2>2
    <2>7. Row(e)'
      BY <2>3, <2>4 DEF Row
    <2> QED
      BY <2>3, <2>5, <2>6, <2>7
  <1> HIDE DEF chosen, taken
  <1>8. s # None
    BY NoneAssumption
  <1>9. OneLiveLine'
    BY <1>0, <1>3, <1>6 DEF OneLiveLine
  <1>10. OwnersExist'
    <2>1. \A t \in Settlement, r \in Record : line'[<<t, r>>] # None => settlement'[t] # None
      BY <1>0, <1>1, <1>6 DEF OwnersExist
    <2>2. \A x \in Entry : Row(x)' /\ ledger'[x].settlement # None =>
             settlement'[ledger'[x].settlement] # None
      <3> SUFFICES ASSUME NEW x \in Entry, Row(x)', ledger'[x].settlement # None, x # e
                   PROVE  settlement'[ledger'[x].settlement] # None
        BY <1>1, <1>7
      <3>1. Row(x) /\ ledger'[x] = ledger[x]
        BY <1>7
      <3>2. ledger[x] \in LedgerRow
        BY <1>0, <3>1 DEF TypeOK
      <3>3. ledger[x].settlement \in Settlement
        BY <3>1, <3>2 DEF LedgerRow
      <3> QED
        BY <1>0, <1>1, <3>1, <3>3 DEF OwnersExist
    <2>3. \A x \in Entry : Row(x)' /\ ledger'[x].kind = "devengo" =>
             ledger'[x].settlement # None /\ ledger'[x].reverses = None
      BY <1>0, <1>7, <1>8 DEF OwnersExist
    <2> QED
      BY <2>1, <2>2, <2>3 DEF OwnersExist
  <1>11. OneDevengo'
    BY <1>0, <1>1, <1>7, <1>8 DEF OneDevengo, OwnersExist
  <1>12. CreditHoldsItsLines'
    <2> SUFFICES ASSUME NEW x \in Entry, NEW r \in Record, Credits(x)',
                        line'[<<ledger'[x].settlement, r>>] # None
                 PROVE  LiveLine(ledger[x].settlement, r)'
      BY DEF CreditHoldsItsLines
    <2>1. CASE x = e
      BY <2>1, <1>6, <1>7
    <2>2. CASE x # e
      <3>1. Credits(x) /\ ledger'[x] = ledger[x]
        BY <2>2, <1>7 DEF Credits, Reversed
      <3>2. ledger[x] \in LedgerRow
        BY <3>1, <1>0 DEF Credits, TypeOK
      <3>3. /\ ledger[x].settlement # s
            /\ ledger[x].settlement \in Settlement
        BY <3>1, <3>2, <1>0, <1>1 DEF Credits, OwnersExist, LedgerRow
      <3>4. line[<<ledger[x].settlement, r>>] # None
        BY <3>1, <3>3, <1>6
      <3>5. LiveLine(ledger[x].settlement, r)
        BY <3>1, <3>4, <1>0 DEF CreditHoldsItsLines
      <3> QED
        BY <3>1, <3>3, <3>5, <1>6
    <2> QED
      BY <2>1, <2>2
  <1> QED
    BY <1>9, <1>10, <1>11, <1>12 DEF CreditInv

\* A request that credits nobody keeps the invariant: settlements stay, ledger
\* rows stay, the rows it adds are no devengos, and a line it voids belongs to a
\* settlement it leaves without a standing devengo.
LEMMA CreditKept ==
    ASSUME CreditInv, TypeOK',
           \A t \in Settlement : settlement[t] # None => settlement'[t] # None,
           \A x \in Entry : Row(x) => Row(x)' /\ ledger'[x] = ledger[x],
           \A x \in Entry : Row(x)' /\ ~Row(x) =>
              /\ ledger'[x].kind # "devengo"
              /\ ledger'[x].settlement # None => settlement[ledger'[x].settlement] # None,
           \A t \in Settlement, r \in Record :
              \/ line'[<<t, r>>] = line[<<t, r>>]
              \/ /\ line[<<t, r>>] # None
                 /\ LiveLine(t, r)' => LiveLine(t, r)
                 /\ \A x \in LiveDevengos(t) : Reversed(x)'
    PROVE  CreditInv'
  <1>0. TypeOK /\ OneLiveLine /\ OwnersExist /\ OneDevengo /\ CreditHoldsItsLines
    BY DEF CreditInv
  <1>1. OneLiveLine'
    BY <1>0 DEF OneLiveLine
  <1>2. OwnersExist'
    <2>1. \A t \in Settlement, r \in Record : line'[<<t, r>>] # None => settlement'[t] # None
      BY <1>0 DEF OwnersExist
    <2>2. \A x \in Entry : Row(x)' /\ ledger'[x].settlement # None =>
             settlement'[ledger'[x].settlement] # None
      <3> SUFFICES ASSUME NEW x \in Entry, Row(x)', ledger'[x].settlement # None
                   PROVE  settlement'[ledger'[x].settlement] # None
        OBVIOUS
      <3>1. ledger'[x] \in LedgerRow
        BY DEF TypeOK
      <3>2. ledger'[x].settlement \in Settlement
        BY <3>1 DEF LedgerRow
      <3>3. settlement[ledger'[x].settlement] # None
        BY <1>0 DEF OwnersExist
      <3> QED
        BY <3>2, <3>3
    <2>3. \A x \in Entry : Row(x)' /\ ledger'[x].kind = "devengo" =>
             ledger'[x].settlement # None /\ ledger'[x].reverses = None
      BY <1>0 DEF OwnersExist
    <2> QED
      BY <2>1, <2>2, <2>3 DEF OwnersExist
  <1>3. OneDevengo'
    BY <1>0 DEF OneDevengo
  <1>4. CreditHoldsItsLines'
    <2> SUFFICES ASSUME NEW x \in Entry, NEW r \in Record, Credits(x)',
                        line'[<<ledger'[x].settlement, r>>] # None
                 PROVE  LiveLine(ledger[x].settlement, r)'
      BY DEF CreditHoldsItsLines, Credits
    <2> DEFINE s == ledger[x].settlement
    <2>1. Credits(x) /\ ledger'[x] = ledger[x]
      BY DEF Credits, Reversed
    <2>2. ledger[x] \in LedgerRow
      BY <2>1, <1>0 DEF Credits, TypeOK
    <2>3. s \in Settlement
      BY <2>1, <2>2, <1>0 DEF Credits, OwnersExist, LedgerRow
    <2>4. x \in LiveDevengos(s) /\ ~Reversed(x)'
      BY <2>1 DEF LiveDevengos, Credits
    <2>5. line'[<<s, r>>] = line[<<s, r>>]
      BY <2>3, <2>4
    <2>6. LiveLine(s, r)
      BY <2>1, <2>5, <1>0 DEF CreditHoldsItsLines
    <2> QED
      BY <2>1, <2>5, <2>6
  <1> QED
    BY <1>1, <1>2, <1>3, <1>4 DEF CreditInv

\* A void or a release credits nobody: it voids the lines of a settlement and
\* reverses what that settlement credited.
LEMMA CreditVoid ==
    ASSUME CreditInv, TypeOK', NEW s \in Settlement, settlement[s] # None,
           VoidLines(s), ReverseEarnings(s),
           \A t \in Settlement : settlement[t] # None => settlement'[t] # None
    PROVE  CreditInv'
  <1>1. TypeOK
    BY DEF CreditInv
  <1>2. /\ \A x \in Entry : Row(x) => Row(x)' /\ ledger'[x] = ledger[x]
        /\ \A x \in Entry : Row(x)' /\ ~Row(x) =>
              ledger'[x].kind = "reverso" /\ ledger'[x].settlement = s
        /\ \A x \in LiveDevengos(s) : Reversed(x)'
    BY <1>1, ReverseEarningsEffect
  <1>3. ASSUME NEW t \in Settlement, NEW r \in Record,
               line'[<<t, r>>] # line[<<t, r>>]
        PROVE  t = s /\ line[<<t, r>>] # None /\ ~LiveLine(t, r)'
    <2>1. t = s /\ line[<<t, r>>] # None
      BY <1>3 DEF VoidLines
    <2>2. line'[<<t, r>>] = [line[<<t, r>>] EXCEPT !.live = FALSE]
      BY <2>1 DEF VoidLines
    <2>3. line[<<t, r>>] \in LineRow
      BY <1>1, <2>1 DEF TypeOK
    <2>4. ~line'[<<t, r>>].live
      BY <2>2, <2>3 DEF LineRow
    <2> QED
      BY <2>1, <2>4
  <1> QED
    BY <1>2, <1>3, CreditKept

\* Every request keeps the invariant.
LEMMA CreditStep == CreditInv /\ [Next]_vars => CreditInv'
  <1> SUFFICES ASSUME CreditInv, [Next]_vars PROVE CreditInv'
    OBVIOUS
  <1>0. TypeOK /\ TypeOK'
    BY TypeStep DEF CreditInv
  <1>1. ASSUME UNCHANGED books PROVE CreditInv'
    <2>1. UNCHANGED <<settlement, line, ledger>>
      BY <1>1 DEF books
    <2> QED
      BY <1>0, <2>1, CreditKept
  <1>2. ASSUME NEW r \in Record, NEW w \in Worker, NEW q \in Quantity,
               NEW p \in Price \cup {None}, CreateWorkRecord(r, w, q, p)
        PROVE  CreditInv'
    BY <1>1, <1>2 DEF CreateWorkRecord
  <1>3. ASSUME NEW r \in Record, NEW q \in Quantity,
               NEW status \in {"active", "inactive"},
               UpdateWorkRecord(r, q, status)
        PROVE  CreditInv'
    BY <1>1, <1>3 DEF UpdateWorkRecord
  <1>4. ASSUME NEW r \in Record, SoftDeleteWorkRecord(r) PROVE CreditInv'
    BY <1>1, <1>4 DEF SoftDeleteWorkRecord
  <1>5. ASSUME NEW p \in Price, SetWeekPrice(p) PROVE CreditInv'
    BY <1>1, <1>5 DEF SetWeekPrice
  <1>6. ASSUME NEW w \in Worker, NEW scope \in SUBSET Record,
               SettlementPreview(w, scope)
        PROVE  CreditInv'
    BY <1>1, <1>6 DEF SettlementPreview
  <1>7. ASSUME NEW w \in Worker, NEW s \in Settlement, NEW e \in Entry, Settle(w, s, e)
        PROVE  CreditInv'
    BY <1>0, <1>7, CreditSettle
  <1>8. ASSUME NEW s \in Settlement, VoidSettlement(s) PROVE CreditInv'
    <2>1. settlement[s] \in SettlementRow /\ settlement[s] # None
      BY <1>0, <1>8 DEF VoidSettlement, TypeOK
    <2>2. [settlement[s] EXCEPT !.status = "void"] \in SettlementRow
      BY <2>1 DEF SettlementRow
    <2>3. \A t \in Settlement : settlement[t] # None => settlement'[t] # None
      BY <1>0, <1>8, <2>2, NoneAssumption DEF VoidSettlement, TypeOK
    <2> QED
      BY <1>0, <1>8, <2>1, <2>3, CreditVoid DEF VoidSettlement
  <1>9. ASSUME NEW s \in Settlement, NEW id \in Release, ReleaseSettlement(s, id)
        PROVE  CreditInv'
    BY <1>0, <1>9, CreditVoid DEF ReleaseSettlement
  <1>10. ASSUME NEW e \in Entry, NEW w \in Worker,
                NEW kind \in Withdrawal \cup {"ajuste"},
                NEW amount \in SignedAmount(kind), NEW over \in BOOLEAN,
                AddLedgerEntry(e, w, kind, amount, over)
         PROVE  CreditInv'
    <2>1. \A x \in Entry : x # e => ledger'[x] = ledger[x]
      BY <1>10 DEF AddLedgerEntry, Insert
    <2>2. ~Row(e) /\ ledger'[e].kind = kind /\ ledger'[e].settlement = None
      BY <1>10 DEF AddLedgerEntry, Insert, Unused
    <2>3. kind # "devengo"
      BY DEF Withdrawal
    <2>4. UNCHANGED <<settlement, line>>
      BY <1>10 DEF AddLedgerEntry
    <2> QED
      BY <1>0, <2>1, <2>2, <2>3, <2>4, CreditKept
  <1>11. ASSUME NEW e \in Entry, NEW id \in Entry, ReverseLedgerEntry(e, id)
         PROVE  CreditInv'
    <2>1. Row(e) /\ UNCHANGED <<settlement, line>>
      BY <1>11 DEF ReverseLedgerEntry
    <2>2. ~Row(id) /\ \A x \in Entry : ledger'[x] = IF x = id THEN ReversalOf(e) ELSE ledger[x]
      BY <1>11 DEF ReverseLedgerEntry, Insert, Unused
    <2>3. ReversalOf(e).kind = "reverso" /\ ReversalOf(e).settlement = ledger[e].settlement
      BY <1>0, <2>1, ReversalOfType
    <2>4. ledger[e].settlement # None => settlement[ledger[e].settlement] # None
      BY <2>1 DEF CreditInv, OwnersExist
    <2> QED
      BY <1>0, <2>1, <2>2, <2>3, <2>4, CreditKept
  <1>12. CASE UNCHANGED vars
    BY <1>1, <1>12 DEF vars, books
  <1> QED
    BY <1>2, <1>3, <1>4, <1>5, <1>6, <1>7, <1>8, <1>9, <1>10, <1>11, <1>12 DEF Next

\* Two standing devengos over one record are the same devengo: both have that
\* record under a live line, there is one live line, and its settlement has one
\* devengo.
LEMMA CreditInvSuffices == CreditInv => CreditedOnce
  <1> SUFFICES ASSUME CreditInv, NEW r \in Record, NEW e \in Entry, NEW f \in Entry,
                      Credits(e), line[<<ledger[e].settlement, r>>] # None,
                      Credits(f), line[<<ledger[f].settlement, r>>] # None
               PROVE  e = f
    BY DEF CreditedOnce
  <1>1. ledger[e] \in LedgerRow /\ ledger[f] \in LedgerRow
    BY DEF CreditInv, TypeOK, Credits
  <1>2. ledger[e].settlement \in Settlement /\ ledger[f].settlement \in Settlement
    BY <1>1 DEF CreditInv, OwnersExist, Credits, LedgerRow
  <1>3. LiveLine(ledger[e].settlement, r) /\ LiveLine(ledger[f].settlement, r)
    BY DEF CreditInv, CreditHoldsItsLines
  <1>4. ledger[e].settlement = ledger[f].settlement
    BY <1>2, <1>3 DEF CreditInv, OneLiveLine
  <1> QED
    BY <1>4 DEF CreditInv, OneDevengo, Credits

\* No weighing is paid for twice, whatever is settled, voided, released or
\* reversed and in whatever order: see CreditedOnce.
THEOREM NothingCreditedTwice == Spec => []CreditedOnce
  <1>1. Init => CreditInv
    BY CreditInit
  <1>2. CreditInv /\ [Next]_vars => CreditInv'
    BY CreditStep
  <1>3. CreditInv => CreditedOnce
    BY CreditInvSuffices
  <1> QED
    BY <1>1, <1>2, <1>3, PTL DEF Spec

-----------------------------------------------------------------------------
(* What a step does to the ledger.                                         *)
(*                                                                         *)
(* Whatever a request writes, the rows that were there stay as they are; a *)
(* row it adds cancels nothing, or is the reversal of a row that was there,*)
(* was no reversal and had none; and two of its rows do not cancel the     *)
(* same one.                                                               *)
(***************************************************************************)
RowsStay == \A x \in Entry : Row(x) => Row(x)' /\ ledger'[x] = ledger[x]

Cancellable(e) == Row(e) /\ ledger[e].kind # "reverso" /\ ~Reversed(e)

AddsReversals ==
    /\ \A x \in Entry : Row(x)' /\ ~Row(x) =>
          \/ ledger'[x].reverses = None
          \/ \E e \in Entry : Cancellable(e) /\ ledger'[x] = ReversalOf(e)
    /\ \A x, y \in Entry :
          /\ Row(x)' /\ ~Row(x) /\ Row(y)' /\ ~Row(y)
          /\ ledger'[x].reverses # None
          /\ ledger'[x].reverses = ledger'[y].reverses
          => x = y

\* A row that cancels another is of kind reverso.
ReversalsAreMarked ==
    \A x \in Entry : Row(x) /\ ledger[x].reverses # None => ledger[x].kind = "reverso"

TrailInv == TypeOK /\ ReversalsAreMarked /\ ReversalsCancelOnce

\* The devengos a void or a release takes back are cancelled each once.
LEMMA ReverseEarningsAdds ==
    ASSUME TypeOK, NEW s \in Settlement, ReverseEarnings(s)
    PROVE  RowsStay /\ AddsReversals
  <1>1. PICK ids \in SUBSET Unused : \E of \in [ids -> LiveDevengos(s)] :
           /\ \A e \in LiveDevengos(s) : \E x \in ids : of[x] = e
           /\ \A x, y \in ids : of[x] = of[y] => x = y
           /\ Insert([x \in ids |-> ReversalOf(of[x])])
    BY DEF ReverseEarnings
  <1>2. PICK of \in [ids -> LiveDevengos(s)] :
           /\ \A x, y \in ids : of[x] = of[y] => x = y
           /\ Insert([x \in ids |-> ReversalOf(of[x])])
    BY <1>1
  <1>3. \A x \in Entry : ledger'[x] = IF x \in ids THEN ReversalOf(of[x]) ELSE ledger[x]
    BY <1>2 DEF Insert
  <1>4. \A e \in LiveDevengos(s) : e \in Entry /\ Cancellable(e)
    BY DEF LiveDevengos, Cancellable
  <1>5. \A x \in ids : x \in Entry /\ ~Row(x) /\ of[x] \in LiveDevengos(s)
    BY DEF Unused
  <1>6. \A x \in ids : ReversalOf(of[x]).reverses = of[x]
    BY DEF ReversalOf
  <1>7. RowsStay
    BY <1>3, <1>5 DEF RowsStay
  <1>8. \A x \in Entry : Row(x)' /\ ~Row(x) => x \in ids
    BY <1>3
  <1>9. AddsReversals
    <2>1. ASSUME NEW x \in Entry, Row(x)', ~Row(x)
          PROVE  \E e \in Entry : Cancellable(e) /\ ledger'[x] = ReversalOf(e)
      BY <1>3, <1>4, <1>5, <1>8, <2>1
    <2>2. ASSUME NEW x \in Entry, NEW y \in Entry, Row(x)', ~Row(x), Row(y)', ~Row(y),
                 ledger'[x].reverses = ledger'[y].reverses
          PROVE  x = y
      <3>1. x \in ids /\ y \in ids
        BY <1>8, <2>2
      <3>2. ledger'[x].reverses = of[x] /\ ledger'[y].reverses = of[y]
        BY <1>3, <1>6, <3>1
      <3> QED
        BY <1>2, <2>2, <3>1, <3>2
    <2> QED
      BY <2>1, <2>2 DEF AddsReversals
  <1> QED
    BY <1>7, <1>9

\* One row inserted under a fresh id keeps the others.
LEMMA OneRow ==
    ASSUME NEW e \in Unused, NEW row, Insert([x \in {e} |-> row])
    PROVE  /\ RowsStay
           /\ \A x \in Entry : Row(x)' /\ ~Row(x) => x = e
           /\ ledger'[e] = row
  BY DEF Insert, Unused, RowsStay

\* Every request leaves the rows that are there and adds reversals as it should.
LEMMA LedgerStep ==
    ASSUME TypeOK, [Next]_vars
    PROVE  RowsStay /\ AddsReversals
  <1>1. CASE UNCHANGED ledger
    BY <1>1 DEF RowsStay, AddsReversals
  <1>2. ASSUME NEW w \in Worker, NEW s \in Settlement, NEW e \in Entry, Settle(w, s, e)
        PROVE  RowsStay /\ AddsReversals
    <2> DEFINE row == [worker |-> w, kind |-> "devengo",
                       amount |-> Gross(Pending(w, shown[w].scope)),
                       settlement |-> s, reverses |-> None, guarded |-> FALSE]
    <2>1. e \in Unused /\ Insert([x \in {e} |-> row])
      BY <1>2 DEF Settle
    <2>2. row.reverses = None
      OBVIOUS
    <2> HIDE DEF row
    <2>3. /\ RowsStay
          /\ \A x \in Entry : Row(x)' /\ ~Row(x) => x = e
          /\ ledger'[e] = row
      BY <2>1, OneRow
    <2> QED
      BY <2>2, <2>3 DEF AddsReversals
  <1>3. ASSUME NEW e \in Entry, NEW w \in Worker,
               NEW kind \in Withdrawal \cup {"ajuste"},
               NEW amount \in SignedAmount(kind), NEW over \in BOOLEAN,
               AddLedgerEntry(e, w, kind, amount, over)
        PROVE  RowsStay /\ AddsReversals
    <2> DEFINE row == [worker |-> w, kind |-> kind, amount |-> amount,
                       settlement |-> None, reverses |-> None,
                       guarded |-> kind = "pago" /\ ~over]
    <2>1. e \in Unused /\ Insert([x \in {e} |-> row])
      BY <1>3 DEF AddLedgerEntry
    <2>2. row.reverses = None
      OBVIOUS
    <2> HIDE DEF row
    <2>3. /\ RowsStay
          /\ \A x \in Entry : Row(x)' /\ ~Row(x) => x = e
          /\ ledger'[e] = row
      BY <2>1, OneRow
    <2> QED
      BY <2>2, <2>3 DEF AddsReversals
  <1>4. ASSUME NEW e \in Entry, NEW id \in Entry, ReverseLedgerEntry(e, id)
        PROVE  RowsStay /\ AddsReversals
    <2>1. Cancellable(e)
      BY <1>4 DEF ReverseLedgerEntry, Cancellable
    <2>2. /\ RowsStay
          /\ \A x \in Entry : Row(x)' /\ ~Row(x) => x = id
          /\ ledger'[id] = ReversalOf(e)
      BY <1>4, OneRow DEF ReverseLedgerEntry
    <2> QED
      BY <2>1, <2>2 DEF AddsReversals
  <1>5. ASSUME NEW s \in Settlement, VoidSettlement(s) PROVE RowsStay /\ AddsReversals
    BY <1>5, ReverseEarningsAdds DEF VoidSettlement
  <1>6. ASSUME NEW s \in Settlement, NEW id \in Release, ReleaseSettlement(s, id)
        PROVE  RowsStay /\ AddsReversals
    BY <1>6, ReverseEarningsAdds DEF ReleaseSettlement
  <1> QED
    BY <1>1, <1>2, <1>3, <1>4, <1>5, <1>6
       DEF Next, vars, books, CreateWorkRecord, UpdateWorkRecord, SoftDeleteWorkRecord,
           SetWeekPrice, SettlementPreview

-----------------------------------------------------------------------------
(* What is cancelled is cancelled once. *)

\* Rows that stay, with reversals added as they should be, keep the invariant.
LEMMA TrailKept ==
    ASSUME TrailInv, TypeOK', RowsStay, AddsReversals
    PROVE  TrailInv'
  <1>1. \A e \in Entry : Cancellable(e) =>
           /\ ReversalOf(e).kind = "reverso"
           /\ ReversalOf(e).reverses = e
           /\ ReversalOf(e).worker = ledger[e].worker
           /\ ReversalOf(e).settlement = ledger[e].settlement
           /\ ReversalOf(e).amount = -ledger[e].amount
           /\ ledger[e].reverses = None
    BY DEF ReversalOf, Cancellable, TrailInv, ReversalsAreMarked
  <1>2. ReversalsAreMarked'
    BY <1>1 DEF TrailInv, ReversalsAreMarked, RowsStay, AddsReversals
  <1>3. ReversalsCancelOnce'
    <2> SUFFICES ASSUME NEW x \in Entry, NEW e \in Entry, Row(x)', ledger'[x].reverses = e
                 PROVE  /\ Row(e)'
                        /\ ledger'[e].reverses = None
                        /\ ledger'[x].amount = -ledger'[e].amount
                        /\ ledger'[x].worker = ledger'[e].worker
                        /\ ledger'[x].settlement = ledger'[e].settlement
                        /\ \A y \in Entry : Row(y)' /\ ledger'[y].reverses = e => y = x
      <3>1. \A x \in Entry : Row(x)' => ledger'[x].reverses \in Entry \cup {None}
        BY DEF TypeOK, LedgerRow
      <3> QED
        BY <3>1 DEF ReversalsCancelOnce
    <2>1. e # None
      BY NoneAssumption
    <2>2. CASE Row(x)
      <3>1. ledger'[x] = ledger[x]
        BY <2>2 DEF RowsStay
      <3>2. /\ Row(e)
            /\ ledger[e].reverses = None
            /\ ledger[x].amount = -ledger[e].amount
            /\ ledger[x].worker = ledger[e].worker
            /\ ledger[x].settlement = ledger[e].settlement
            /\ \A y \in Entry : Row(y) /\ ledger[y].reverses = e => y = x
        BY <2>1, <2>2, <3>1 DEF TrailInv, ReversalsCancelOnce
      <3>3. Row(e)' /\ ledger'[e] = ledger[e]
        BY <3>2 DEF RowsStay
      <3>4. ASSUME NEW y \in Entry, Row(y)', ledger'[y].reverses = e PROVE y = x
        <4>1. CASE Row(y)
          BY <3>2, <3>4, <4>1 DEF RowsStay
        <4>2. CASE ~Row(y)
          <5>1. PICK f \in Entry : Cancellable(f) /\ ledger'[y] = ReversalOf(f)
            BY <2>1, <3>4, <4>2 DEF AddsReversals
          <5>2. f = e
            BY <1>1, <3>4, <5>1
          <5>3. Reversed(e)
            BY <2>2, <3>1 DEF Reversed
          <5> QED
            BY <5>1, <5>2, <5>3 DEF Cancellable
        <4> QED
          BY <4>1, <4>2
      <3> QED
        BY <3>1, <3>2, <3>3, <3>4
    <2>3. CASE ~Row(x)
      <3>1. PICK f \in Entry : Cancellable(f) /\ ledger'[x] = ReversalOf(f)
        BY <2>1, <2>3 DEF AddsReversals
      <3>2. f = e
        BY <1>1, <3>1
      <3>3. Row(e) /\ ~Reversed(e)
        BY <3>1, <3>2 DEF Cancellable
      <3>4. Row(e)' /\ ledger'[e] = ledger[e]
        BY <3>3 DEF RowsStay
      <3>5. ASSUME NEW y \in Entry, Row(y)', ledger'[y].reverses = e PROVE y = x
        <4>1. ~Row(y)
          BY <3>3, <3>5 DEF RowsStay, Reversed
        <4> QED
          BY <2>1, <2>3, <3>5, <4>1 DEF AddsReversals
      <3> QED
        BY <1>1, <3>1, <3>2, <3>4, <3>5
    <2> QED
      BY <2>2, <2>3
  <1> QED
    BY <1>2, <1>3 DEF TrailInv

\* Empty books and half-voided ones cancel nothing.
LEMMA TrailInit == Init => TrailInv
  <1> SUFFICES ASSUME Init PROVE TrailInv
    OBVIOUS
  <1>1. TypeOK
    BY TypeInit
  <1>2. \A x \in Entry : Row(x) => ledger[x].reverses = None
    <2>1. CASE NoBooks
      BY <2>1 DEF NoBooks
    <2>2. CASE HalfVoided
      BY <2>2 DEF HalfVoided, HalfVoidedBooks
    <2> QED
      BY <2>1, <2>2 DEF Init
  <1> QED
    BY <1>1, <1>2 DEF TrailInv, ReversalsAreMarked, ReversalsCancelOnce

\* A movement is cancelled at most once, by its exact opposite, by whichever of
\* the routes that cancel (by hand, a void, a release): see ReversalsCancelOnce.
THEOREM CancelledOnce == Spec => []ReversalsCancelOnce
  <1>1. TrailInv /\ [Next]_vars => TrailInv'
    BY TypeStep, LedgerStep, TrailKept DEF TrailInv
  <1>2. TrailInv => ReversalsCancelOnce
    BY DEF TrailInv
  <1> QED
    BY TrailInit, <1>1, <1>2, PTL DEF Spec

-----------------------------------------------------------------------------
(* What a step does to settlements and lines. *)

\* A void or a release leaves no line of its settlement alive, and of the lines
\* that are there nothing else is changed.
LEMMA VoidLinesEffect ==
    ASSUME TypeOK, NEW s \in Settlement, VoidLines(s)
    PROVE  /\ \A r \in Record : ~LiveLine(s, r)'
           /\ \A t \in Settlement \ {s}, r \in Record : line'[<<t, r>>] = line[<<t, r>>]
           /\ \A t \in Settlement, r \in Record : line[<<t, r>>] # None =>
                 /\ line'[<<t, r>>] # None
                 /\ line'[<<t, r>>].amount = line[<<t, r>>].amount
                 /\ line'[<<t, r>>].quantity = line[<<t, r>>].quantity
                 /\ line'[<<t, r>>].live => line[<<t, r>>].live
  <1>1. \A t \in Settlement, r \in Record :
           line'[<<t, r>>] = IF t = s /\ line[<<t, r>>] # None
                               THEN [line[<<t, r>>] EXCEPT !.live = FALSE]
                               ELSE line[<<t, r>>]
    BY DEF VoidLines
  <1>2. \A t \in Settlement, r \in Record : line[<<t, r>>] \in LineRow \cup {None}
    BY DEF TypeOK
  <1>3. ASSUME NEW l \in LineRow
        PROVE  /\ [l EXCEPT !.live = FALSE] # None
               /\ [l EXCEPT !.live = FALSE].amount = l.amount
               /\ [l EXCEPT !.live = FALSE].quantity = l.quantity
               /\ ~[l EXCEPT !.live = FALSE].live
    <2>1. [l EXCEPT !.live = FALSE] \in LineRow
      BY DEF LineRow
    <2> QED
      BY <2>1, NoneAssumption DEF LineRow
  <1>4. ASSUME NEW r \in Record PROVE ~LiveLine(s, r)'
    <2>1. CASE line[<<s, r>>] = None
      BY <1>1, <2>1
    <2>2. CASE line[<<s, r>>] # None
      BY <1>1, <1>2, <1>3, <2>2
    <2> QED
      BY <2>1, <2>2
  <1>5. \A t \in Settlement \ {s}, r \in Record : line'[<<t, r>>] = line[<<t, r>>]
    BY <1>1
  <1>6. ASSUME NEW t \in Settlement, NEW r \in Record, line[<<t, r>>] # None
        PROVE  /\ line'[<<t, r>>] # None
               /\ line'[<<t, r>>].amount = line[<<t, r>>].amount
               /\ line'[<<t, r>>].quantity = line[<<t, r>>].quantity
               /\ line'[<<t, r>>].live => line[<<t, r>>].live
    <2>1. line[<<t, r>>] \in LineRow
      BY <1>2, <1>6
    <2>2. CASE t = s
      BY <1>1, <1>3, <1>6, <2>1, <2>2
    <2>3. CASE t # s
      BY <1>5, <1>6, <2>3
    <2> QED
      BY <2>2, <2>3
  <1> QED
    BY <1>4, <1>5, <1>6

\* A void changes the status of its settlement and nothing else about any.
LEMMA StatusEffect ==
    ASSUME TypeOK, NEW s \in Settlement, VoidSettlement(s)
    PROVE  /\ \A t \in Settlement : settlement[t] # None =>
                 /\ settlement'[t] # None
                 /\ settlement'[t].worker = settlement[t].worker
                 /\ settlement'[t].gross = settlement[t].gross
                 /\ settlement[t].status = "void" => settlement'[t].status = "void"
           /\ \A t \in Settlement \ {s} : settlement'[t] = settlement[t]
  <1> DEFINE row == [settlement[s] EXCEPT !.status = "void"]
  <1>1. settlement' = [settlement EXCEPT ![s] = row]
    BY DEF VoidSettlement
  <1>2. settlement[s] \in SettlementRow
    BY DEF TypeOK, VoidSettlement
  <1>3. /\ row \in SettlementRow
        /\ row.worker = settlement[s].worker
        /\ row.gross = settlement[s].gross
        /\ row.status = "void"
    BY <1>2 DEF SettlementRow
  <1>4. row # None
    BY <1>3, NoneAssumption
  <1> HIDE DEF row
  <1> QED
    BY <1>1, <1>3, <1>4 DEF TypeOK

\* A settlement begins with lines and a header of its own: no other settlement
\* and no line that was there is touched.
LEMMA SettleEffect ==
    ASSUME CreditInv, NEW w \in Worker, NEW s \in Settlement, NEW e \in Entry,
           Settle(w, s, e)
    PROVE  /\ settlement[s] = None
           /\ settlement'[s] # None
           /\ settlement'[s].worker = w
           /\ settlement'[s].status = "open"
           /\ \A t \in Settlement \ {s} : settlement'[t] = settlement[t]
           /\ \A t \in Settlement, r \in Record : line[<<t, r>>] # None =>
                 t # s /\ line'[<<t, r>>] = line[<<t, r>>]
           /\ \A t \in Settlement, r \in Record :
                 line[<<t, r>>] = None /\ line'[<<t, r>>] # None =>
                   /\ t = s
                   /\ r \in Pending(w, shown[w].scope)
                   /\ line'[<<t, r>>].quantity = record[r].quantity
  <1> DEFINE chosen == Pending(w, shown[w].scope)
             header == [worker |-> w, gross |-> Gross(chosen), status |-> "open"]
             taken(r) == [quantity |-> record[r].quantity,
                          amount |-> AmountOf(r), live |-> TRUE]
  <1>1. TypeOK /\ OwnersExist
    BY DEF CreditInv
  <1>2. /\ settlement[s] = None
        /\ settlement' = [settlement EXCEPT ![s] = header]
    BY DEF Settle
  <1>3. header \in SettlementRow
    BY <1>1, TakenIsPriced DEF SettlementRow
  <1>4. header # None /\ header.worker = w /\ header.status = "open"
    BY <1>3, NoneAssumption
  <1>5. \A t \in Settlement, r \in Record :
           line'[<<t, r>>] = IF t = s /\ r \in chosen THEN taken(r) ELSE line[<<t, r>>]
    BY DEF Settle
  <1>6. \A t \in Settlement, r \in Record : line[<<t, r>>] # None => t # s
    BY <1>1, <1>2 DEF OwnersExist
  <1>7. \A r \in Record : taken(r).quantity = record[r].quantity
    OBVIOUS
  <1> HIDE DEF header, taken, chosen
  <1>8. \A t \in Settlement, r \in Record :
           line[<<t, r>>] = None /\ line'[<<t, r>>] # None =>
             t = s /\ r \in chosen /\ line'[<<t, r>>].quantity = record[r].quantity
    BY <1>5, <1>7
  <1> QED
    BY <1>1, <1>2, <1>4, <1>5, <1>6, <1>8 DEF TypeOK, chosen

-----------------------------------------------------------------------------
(* Paid work stands. *)

ClaimInv == CreditInv /\ ClaimedWorkStands

\* The books begin with claims that stand.
LEMMA ClaimInit == Init => ClaimInv
  <1> SUFFICES ASSUME Init PROVE ClaimInv
    OBVIOUS
  <1>1. CreditInv
    BY CreditInit
  <1>2. CASE NoBooks
    BY <1>1, <1>2 DEF NoBooks, ClaimInv, ClaimedWorkStands
  <1>3. CASE HalfVoided
    <2>1. PICK w \in Worker, r \in Record, s \in Settlement, e \in Entry,
               q \in Quantity, p \in Price : HalfVoidedBooks(w, r, s, e, q, p)
      BY <1>3 DEF HalfVoided
    <2>2. record[r] = [worker |-> w, quantity |-> q, price |-> None, deleted |-> FALSE]
      BY <2>1 DEF HalfVoidedBooks
    <2>3. record[r] # None
      <3>1. record[r] \in RecordRow
        BY <2>2 DEF RecordRow
      <3> QED
        BY <3>1, NoneAssumption
    <2>4. \A t \in Settlement, x \in Record : line[<<t, x>>] # None =>
             /\ t = s /\ x = r
             /\ line[<<t, x>>].quantity = q
      BY <2>1 DEF HalfVoidedBooks
    <2>5. settlement[s].worker = w
      BY <2>1 DEF HalfVoidedBooks
    <2> QED
      BY <1>1, <2>2, <2>3, <2>4, <2>5 DEF ClaimInv, ClaimedWorkStands
  <1> QED
    BY <1>2, <1>3 DEF Init

\* Records that are claimed, their settlements and the claims on them stay.
LEMMA ClaimKept ==
    ASSUME ClaimInv, CreditInv',
           \A s \in Settlement, r \in Record : LiveLine(s, r)' =>
              /\ LiveLine(s, r)
              /\ line'[<<s, r>>].quantity = line[<<s, r>>].quantity
              /\ settlement'[s].worker = settlement[s].worker
              /\ record'[r] = record[r]
    PROVE  ClaimInv'
  BY DEF ClaimInv, ClaimedWorkStands

\* Every request keeps the claims that stand.
LEMMA ClaimStep == ClaimInv /\ [Next]_vars => ClaimInv'
  <1> SUFFICES ASSUME ClaimInv, [Next]_vars PROVE ClaimInv'
    OBVIOUS
  <1>0. CreditInv /\ TypeOK /\ OwnersExist /\ CreditInv'
    BY CreditStep DEF ClaimInv, CreditInv
  <1>1. CASE UNCHANGED <<record, settlement, line>>
    BY <1>0, <1>1, ClaimKept
  <1>2. ASSUME NEW r \in Record, \A t \in Settlement : ~LiveLine(t, r),
               UNCHANGED <<settlement, line>>,
               \A x \in Record \ {r} : record'[x] = record[x]
        PROVE  ClaimInv'
    BY <1>0, <1>2, ClaimKept
  <1>3. ASSUME NEW r \in Record, NEW w \in Worker, NEW q \in Quantity,
               NEW p \in Price \cup {None}, CreateWorkRecord(r, w, q, p)
        PROVE  ClaimInv'
    <2>1. \A t \in Settlement : ~LiveLine(t, r)
      BY <1>3 DEF ClaimInv, ClaimedWorkStands, CreateWorkRecord
    <2> QED
      BY <1>2, <1>3, <2>1 DEF CreateWorkRecord, books
  <1>4. ASSUME NEW r \in Record, NEW q \in Quantity,
               NEW status \in {"active", "inactive"},
               UpdateWorkRecord(r, q, status)
        PROVE  ClaimInv'
    BY <1>2, <1>4 DEF UpdateWorkRecord, IsSettled, books
  <1>5. ASSUME NEW r \in Record, SoftDeleteWorkRecord(r) PROVE ClaimInv'
    BY <1>2, <1>5 DEF SoftDeleteWorkRecord, IsSettled, books
  <1>6. ASSUME NEW w \in Worker, NEW s \in Settlement, NEW e \in Entry, Settle(w, s, e)
        PROVE  ClaimInv'
    <2> SUFFICES ASSUME NEW t \in Settlement, NEW r \in Record, LiveLine(t, r)'
                 PROVE  /\ record'[r] # None
                        /\ ~record'[r].deleted
                        /\ record'[r].worker = settlement'[t].worker
                        /\ record'[r].quantity = line'[<<t, r>>].quantity
      BY <1>0 DEF ClaimInv, ClaimedWorkStands
    <2>1. record' = record
      BY <1>6 DEF Settle
    <2>2. CASE line[<<t, r>>] = None
      <3>1. t = s /\ r \in Pending(w, shown[w].scope)
              /\ line'[<<t, r>>].quantity = record[r].quantity
        BY <1>0, <1>6, <2>2, SettleEffect
      <3>2. settlement'[s].worker = w
        BY <1>0, <1>6, SettleEffect
      <3> QED
        BY <2>1, <3>1, <3>2 DEF Pending
    <2>3. CASE line[<<t, r>>] # None
      <3>1. t # s /\ line'[<<t, r>>] = line[<<t, r>>]
        BY <1>0, <1>6, <2>3, SettleEffect
      <3>2. settlement'[t] = settlement[t]
        BY <1>0, <1>6, <3>1, SettleEffect
      <3> QED
        BY <2>1, <2>3, <3>1, <3>2 DEF ClaimInv, ClaimedWorkStands
    <2> QED
      BY <2>2, <2>3
  <1>7. ASSUME NEW s \in Settlement, VoidLines(s), record' = record,
               \A t \in Settlement : settlement[t] # None =>
                  settlement'[t].worker = settlement[t].worker
        PROVE  ClaimInv'
    <2>1. \A t \in Settlement, r \in Record : line[<<t, r>>] = None => line'[<<t, r>>] = None
      BY <1>7 DEF VoidLines
    <2>2. \A t \in Settlement, r \in Record : line[<<t, r>>] # None => settlement[t] # None
      BY <1>0 DEF OwnersExist
    <2> QED
      BY <1>0, <1>7, <2>1, <2>2, VoidLinesEffect, ClaimKept
  <1>8. ASSUME NEW s \in Settlement, VoidSettlement(s) PROVE ClaimInv'
    BY <1>0, <1>7, <1>8, StatusEffect DEF VoidSettlement
  <1>9. ASSUME NEW s \in Settlement, NEW id \in Release, ReleaseSettlement(s, id)
        PROVE  ClaimInv'
    BY <1>7, <1>9 DEF ReleaseSettlement
  <1> QED
    BY <1>1, <1>3, <1>4, <1>5, <1>6, <1>8, <1>9
       DEF Next, vars, books, SetWeekPrice, SettlementPreview, AddLedgerEntry,
           ReverseLedgerEntry

\* Work under a live line is neither edited nor removed: see ClaimedWorkStands.
\* It holds of requests that run one at a time; PayrollTx has what happens when
\* a correction and a settlement overlap.
THEOREM PaidWorkStands == Spec => []ClaimedWorkStands
  <1>1. ClaimInv => ClaimedWorkStands
    BY DEF ClaimInv
  <1> QED
    BY ClaimInit, ClaimStep, <1>1, PTL DEF Spec

-----------------------------------------------------------------------------
(* Nothing is rewritten, and a void does not stop halfway. *)

KeepsTrail ==
    /\ \A e \in Entry : Row(e) => ledger'[e] = ledger[e]
    /\ \A s \in Settlement : settlement[s] # None =>
         /\ settlement'[s] # None
         /\ settlement'[s].worker = settlement[s].worker
         /\ settlement'[s].gross = settlement[s].gross
         /\ settlement[s].status = "void" => settlement'[s].status = "void"
    /\ \A p \in Settlement \X Record : line[p] # None =>
         /\ line'[p] # None
         /\ line'[p].amount = line[p].amount
         /\ line'[p].live => line[p].live

\* Every request leaves the trail as it is and adds to it.
LEMMA TrailStep == CreditInv /\ [Next]_vars => KeepsTrail
  <1> SUFFICES ASSUME CreditInv, [Next]_vars PROVE KeepsTrail
    OBVIOUS
  <1>0. TypeOK
    BY DEF CreditInv
  <1>1. \A e \in Entry : Row(e) => ledger'[e] = ledger[e]
    BY <1>0, LedgerStep DEF RowsStay
  <1>2. CASE UNCHANGED <<settlement, line>>
    BY <1>1, <1>2 DEF KeepsTrail
  <1>3. ASSUME NEW w \in Worker, NEW s \in Settlement, NEW e \in Entry, Settle(w, s, e)
        PROVE  KeepsTrail
    <2>1. \A t \in Settlement : settlement[t] # None => settlement'[t] = settlement[t]
      BY <1>3, SettleEffect
    <2>2. \A p \in Settlement \X Record : line[p] # None => line'[p] = line[p]
      BY <1>3, SettleEffect
    <2> QED
      BY <1>1, <2>1, <2>2 DEF KeepsTrail
  <1>4. ASSUME NEW s \in Settlement, VoidSettlement(s) PROVE KeepsTrail
    <2>1. VoidLines(s)
      BY <1>4 DEF VoidSettlement
    <2> QED
      BY <1>0, <1>1, <1>4, <2>1, StatusEffect, VoidLinesEffect DEF KeepsTrail
  <1>5. ASSUME NEW s \in Settlement, NEW id \in Release, ReleaseSettlement(s, id)
        PROVE  KeepsTrail
    <2>1. VoidLines(s) /\ settlement' = settlement
      BY <1>5 DEF ReleaseSettlement
    <2> QED
      BY <1>0, <1>1, <2>1, VoidLinesEffect DEF KeepsTrail
  <1> QED
    BY <1>2, <1>3, <1>4, <1>5
       DEF Next, vars, books, CreateWorkRecord, UpdateWorkRecord, SoftDeleteWorkRecord,
           SetWeekPrice, SettlementPreview, AddLedgerEntry, ReverseLedgerEntry

\* Nothing in the trail is edited or lost: see TrailIsKept.
THEOREM NothingRewritten == Spec => TrailIsKept
  <1>1. CreditInv /\ [Next]_vars => [KeepsTrail]_vars
    BY TrailStep
  <1> QED
    BY CreditInit, CreditStep, <1>1, PTL DEF Spec, TrailIsKept, KeepsTrail

\* No devengo of a settlement comes back, and one that is new is of a settlement
\* that has just been written.
LEMMA StandingStays ==
    ASSUME RowsStay, NEW t \in Settlement,
           \A x \in Entry : Row(x)' /\ ~Row(x) =>
              ledger'[x].kind # "devengo" \/ ledger'[x].settlement # t
    PROVE  LiveDevengos(t)' \subseteq LiveDevengos(t)
  BY DEF RowsStay, LiveDevengos, Reversed

\* What takes the lines of a settlement and what it credited leaves no half of it.
LEMMA NothingHalf ==
    ASSUME TypeOK, NEW s \in Settlement, VoidLines(s), ReverseEarnings(s)
    PROVE  ~HalfVoid(s)'
  <1>1. \A r \in Record : ~LiveLine(s, r)'
    BY VoidLinesEffect
  <1>2. LiveDevengos(s)' = {}
    <2>1. RowsStay
      BY ReverseEarningsAdds
    <2>2. \A e \in Entry : Row(e)' /\ ~Row(e) => ledger'[e].kind = "reverso"
      BY ReverseEarningsEffect
    <2>3. LiveDevengos(s)' \subseteq LiveDevengos(s)
      BY <2>1, <2>2, StandingStays
    <2>4. \A e \in LiveDevengos(s) : Reversed(e)'
      BY ReverseEarningsEffect
    <2> QED
      BY <2>3, <2>4 DEF LiveDevengos
  <1> QED
    BY <1>1, <1>2 DEF HalfVoid

\* A settlement whose header, lines and devengos are not touched is as half void
\* as it was.
LEMMA HalfStays ==
    ASSUME RowsStay, NEW t \in Settlement,
           settlement'[t] = settlement[t],
           \A r \in Record : line'[<<t, r>>] = line[<<t, r>>],
           \A x \in Entry : Row(x)' /\ ~Row(x) =>
              ledger'[x].kind # "devengo" \/ ledger'[x].settlement # t
    PROVE  HalfVoid(t)' => HalfVoid(t)
  <1>1. LiveDevengos(t)' \subseteq LiveDevengos(t)
    BY StandingStays
  <1> QED
    BY <1>1 DEF HalfVoid

NoNewHalf == \A s \in Settlement : HalfVoid(s)' => HalfVoid(s)

\* No request leaves a settlement half void that was not.
LEMMA WholeStep == CreditInv /\ [Next]_vars => NoNewHalf
  <1> SUFFICES ASSUME CreditInv, [Next]_vars PROVE NoNewHalf
    OBVIOUS
  <1>0. TypeOK /\ RowsStay
    BY LedgerStep DEF CreditInv
  <1>1. CASE UNCHANGED <<settlement, line, ledger>>
    BY <1>0, <1>1, HalfStays DEF NoNewHalf
  <1>2. ASSUME NEW w \in Worker, NEW s \in Settlement, NEW e \in Entry, Settle(w, s, e)
        PROVE  NoNewHalf
    <2>1. ~HalfVoid(s)'
      BY <1>2, SettleEffect DEF HalfVoid
    <2>2. ASSUME NEW t \in Settlement, t # s PROVE HalfVoid(t)' => HalfVoid(t)
      <3>1. settlement'[t] = settlement[t]
        BY <1>2, <2>2, SettleEffect
      <3>2. \A r \in Record : line'[<<t, r>>] = line[<<t, r>>]
        BY <1>2, <2>2 DEF Settle
      <3>3. \A x \in Entry : Row(x)' /\ ~Row(x) => ledger'[x].settlement # t
        BY <1>2, <2>2 DEF Settle, Insert
      <3> QED
        BY <1>0, <3>1, <3>2, <3>3, HalfStays
    <2> QED
      BY <2>1, <2>2 DEF NoNewHalf
  <1>3. ASSUME NEW s \in Settlement, VoidLines(s), ReverseEarnings(s),
               \A t \in Settlement \ {s} : settlement'[t] = settlement[t]
        PROVE  NoNewHalf
    <2>1. ASSUME NEW t \in Settlement, t # s PROVE HalfVoid(t)' => HalfVoid(t)
      <3>1. \A r \in Record : line'[<<t, r>>] = line[<<t, r>>]
        BY <1>0, <1>3, <2>1, VoidLinesEffect
      <3>2. \A e \in Entry : Row(e)' /\ ~Row(e) => ledger'[e].kind = "reverso"
        BY <1>0, <1>3, ReverseEarningsEffect
      <3> QED
        BY <1>0, <1>3, <2>1, <3>1, <3>2, HalfStays
    <2> QED
      BY <1>0, <1>3, <2>1, NothingHalf DEF NoNewHalf
  <1>4. ASSUME NEW s \in Settlement, VoidSettlement(s) PROVE NoNewHalf
    <2>1. VoidLines(s) /\ ReverseEarnings(s)
      BY <1>4 DEF VoidSettlement
    <2> QED
      BY <1>0, <1>3, <1>4, <2>1, StatusEffect
  <1>5. ASSUME NEW s \in Settlement, NEW id \in Release, ReleaseSettlement(s, id)
        PROVE  NoNewHalf
    BY <1>3, <1>5 DEF ReleaseSettlement
  <1>6. ASSUME NEW e \in Entry, NEW w \in Worker,
               NEW kind \in Withdrawal \cup {"ajuste"},
               NEW amount \in SignedAmount(kind), NEW over \in BOOLEAN,
               AddLedgerEntry(e, w, kind, amount, over)
        PROVE  NoNewHalf
    <2>1. \A x \in Entry : Row(x)' /\ ~Row(x) => ledger'[x].kind # "devengo"
      BY <1>6 DEF AddLedgerEntry, Insert, Withdrawal
    <2>2. UNCHANGED <<settlement, line>>
      BY <1>6 DEF AddLedgerEntry
    <2> QED
      BY <1>0, <2>1, <2>2, HalfStays DEF NoNewHalf
  <1>7. ASSUME NEW e \in Entry, NEW id \in Entry, ReverseLedgerEntry(e, id)
        PROVE  NoNewHalf
    <2>1. \A x \in Entry : Row(x)' /\ ~Row(x) => ledger'[x].kind # "devengo"
      BY <1>7 DEF ReverseLedgerEntry, Insert, ReversalOf
    <2>2. UNCHANGED <<settlement, line>>
      BY <1>7 DEF ReverseLedgerEntry
    <2> QED
      BY <1>0, <2>1, <2>2, HalfStays DEF NoNewHalf
  <1> QED
    BY <1>1, <1>2, <1>4, <1>5, <1>6, <1>7
       DEF Next, vars, books, CreateWorkRecord, UpdateWorkRecord, SoftDeleteWorkRecord,
           SetWeekPrice, SettlementPreview

\* A void is whole, a release too: see VoidIsWhole.
THEOREM NoVoidStopsHalfway == Spec => VoidIsWhole
  <1>1. CreditInv /\ [Next]_vars => [NoNewHalf]_vars
    BY WholeStep
  <1> QED
    BY CreditInit, CreditStep, <1>1, PTL DEF Spec, VoidIsWhole, NoNewHalf

-----------------------------------------------------------------------------
(* Figures.                                                                *)
(*                                                                         *)
(* The sums of the model, over a table that is handed over, as sums of     *)
(* figures.                                                                *)
(***************************************************************************)
RowsOf(led) == {e \in Entry : led[e] # None}
Figures(led) == [e \in RowsOf(led) |-> led[e].amount]

LEMMA SumOfEntries ==
    ASSUME NEW led, NEW S, IsFiniteSet(S), S \subseteq RowsOf(led),
           \A e \in S : led[e].amount \in Int
    PROVE  MapThenSumSet(LAMBDA e : led[e].amount, S) = Total(Figures(led), S)
  <1> DEFINE v == Figures(led)
             Eq(f) == f = [s \in SUBSET S |->
                             IF s = {} THEN 0
                             ELSE led[CHOOSE x \in s : TRUE].amount
                                    + f[s \ {CHOOSE x \in s : TRUE}]]
  <1>1. MapThenSumSet(LAMBDA e : led[e].amount, S) = (CHOOSE f : Eq(f))[S]
    BY DEF MapThenSumSet, MapThenFoldSet
  <1>2. \A x \in S : v[x] = led[x].amount
    BY DEF Figures
  <1> HIDE DEF v
  <1>3. \A f : Eq(f) <=> AddsUp(f, v, S)
    <2>1. \A s \in SUBSET S : s # {} => Pick(s) \in S
      BY PickIn
    <2> QED
      BY <1>2, <2>1 DEF AddsUp, Pick
  <1>4. \E f : AddsUp(f, v, S)
    BY <1>2, AddingUpIsPossible
  <1> HIDE DEF Eq
  <1>5. AddsUp(CHOOSE f : Eq(f), v, S)
    BY <1>3, <1>4
  <1> QED
    BY <1>1, <1>5, OneTotal DEF v

\* The movements of a worker, those that cancel and are cancelled by nothing,
\* those that credit, and the guarded payments that stand.
Mine(led, w) == {e \in RowsOf(led) : led[e].worker = w}
Cancelled(led, e) == \E x \in RowsOf(led) : led[x].reverses = e
Standing(led, w) == {e \in Mine(led, w) : led[e].reverses = None /\ ~Cancelled(led, e)}
Credited(led, w) == {e \in Mine(led, w) : led[e].reverses = None /\ led[e].amount > 0}
Guarded(led, w) == {e \in Mine(led, w) : led[e].guarded /\ ~Cancelled(led, e)}

Sum(led, S) == Total(Figures(led), S)

LEMMA BalanceIs ==
    ASSUME TypeOK, IsFiniteSet(RowsOf(ledger)), NEW w
    PROVE  Balance(w) = Sum(ledger, Mine(ledger, w))
  <1> DEFINE S == {e \in Entry : Row(e) /\ ledger[e].worker = w}
  <1>1. S = Mine(ledger, w) /\ S \subseteq RowsOf(ledger)
    BY DEF Mine, RowsOf
  <1>2. IsFiniteSet(S)
    BY <1>1, FS_Subset
  <1>3. \A e \in S : ledger[e].amount \in Int
    BY DEF TypeOK, LedgerRow
  <1>4. Balance(w) = MapThenSumSet(LAMBDA e : ledger[e].amount, S)
    BY DEF Balance
  <1> HIDE DEF S
  <1>5. MapThenSumSet(LAMBDA e : ledger[e].amount, S) = Total(Figures(ledger), S)
    BY <1>1, <1>2, <1>3, SumOfEntries
  <1> QED
    BY <1>1, <1>4, <1>5 DEF Sum

PaidFits(led) ==
  \A w \in Worker : Sum(led, Credited(led, w)) + Sum(led, Guarded(led, w)) >= 0

LEMMA PaidOutOfEarnedIs ==
    ASSUME TypeOK, IsFiniteSet(RowsOf(ledger))
    PROVE  PaidOutOfEarned <=> PaidFits(ledger)
  <1>1. ASSUME NEW S, S \subseteq RowsOf(ledger)
        PROVE  MapThenSumSet(LAMBDA e : ledger[e].amount, S) = Sum(ledger, S)
    <2>1. IsFiniteSet(S)
      BY <1>1, FS_Subset
    <2>2. \A e \in S : ledger[e].amount \in Int
      BY <1>1 DEF TypeOK, LedgerRow, RowsOf
    <2> QED
      BY <1>1, <2>1, <2>2, SumOfEntries DEF Sum
  <1>2. ASSUME NEW w \in Worker
        PROVE  /\ {e \in Entry : Row(e) /\ ledger[e].worker = w} = Mine(ledger, w)
               /\ \A e : Reversed(e) <=> Cancelled(ledger, e)
               /\ Credited(ledger, w) \subseteq RowsOf(ledger)
               /\ Guarded(ledger, w) \subseteq RowsOf(ledger)
    BY DEF Mine, RowsOf, Reversed, Cancelled, Credited, Guarded
  <1>3. ASSUME NEW w \in Worker
        PROVE  LET mine == {e \in Entry : Row(e) /\ ledger[e].worker = w}
                   total(S) == MapThenSumSet(LAMBDA e : ledger[e].amount, S)
               IN  /\ total({e \in mine : ledger[e].reverses = None /\ ledger[e].amount > 0})
                        = Sum(ledger, Credited(ledger, w))
                   /\ total({e \in mine : ledger[e].guarded /\ ~Reversed(e)})
                        = Sum(ledger, Guarded(ledger, w))
    <2> DEFINE mine == {e \in Entry : Row(e) /\ ledger[e].worker = w}
    <2>1. {e \in mine : ledger[e].reverses = None /\ ledger[e].amount > 0} = Credited(ledger, w)
      BY <1>2 DEF Credited
    <2>2. {e \in mine : ledger[e].guarded /\ ~Reversed(e)} = Guarded(ledger, w)
      BY <1>2 DEF Guarded
    <2>3. MapThenSumSet(LAMBDA e : ledger[e].amount, Credited(ledger, w))
            = Sum(ledger, Credited(ledger, w))
      BY <1>1, <1>2
    <2>4. MapThenSumSet(LAMBDA e : ledger[e].amount, Guarded(ledger, w))
            = Sum(ledger, Guarded(ledger, w))
      BY <1>1, <1>2
    <2> QED
      BY <2>1, <2>2, <2>3, <2>4
  <1> QED
    BY <1>3 DEF PaidOutOfEarned, PaidFits

-----------------------------------------------------------------------------
(* Guarded payments. *)

\* What a movement that cancels has to do with the one it cancels.
CancelsOnce(led) ==
    \A x \in RowsOf(led), e \in Entry : led[x].reverses = e =>
        /\ e \in RowsOf(led)
        /\ led[e].reverses = None
        /\ led[x].amount = -led[e].amount
        /\ led[x].worker = led[e].worker
        /\ \A y \in RowsOf(led) : led[y].reverses = e => y = x

Ledger(led) ==
    /\ led \in [Entry -> LedgerRow \cup {None}]
    /\ IsFiniteSet(RowsOf(led))
    /\ \A e \in RowsOf(led) : led[e].guarded => led[e].reverses = None /\ led[e].amount < 0
    /\ CancelsOnce(led)

\* The balance is what stands: what was cancelled and what cancelled it are
\* nothing together.
BalanceStands(led) == \A w \in Worker : Sum(led, Mine(led, w)) = Sum(led, Standing(led, w))

MoneyInv == Ledger(ledger) /\ BalanceStands(ledger) /\ PaidFits(ledger)

\* The figures of a ledger are integers, and every part of it is finite.
LEMMA LedgerFigures ==
    ASSUME NEW led, Ledger(led)
    PROVE  /\ \A e \in RowsOf(led) : /\ e \in Entry /\ led[e] \in LedgerRow
                                     /\ Figures(led)[e] = led[e].amount
                                     /\ Figures(led)[e] \in Int
           /\ \A w : /\ Standing(led, w) \subseteq Mine(led, w)
                     /\ Credited(led, w) \subseteq Mine(led, w)
                     /\ Guarded(led, w) \subseteq Mine(led, w)
                     /\ Mine(led, w) \subseteq RowsOf(led)
           /\ \A S \in SUBSET RowsOf(led) : IsFiniteSet(S) /\ Sum(led, S) \in Int
  <1>1. \A e \in RowsOf(led) : /\ e \in Entry /\ led[e] \in LedgerRow
                               /\ Figures(led)[e] = led[e].amount
                               /\ Figures(led)[e] \in Int
    BY DEF Ledger, RowsOf, Figures, LedgerRow
  <1>2. \A w : /\ Standing(led, w) \subseteq Mine(led, w)
               /\ Credited(led, w) \subseteq Mine(led, w)
               /\ Guarded(led, w) \subseteq Mine(led, w)
               /\ Mine(led, w) \subseteq RowsOf(led)
    BY DEF Standing, Credited, Guarded, Mine
  <1>3. ASSUME NEW S \in SUBSET RowsOf(led)
        PROVE  IsFiniteSet(S) /\ Sum(led, S) \in Int
    <2>1. IsFiniteSet(S)
      BY FS_Subset DEF Ledger
    <2>2. \A e \in S : Figures(led)[e] \in Int
      BY <1>1
    <2> QED
      BY <2>1, <2>2, TotalStep DEF Sum
  <1> QED
    BY <1>1, <1>2, <1>3

\* What stands is no more than what was credited less the guarded payments that
\* stand: the rest of it is taken off.
LEMMA StandingFits ==
    ASSUME NEW led, Ledger(led), NEW w
    PROVE  Sum(led, Standing(led, w)) <= Sum(led, Credited(led, w)) + Sum(led, Guarded(led, w))
  <1> DEFINE M == Mine(led, w)
             v == Figures(led)
             part(S) == [x \in M |-> IF x \in S THEN v[x] ELSE 0]
             st == part(Standing(led, w))
             cr == part(Credited(led, w))
             gu == part(Guarded(led, w))
             both == [x \in M |-> cr[x] + gu[x]]
  <1>1. /\ IsFiniteSet(M)
        /\ \A x \in M : v[x] \in Int /\ v[x] = led[x].amount
        /\ \A S \in SUBSET M : IsFiniteSet(S) /\ \A x \in S : v[x] \in Int
    BY LedgerFigures
  <1>2. /\ Standing(led, w) \in SUBSET M
        /\ Credited(led, w) \in SUBSET M
        /\ Guarded(led, w) \in SUBSET M
    BY LedgerFigures
  <1>3. \A S \in SUBSET M : Total(v, S) = Total(part(S), M)
    BY <1>1, TotalOfChosen
  <1>4. \A x \in M : st[x] \in Int /\ cr[x] \in Int /\ gu[x] \in Int /\ both[x] = cr[x] + gu[x]
    BY <1>1
  <1>5. ASSUME NEW x \in M
        PROVE  st[x] <= both[x]
    <2>1. v[x] \in Int /\ v[x] = led[x].amount /\ x \in RowsOf(led)
      BY <1>1, LedgerFigures
    <2>2. /\ x \in Standing(led, w) <=> led[x].reverses = None /\ ~Cancelled(led, x)
          /\ x \in Credited(led, w) <=> led[x].reverses = None /\ led[x].amount > 0
          /\ x \in Guarded(led, w) <=> led[x].guarded /\ ~Cancelled(led, x)
      BY DEF Standing, Credited, Guarded
    <2>3. led[x].guarded => led[x].reverses = None /\ led[x].amount < 0
      BY <2>1 DEF Ledger
    <2>4. /\ st[x] = IF led[x].reverses = None /\ ~Cancelled(led, x) THEN v[x] ELSE 0
          /\ both[x] = (IF led[x].reverses = None /\ v[x] > 0 THEN v[x] ELSE 0)
                         + (IF led[x].guarded /\ ~Cancelled(led, x) THEN v[x] ELSE 0)
      BY <2>1, <2>2
    <2> HIDE DEF M, v, st, cr, gu, both, part
    <2> QED
      BY <2>1, <2>3, <2>4
  <1> HIDE DEF part, both, v, M
  <1>6. Total(st, M) <= Total(both, M)
    <2>1. \A x \in M : both[x] \in Int
      BY <1>4
    <2> QED
      BY <1>1, <1>4, <1>5, <2>1, TotalCompared
  <1>7. Total(both, M) = Total(cr, M) + Total(gu, M)
    BY <1>1, <1>4, TotalOfBoth
  <1>8. /\ Total(v, Standing(led, w)) = Total(st, M)
        /\ Total(v, Credited(led, w)) = Total(cr, M)
        /\ Total(v, Guarded(led, w)) = Total(gu, M)
    BY <1>2, <1>3
  <1> QED
    BY <1>6, <1>7, <1>8 DEF Sum, v

\* A row is written under an id that has none.
Writes(led, new, n, row) ==
    /\ n \in Entry /\ n \notin RowsOf(led)
    /\ row \in LedgerRow
    /\ new = [led EXCEPT ![n] = row]

LEMMA WritesOne ==
    ASSUME NEW led, Ledger(led), NEW new, NEW n, NEW row, Writes(led, new, n, row)
    PROVE  /\ new \in [Entry -> LedgerRow \cup {None}]
           /\ RowsOf(new) = RowsOf(led) \cup {n} /\ n \notin RowsOf(led)
           /\ IsFiniteSet(RowsOf(new))
           /\ new[n] = row /\ \A e \in RowsOf(led) : new[e] = led[e]
           /\ Figures(new)[n] = row.amount /\ row.amount \in Int
           /\ \A e \in RowsOf(led) : Figures(new)[e] = Figures(led)[e]
  <1>1. row # None
    BY NoneAssumption DEF Writes
  <1>2. led \in [Entry -> LedgerRow \cup {None}] /\ IsFiniteSet(RowsOf(led))
    BY DEF Ledger
  <1>3. new[n] = row /\ \A e \in Entry : e # n => new[e] = led[e]
    BY <1>2 DEF Writes
  <1>4. RowsOf(new) = RowsOf(led) \cup {n} /\ n \notin RowsOf(led)
    BY <1>1, <1>3 DEF RowsOf, Writes
  <1>5. IsFiniteSet(RowsOf(new))
    BY <1>2, <1>4, FS_AddElement
  <1>6. new \in [Entry -> LedgerRow \cup {None}]
    BY <1>2 DEF Writes
  <1>7. row.amount \in Int
    BY DEF Writes, LedgerRow
  <1>8. \A e \in RowsOf(led) : new[e] = led[e]
    BY <1>3, <1>4 DEF RowsOf
  <1> QED
    BY <1>3, <1>4, <1>5, <1>6, <1>7, <1>8 DEF Figures

\* A part that has the row, or has not, or loses another.
LEMMA SumWithRow ==
    ASSUME NEW led, Ledger(led), NEW new, NEW n, NEW row, Writes(led, new, n, row)
    PROVE  \A S \in SUBSET RowsOf(led) :
              /\ Sum(new, S) = Sum(led, S)
              /\ Sum(new, S \cup {n}) = Sum(led, S) + row.amount
              /\ \A e \in S : Sum(new, S \ {e}) = Sum(led, S) - led[e].amount
              /\ Sum(led, S) \in Int
  <1> TAKE S \in SUBSET RowsOf(led)
  <1> DEFINE v == Figures(led)
             u == Figures(new)
  <1>1. /\ IsFiniteSet(S) /\ n \notin S
        /\ \A x \in S : v[x] \in Int /\ v[x] = led[x].amount /\ u[x] = v[x]
        /\ u[n] = row.amount /\ row.amount \in Int
        /\ Total(v, S) \in Int
    BY LedgerFigures, WritesOne DEF Sum
  <1> HIDE DEF v, u
  <1>2. Total(u, S) = Total(v, S)
    BY <1>1, TotalSame
  <1>3. Total(u, S \cup {n}) = Total(v, S) + row.amount
    <2>1. IsFiniteSet(S) /\ n \notin S /\ u[n] \in Int
      BY <1>1
    <2>2. \A x \in S : v[x] \in Int
      BY <1>1
    <2>3. \A x \in S : u[x] = v[x]
      BY <1>1
    <2>4. Total(u, S \cup {n}) = Total(v, S) + u[n]
      BY <2>1, <2>2, <2>3, TotalGrows
    <2> QED
      BY <1>1, <2>4
  <1>4. ASSUME NEW e \in S
        PROVE  Total(u, S \ {e}) = Total(v, S) - led[e].amount
    BY <1>1, TotalShrinks
  <1> QED
    BY <1>1, <1>2, <1>3, <1>4 DEF Sum, u, v

\* A movement that cancels nothing, guarded or not.
LEMMA PlainRow ==
    ASSUME NEW led, Ledger(led), BalanceStands(led), PaidFits(led),
           NEW new, NEW n, NEW row, Writes(led, new, n, row), row.reverses = None,
           row.guarded => row.amount < 0 /\ -row.amount <= Sum(led, Mine(led, row.worker))
    PROVE  Ledger(new) /\ BalanceStands(new) /\ PaidFits(new)
  <1>1. /\ RowsOf(new) = RowsOf(led) \cup {n} /\ n \notin RowsOf(led)
        /\ new[n] = row /\ \A e \in RowsOf(led) : new[e] = led[e]
    BY WritesOne
  <1>2. \A e \in Entry : Cancelled(new, e) <=> Cancelled(led, e)
    BY <1>1, NoneAssumption DEF Cancelled
  <1>3. ~Cancelled(led, n)
    BY DEF Cancelled, Ledger, CancelsOnce, Writes
  <1>4. Ledger(new)
    <2>1. CancelsOnce(new)
      <3> SUFFICES ASSUME NEW x \in RowsOf(new), NEW e \in Entry, new[x].reverses = e
                   PROVE  /\ e \in RowsOf(new)
                          /\ new[e].reverses = None
                          /\ new[x].amount = -new[e].amount
                          /\ new[x].worker = new[e].worker
                          /\ \A y \in RowsOf(new) : new[y].reverses = e => y = x
        BY DEF CancelsOnce
      <3>1. x \in RowsOf(led) /\ led[x].reverses = e
        BY <1>1, NoneAssumption
      <3>2. /\ e \in RowsOf(led)
            /\ led[e].reverses = None
            /\ led[x].amount = -led[e].amount
            /\ led[x].worker = led[e].worker
            /\ \A y \in RowsOf(led) : led[y].reverses = e => y = x
        BY <3>1 DEF Ledger, CancelsOnce
      <3>3. \A y \in RowsOf(new) : new[y].reverses = e => y \in RowsOf(led)
        BY <1>1, NoneAssumption
      <3> QED
        BY <1>1, <3>1, <3>2, <3>3
    <2>2. \A x \in RowsOf(new) : new[x].guarded => new[x].reverses = None /\ new[x].amount < 0
      BY <1>1 DEF Ledger
    <2> QED
      BY <2>1, <2>2, WritesOne DEF Ledger
  <1>5. \A w : Mine(new, w) = IF row.worker = w THEN Mine(led, w) \cup {n} ELSE Mine(led, w)
    BY <1>1 DEF Mine
  <1>6. \A w : Standing(new, w) = IF row.worker = w THEN Standing(led, w) \cup {n}
                                                    ELSE Standing(led, w)
    BY <1>1, <1>2, <1>3, <1>5 DEF Standing, Mine, RowsOf
  <1>7. \A w : Credited(new, w) = IF row.worker = w /\ row.amount > 0
                                    THEN Credited(led, w) \cup {n} ELSE Credited(led, w)
    BY <1>1, <1>5 DEF Credited, Mine
  <1>8. \A w : Guarded(new, w) = IF row.worker = w /\ row.guarded
                                   THEN Guarded(led, w) \cup {n} ELSE Guarded(led, w)
    BY <1>1, <1>2, <1>3, <1>5 DEF Guarded, Mine, RowsOf
  <1>9. \A S \in SUBSET RowsOf(led) :
           /\ Sum(new, S) = Sum(led, S)
           /\ Sum(new, S \cup {n}) = Sum(led, S) + row.amount
           /\ \A e \in S : Sum(new, S \ {e}) = Sum(led, S) - led[e].amount
           /\ Sum(led, S) \in Int
    BY SumWithRow
  <1>10. \A w : /\ Mine(led, w) \in SUBSET RowsOf(led)
                /\ Standing(led, w) \in SUBSET RowsOf(led)
                /\ Credited(led, w) \in SUBSET RowsOf(led)
                /\ Guarded(led, w) \in SUBSET RowsOf(led)
    BY LedgerFigures
  <1>11. BalanceStands(new)
    <2> SUFFICES ASSUME NEW w \in Worker
                 PROVE  Sum(new, Mine(new, w)) = Sum(new, Standing(new, w))
      BY DEF BalanceStands
    <2>1. Sum(led, Mine(led, w)) = Sum(led, Standing(led, w))
      BY DEF BalanceStands
    <2>2. CASE row.worker = w
      <3>1. /\ Sum(new, Mine(led, w) \cup {n}) = Sum(led, Mine(led, w)) + row.amount
            /\ Sum(new, Standing(led, w) \cup {n}) = Sum(led, Standing(led, w)) + row.amount
        BY <1>9, <1>10
      <3> QED
        BY <1>5, <1>6, <2>1, <2>2, <3>1
    <2>3. CASE row.worker # w
      <3>1. Mine(new, w) = Mine(led, w) /\ Standing(new, w) = Standing(led, w)
        BY <1>5, <1>6, <2>3
      <3> QED
        BY <1>9, <1>10, <2>1, <3>1
    <2> QED
      BY <2>2, <2>3
  <1>12. PaidFits(new)
    <2> SUFFICES ASSUME NEW w \in Worker
                 PROVE  Sum(new, Credited(new, w)) + Sum(new, Guarded(new, w)) >= 0
      BY DEF PaidFits
    <2> DEFINE C == Sum(led, Credited(led, w))
               G == Sum(led, Guarded(led, w))
               B == Sum(led, Mine(led, w))
    <2>1. C \in Int /\ G \in Int /\ B \in Int /\ C + G >= 0 /\ B <= C + G /\ row.amount \in Int
      <3>1. B <= C + G
        BY StandingFits DEF BalanceStands
      <3> QED
        BY <1>9, <1>10, <3>1, WritesOne DEF PaidFits
    <2>2. Sum(new, Credited(new, w)) = IF row.worker = w /\ row.amount > 0
                                         THEN C + row.amount ELSE C
      BY <1>7, <1>9, <1>10
    <2>3. Sum(new, Guarded(new, w)) = IF row.worker = w /\ row.guarded THEN G + row.amount ELSE G
      BY <1>8, <1>9, <1>10
    <2>4. row.worker = w /\ row.guarded => row.amount < 0 /\ -row.amount <= B
      OBVIOUS
    <2> HIDE DEF C, G, B
    <2> QED
      BY <2>1, <2>2, <2>3, <2>4
  <1> QED
    BY <1>4, <1>11, <1>12

\* The opposite of a movement that stands.
LEMMA OppositeRow ==
    ASSUME NEW led, Ledger(led), BalanceStands(led), PaidFits(led),
           NEW new, NEW n, NEW row, Writes(led, new, n, row),
           NEW e \in RowsOf(led), led[e].reverses = None, ~Cancelled(led, e),
           row.reverses = e, row.amount = -led[e].amount, row.worker = led[e].worker,
           ~row.guarded
    PROVE  Ledger(new) /\ BalanceStands(new) /\ PaidFits(new)
  <1>0. e # None /\ e \in Entry /\ n # e
    BY NoneAssumption DEF RowsOf, Writes
  <1>1. /\ RowsOf(new) = RowsOf(led) \cup {n} /\ n \notin RowsOf(led)
        /\ new[n] = row /\ \A x \in RowsOf(led) : new[x] = led[x]
    BY WritesOne
  <1>2. \A x : Cancelled(new, x) <=> Cancelled(led, x) \/ x = e
    BY <1>1 DEF Cancelled
  <1>3. Ledger(new)
    <2>1. CancelsOnce(new)
      <3> SUFFICES ASSUME NEW x \in RowsOf(new), NEW f \in Entry, new[x].reverses = f
                   PROVE  /\ f \in RowsOf(new)
                          /\ new[f].reverses = None
                          /\ new[x].amount = -new[f].amount
                          /\ new[x].worker = new[f].worker
                          /\ \A y \in RowsOf(new) : new[y].reverses = f => y = x
        BY DEF CancelsOnce
      <3>1. CASE x = n
        BY <1>0, <1>1, <3>1 DEF Cancelled
      <3>2. CASE x # n
        <4>1. x \in RowsOf(led) /\ led[x].reverses = f /\ f # e
          BY <1>1, <3>2 DEF Cancelled
        <4>2. /\ f \in RowsOf(led)
              /\ led[f].reverses = None
              /\ led[x].amount = -led[f].amount
              /\ led[x].worker = led[f].worker
              /\ \A y \in RowsOf(led) : led[y].reverses = f => y = x
          BY <4>1 DEF Ledger, CancelsOnce
        <4>3. \A y \in RowsOf(new) : new[y].reverses = f => y \in RowsOf(led)
          BY <1>1, <4>1
        <4> QED
          BY <1>1, <4>1, <4>2, <4>3
      <3> QED
        BY <3>1, <3>2
    <2>2. \A x \in RowsOf(new) : new[x].guarded => new[x].reverses = None /\ new[x].amount < 0
      BY <1>1 DEF Ledger
    <2> QED
      BY <2>1, <2>2, WritesOne DEF Ledger
  <1>4. \A w : Mine(new, w) = IF row.worker = w THEN Mine(led, w) \cup {n} ELSE Mine(led, w)
    BY <1>1 DEF Mine
  <1>5. \A w : Standing(new, w) = IF row.worker = w THEN Standing(led, w) \ {e}
                                                    ELSE Standing(led, w)
    BY <1>0, <1>1, <1>2, <1>4 DEF Standing, Mine
  <1>6. \A w : Credited(new, w) = Credited(led, w)
    BY <1>0, <1>1, <1>4 DEF Credited, Mine
  <1>7. \A w : Guarded(new, w) = Guarded(led, w) \ {e}
    BY <1>0, <1>1, <1>2, <1>4 DEF Guarded, Mine
  <1>8. \A S \in SUBSET RowsOf(led) :
           /\ Sum(new, S) = Sum(led, S)
           /\ Sum(new, S \cup {n}) = Sum(led, S) + row.amount
           /\ \A x \in S : Sum(new, S \ {x}) = Sum(led, S) - led[x].amount
           /\ Sum(led, S) \in Int
    BY SumWithRow
  <1>9. \A w : /\ Mine(led, w) \in SUBSET RowsOf(led)
               /\ Standing(led, w) \in SUBSET RowsOf(led)
               /\ Credited(led, w) \in SUBSET RowsOf(led)
               /\ Guarded(led, w) \in SUBSET RowsOf(led)
    BY LedgerFigures
  <1>10. led[e].amount \in Int
    BY LedgerFigures
  <1>11. e \in Standing(led, row.worker)
    BY DEF Standing, Mine
  <1>12. BalanceStands(new)
    <2> SUFFICES ASSUME NEW w \in Worker
                 PROVE  Sum(new, Mine(new, w)) = Sum(new, Standing(new, w))
      BY DEF BalanceStands
    <2>1. Sum(led, Mine(led, w)) = Sum(led, Standing(led, w))
      BY DEF BalanceStands
    <2>2. CASE row.worker = w
      <3>1. Sum(new, Mine(new, w)) = Sum(led, Mine(led, w)) + row.amount
        BY <1>4, <1>8, <1>9, <2>2
      <3>2. Sum(new, Standing(new, w)) = Sum(led, Standing(led, w)) - led[e].amount
        BY <1>5, <1>8, <1>9, <1>11, <2>2
      <3>3. Sum(led, Mine(led, w)) \in Int
        BY <1>8, <1>9
      <3> QED
        BY <1>10, <2>1, <3>1, <3>2, <3>3
    <2>3. CASE row.worker # w
      <3>1. Mine(new, w) = Mine(led, w) /\ Standing(new, w) = Standing(led, w)
        BY <1>4, <1>5, <2>3
      <3> QED
        BY <1>8, <1>9, <2>1, <3>1
    <2> QED
      BY <2>2, <2>3
  <1>13. PaidFits(new)
    <2> SUFFICES ASSUME NEW w \in Worker
                 PROVE  Sum(new, Credited(new, w)) + Sum(new, Guarded(new, w)) >= 0
      BY DEF PaidFits
    <2>1. Sum(new, Credited(new, w)) = Sum(led, Credited(led, w))
      BY <1>6, <1>8, <1>9
    <2>2. Sum(led, Credited(led, w)) + Sum(led, Guarded(led, w)) >= 0
      BY DEF PaidFits
    <2>3. Sum(led, Credited(led, w)) \in Int /\ Sum(led, Guarded(led, w)) \in Int
      BY <1>8, <1>9
    <2>4. CASE e \in Guarded(led, w)
      <3>1. Sum(new, Guarded(new, w)) = Sum(led, Guarded(led, w)) - led[e].amount
        BY <1>7, <1>8, <1>9, <2>4
      <3>2. led[e].amount < 0
        BY <2>4 DEF Guarded, Mine, Ledger
      <3> QED
        BY <1>10, <2>1, <2>2, <2>3, <3>1, <3>2
    <2>5. CASE e \notin Guarded(led, w)
      <3>1. Guarded(new, w) = Guarded(led, w)
        BY <1>7, <2>5
      <3> QED
        BY <1>8, <1>9, <2>1, <2>2, <3>1
    <2> QED
      BY <2>4, <2>5
  <1> QED
    BY <1>3, <1>12, <1>13

\* A ledger nothing was written to.
LEMMA NothingWritten ==
    ASSUME NEW led, led = [x \in Entry |-> None]
    PROVE  Ledger(led) /\ BalanceStands(led) /\ PaidFits(led)
  <1>1. RowsOf(led) = {}
    BY DEF RowsOf
  <1>2. IsFiniteSet(RowsOf(led))
    BY <1>1, FS_EmptySet
  <1>3. Ledger(led)
    BY <1>1, <1>2 DEF Ledger, CancelsOnce
  <1>4. \A w : /\ Mine(led, w) = {} /\ Standing(led, w) = {}
               /\ Credited(led, w) = {} /\ Guarded(led, w) = {}
    BY <1>1 DEF Mine, Standing, Credited, Guarded
  <1>5. Sum(led, {}) = 0
    BY FS_EmptySet, TotalStep DEF Sum
  <1> QED
    BY <1>3, <1>4, <1>5 DEF BalanceStands, PaidFits

\* One row inserted is one row written.
LEMMA InsertWrites ==
    ASSUME TypeOK, NEW e \in Unused, NEW row \in LedgerRow, Insert([x \in {e} |-> row])
    PROVE  Writes(ledger, ledger', e, row)
  <1>1. ledger' = [x \in Entry |-> IF x \in {e} THEN row ELSE ledger[x]]
    BY DEF Insert
  <1>2. e \in Entry /\ ledger[e] = None
    BY DEF Unused
  <1>3. ledger' = [ledger EXCEPT ![e] = row]
    BY <1>1 DEF TypeOK
  <1> QED
    BY <1>2, <1>3 DEF Writes, RowsOf

\* A movement that stands is cancelled by its opposite.
LEMMA MoneyReversed ==
    ASSUME TrailInv, MoneyInv, NEW e \in Entry, Cancellable(e),
           NEW id \in Unused, Insert([x \in {id} |-> ReversalOf(e)])
    PROVE  MoneyInv'
  <1>1. TypeOK /\ Row(e) /\ e \in RowsOf(ledger)
    BY DEF TrailInv, Cancellable, RowsOf
  <1>2. ReversalOf(e) \in LedgerRow
    BY <1>1, ReversalOfType
  <1>3. Writes(ledger, ledger', id, ReversalOf(e))
    BY <1>1, <1>2, InsertWrites
  <1>4. ledger[e].reverses = None /\ ~Cancelled(ledger, e)
    BY DEF TrailInv, ReversalsAreMarked, Cancellable, Reversed, Cancelled, RowsOf
  <1>5. /\ ReversalOf(e).reverses = e
        /\ ReversalOf(e).amount = -ledger[e].amount
        /\ ReversalOf(e).worker = ledger[e].worker
        /\ ~ReversalOf(e).guarded
    BY DEF ReversalOf
  <1>6. Ledger(ledger) /\ BalanceStands(ledger) /\ PaidFits(ledger)
    BY DEF MoneyInv
  <1> DEFINE row == ReversalOf(e)
  <1>7. /\ Writes(ledger, ledger', id, row)
        /\ row.reverses = e /\ row.amount = -ledger[e].amount
        /\ row.worker = ledger[e].worker /\ ~row.guarded
    BY <1>3, <1>5
  <1> HIDE DEF row
  <1>8. Ledger(ledger') /\ BalanceStands(ledger') /\ PaidFits(ledger')
    BY <1>1, <1>4, <1>6, <1>7, OppositeRow
  <1> QED
    BY <1>8 DEF MoneyInv

\* A void or a release takes back at most one movement.
LEMMA MoneyTakenBack ==
    ASSUME TrailInv, MoneyInv, OneDevengo, NEW s \in Settlement, ReverseEarnings(s)
    PROVE  MoneyInv'
  <1>1. PICK ids \in SUBSET Unused : \E of \in [ids -> LiveDevengos(s)] :
           /\ \A e \in LiveDevengos(s) : \E x \in ids : of[x] = e
           /\ \A x, y \in ids : of[x] = of[y] => x = y
           /\ Insert([x \in ids |-> ReversalOf(of[x])])
    BY DEF ReverseEarnings
  <1>2. PICK of \in [ids -> LiveDevengos(s)] :
           /\ \A x, y \in ids : of[x] = of[y] => x = y
           /\ Insert([x \in ids |-> ReversalOf(of[x])])
    BY <1>1
  <1>3. \A e, f \in LiveDevengos(s) : e = f
    BY DEF OneDevengo, LiveDevengos
  <1>4. \A e \in LiveDevengos(s) : e \in Entry /\ Cancellable(e)
    BY DEF LiveDevengos, Cancellable
  <1>5. CASE ids = {}
    <2>1. ledger' = [x \in Entry |-> ledger[x]]
      BY <1>2, <1>5 DEF Insert
    <2>2. ledger \in [Entry -> LedgerRow \cup {None}]
      BY DEF TrailInv, TypeOK
    <2>3. ledger' = ledger
      BY <2>1, <2>2
    <2> QED
      BY <2>3 DEF MoneyInv
  <1>6. CASE ids # {}
    <2>1. PICK id : id \in ids
      BY <1>6
    <2>2. of[id] \in LiveDevengos(s) /\ id \in Unused
      BY <2>1
    <2>3. \A x \in ids : x = id
      BY <1>2, <1>3, <2>1
    <2>4. ids = {id}
      BY <2>1, <2>3
    <2>5. [x \in ids |-> ReversalOf(of[x])] = [x \in {id} |-> ReversalOf(of[id])]
      BY <2>4
    <2>6. Insert([x \in {id} |-> ReversalOf(of[id])])
      BY <1>2, <2>5
    <2> QED
      BY <1>4, <2>2, <2>6, MoneyReversed
  <1> QED
    BY <1>5, <1>6

\* Every request keeps what was paid within what was earned.
LEMMA MoneyStep ==
    ASSUME CreditInv, TrailInv, MoneyInv, [Next]_vars
    PROVE  MoneyInv'
  <1>0. TypeOK /\ OneDevengo
    BY DEF CreditInv
  <1>1. CASE UNCHANGED ledger
    BY <1>1 DEF MoneyInv
  <1>2. ASSUME NEW w \in Worker, NEW s \in Settlement, NEW e \in Entry, Settle(w, s, e)
        PROVE  MoneyInv'
    <2> DEFINE row == [worker |-> w, kind |-> "devengo",
                       amount |-> Gross(Pending(w, shown[w].scope)),
                       settlement |-> s, reverses |-> None, guarded |-> FALSE]
    <2>1. e \in Unused /\ Insert([x \in {e} |-> row])
      BY <1>2 DEF Settle
    <2>2. row \in LedgerRow
      BY <1>0, <1>2, TakenIsPriced DEF LedgerRow, Kind, Withdrawal
    <2>3. row.reverses = None /\ ~row.guarded
      OBVIOUS
    <2> HIDE DEF row
    <2>4. Writes(ledger, ledger', e, row)
      BY <1>0, <2>1, <2>2, InsertWrites
    <2>5. Ledger(ledger') /\ BalanceStands(ledger') /\ PaidFits(ledger')
      BY <2>3, <2>4, PlainRow DEF MoneyInv
    <2> QED
      BY <2>5 DEF MoneyInv
  <1>3. ASSUME NEW e \in Entry, NEW w \in Worker,
               NEW kind \in Withdrawal \cup {"ajuste"},
               NEW amount \in SignedAmount(kind), NEW over \in BOOLEAN,
               AddLedgerEntry(e, w, kind, amount, over)
        PROVE  MoneyInv'
    <2> DEFINE guarded == kind = "pago" /\ ~over
               row == [worker |-> w, kind |-> kind, amount |-> amount,
                       settlement |-> None, reverses |-> None, guarded |-> guarded]
    <2>1. e \in Unused /\ Insert([x \in {e} |-> row]) /\ (guarded => -amount <= Balance(w))
      BY <1>3 DEF AddLedgerEntry
    <2>2. amount \in Int /\ (guarded => amount < 0)
      <3>1. \A a \in Amount : a \in Int /\ -a \in Int /\ -a < 0
        BY AmountAssumption
      <3>2. amount \in Amount \/ \E a \in Amount : amount = -a
        BY DEF SignedAmount
      <3>3. guarded => \E a \in Amount : amount = -a
        BY DEF SignedAmount, Withdrawal
      <3> QED
        BY <3>1, <3>2, <3>3
    <2>3. row \in LedgerRow
      BY <2>2 DEF LedgerRow, Kind, Withdrawal
    <2>4. Balance(w) = Sum(ledger, Mine(ledger, w))
      BY <1>0, BalanceIs DEF MoneyInv, Ledger
    <2>5. /\ row.reverses = None
          /\ row.guarded => row.amount < 0 /\ -row.amount <= Sum(ledger, Mine(ledger, row.worker))
      BY <2>1, <2>2, <2>4
    <2> HIDE DEF row, guarded
    <2>6. Writes(ledger, ledger', e, row)
      BY <1>0, <2>1, <2>3, InsertWrites
    <2>7. Ledger(ledger') /\ BalanceStands(ledger') /\ PaidFits(ledger')
      BY <2>5, <2>6, PlainRow DEF MoneyInv
    <2> QED
      BY <2>7 DEF MoneyInv
  <1>4. ASSUME NEW e \in Entry, NEW id \in Entry, ReverseLedgerEntry(e, id)
        PROVE  MoneyInv'
    <2>1. Cancellable(e) /\ id \in Unused /\ Insert([x \in {id} |-> ReversalOf(e)])
      BY <1>4 DEF ReverseLedgerEntry, Cancellable
    <2> QED
      BY <2>1, MoneyReversed
  <1>5. ASSUME NEW s \in Settlement, VoidSettlement(s) PROVE MoneyInv'
    BY <1>0, <1>5, MoneyTakenBack DEF VoidSettlement
  <1>6. ASSUME NEW s \in Settlement, NEW id \in Release, ReleaseSettlement(s, id)
        PROVE  MoneyInv'
    BY <1>0, <1>6, MoneyTakenBack DEF ReleaseSettlement
  <1> QED
    BY <1>1, <1>2, <1>3, <1>4, <1>5, <1>6
       DEF Next, vars, books, CreateWorkRecord, UpdateWorkRecord, SoftDeleteWorkRecord,
           SetWeekPrice, SettlementPreview

\* Empty books and half-voided ones paid nothing.
LEMMA MoneyInit == Init => MoneyInv
  <1> SUFFICES ASSUME Init PROVE MoneyInv
    OBVIOUS
  <1>1. CASE NoBooks
    BY <1>1, NothingWritten DEF NoBooks, MoneyInv
  <1>2. CASE HalfVoided
    <2>1. PICK w \in Worker, r \in Record, s \in Settlement, e \in Entry,
               q \in Quantity, p \in Price : HalfVoidedBooks(w, r, s, e, q, p)
      BY <1>2 DEF HalfVoided
    <2> DEFINE row == [worker |-> w, kind |-> "devengo", amount |-> q * p,
                       settlement |-> s, reverses |-> None, guarded |-> FALSE]
               led == [x \in Entry |-> None]
    <2>2. ledger = [x \in Entry |-> IF x = e THEN row ELSE None]
      BY <2>1 DEF HalfVoidedBooks
    <2>3. q * p \in Int
      BY AmountIsInt
    <2>4. row \in LedgerRow /\ row.reverses = None /\ ~row.guarded
      BY <2>3 DEF LedgerRow, Kind, Withdrawal
    <2> HIDE DEF row
    <2>5. Writes(led, ledger, e, row)
      BY <2>2, <2>4 DEF Writes, RowsOf
    <2>6. Ledger(led) /\ BalanceStands(led) /\ PaidFits(led)
      BY NothingWritten
    <2> HIDE DEF led
    <2> QED
      BY <2>4, <2>5, <2>6, PlainRow DEF MoneyInv
  <1> QED
    BY <1>1, <1>2 DEF Init

\* The guarded payments that stand never add up to more than the worker was ever
\* credited: see PaidOutOfEarned.
THEOREM NobodyIsOverpaid == Spec => []PaidOutOfEarned
  <1> DEFINE I == CreditInv /\ TrailInv /\ MoneyInv
  <1>1. Init => I
    BY CreditInit, TrailInit, MoneyInit
  <1>2. I /\ [Next]_vars => I'
    BY CreditStep, TypeStep, LedgerStep, TrailKept, MoneyStep DEF TrailInv
  <1>3. I => PaidOutOfEarned
    <2> SUFFICES ASSUME CreditInv, MoneyInv PROVE PaidOutOfEarned
      OBVIOUS
    <2>1. TypeOK /\ IsFiniteSet(RowsOf(ledger)) /\ PaidFits(ledger)
      BY DEF CreditInv, MoneyInv, Ledger
    <2> QED
      BY <2>1, PaidOutOfEarnedIs
  <1> QED
    BY <1>1, <1>2, <1>3, PTL DEF Spec

-----------------------------------------------------------------------------
(* A devengo is its lines. *)

Written == {r \in Record : record[r] # None}

LinesOf(items, s) == {r \in Record : items[<<s, r>>] # None}
Amounts(items, s) == [r \in LinesOf(items, s) |-> items[<<s, r>>].amount]
Worth(items, s) == Total(Amounts(items, s), LinesOf(items, s))

\* Lines are of records that were written, a settlement is worth its lines, and
\* a devengo is what its settlement says.
LinesInv ==
    /\ IsFiniteSet(Written)
    /\ \A s \in Settlement, r \in Record : line[<<s, r>>] # None => record[r] # None
    /\ \A s \in Settlement : settlement[s] # None => settlement[s].gross = Worth(line, s)
    /\ \A e \in Entry : Row(e) /\ ledger[e].kind = "devengo" =>
          /\ settlement[ledger[e].settlement] # None
          /\ ledger[e].worker = settlement[ledger[e].settlement].worker
          /\ ledger[e].amount = settlement[ledger[e].settlement].gross

\* The sum of the lines of a settlement.
LEMMA SumOfLines ==
    ASSUME TypeOK, NEW s \in Settlement, IsFiniteSet(LinesOf(line, s))
    PROVE  MapThenSumSet(LAMBDA r : line[<<s, r>>].amount,
                         {r \in Record : line[<<s, r>>] # None}) = Worth(line, s)
  <1> DEFINE S == LinesOf(line, s)
             v == Amounts(line, s)
             Eq(f) == f = [t \in SUBSET S |->
                             IF t = {} THEN 0
                             ELSE line[<<s, CHOOSE x \in t : TRUE>>].amount
                                    + f[t \ {CHOOSE x \in t : TRUE}]]
  <1>0. S = {r \in Record : line[<<s, r>>] # None}
    BY DEF LinesOf
  <1>1. MapThenSumSet(LAMBDA r : line[<<s, r>>].amount, S) = (CHOOSE f : Eq(f))[S]
    BY DEF MapThenSumSet, MapThenFoldSet
  <1>2. \A x \in S : v[x] = line[<<s, x>>].amount /\ v[x] \in Int
    <2>1. \A x \in S : v[x] = line[<<s, x>>].amount
      BY DEF Amounts
    <2>2. \A x \in S : line[<<s, x>>] \in LineRow
      BY <1>0 DEF TypeOK
    <2> QED
      BY <2>1, <2>2 DEF LineRow
  <1>3. IsFiniteSet(S)
    OBVIOUS
  <1> HIDE DEF v, S
  <1>4. \A f : Eq(f) <=> AddsUp(f, v, S)
    <2>1. \A t \in SUBSET S : t # {} => Pick(t) \in S
      BY PickIn
    <2> QED
      BY <1>2, <2>1 DEF AddsUp, Pick
  <1>5. \E f : AddsUp(f, v, S)
    BY <1>2, <1>3, AddingUpIsPossible
  <1> HIDE DEF Eq
  <1>6. AddsUp(CHOOSE f : Eq(f), v, S)
    BY <1>4, <1>5
  <1>7. (CHOOSE f : Eq(f))[S] = Total(v, S)
    BY <1>3, <1>6, OneTotal
  <1> QED
    BY <1>0, <1>1, <1>7 DEF Worth, v, S

\* The total of what is about to be settled.
LEMMA SumOfTaken ==
    ASSUME NEW S, IsFiniteSet(S), \A r \in S : AmountOf(r) \in Int
    PROVE  Gross(S) = Total([r \in S |-> AmountOf(r)], S)
  <1> DEFINE v == [r \in S |-> AmountOf(r)]
             Eq(f) == f = [t \in SUBSET S |->
                             IF t = {} THEN 0
                             ELSE AmountOf(CHOOSE x \in t : TRUE)
                                    + f[t \ {CHOOSE x \in t : TRUE}]]
  <1>1. Gross(S) = (CHOOSE f : Eq(f))[S]
    BY DEF Gross, MapThenSumSet, MapThenFoldSet
  <1>2. \A x \in S : v[x] = AmountOf(x) /\ v[x] \in Int
    OBVIOUS
  <1> HIDE DEF v
  <1>3. \A f : Eq(f) <=> AddsUp(f, v, S)
    <2>1. \A t \in SUBSET S : t # {} => Pick(t) \in S
      BY PickIn
    <2> QED
      BY <1>2, <2>1 DEF AddsUp, Pick
  <1>4. \E f : AddsUp(f, v, S)
    BY <1>2, AddingUpIsPossible
  <1> HIDE DEF Eq
  <1>5. AddsUp(CHOOSE f : Eq(f), v, S)
    BY <1>3, <1>4
  <1> QED
    BY <1>1, <1>5, OneTotal DEF v

\* The lines of a settlement are finitely many.
LEMMA LinesAreFinite ==
    ASSUME LinesInv, NEW s \in Settlement
    PROVE  LinesOf(line, s) \subseteq Written /\ IsFiniteSet(LinesOf(line, s))
  <1>1. LinesOf(line, s) \subseteq Written
    BY DEF LinesInv, LinesOf, Written
  <1> QED
    BY <1>1, FS_Subset DEF LinesInv

\* Lines that keep their amounts are worth what they were.
LEMMA SameWorth ==
    ASSUME NEW s, NEW old, NEW new,
           \A r \in Record : /\ new[<<s, r>>] # None <=> old[<<s, r>>] # None
                             /\ new[<<s, r>>] # None => new[<<s, r>>].amount = old[<<s, r>>].amount
    PROVE  Worth(new, s) = Worth(old, s)
  <1>1. LinesOf(new, s) = LinesOf(old, s)
    BY DEF LinesOf
  <1>2. \A r \in LinesOf(new, s) : new[<<s, r>>].amount = old[<<s, r>>].amount
    BY DEF LinesOf
  <1>3. Amounts(new, s) = Amounts(old, s)
    BY <1>1, <1>2 DEF Amounts
  <1> QED
    BY <1>1, <1>3 DEF Worth

\* A settlement is worth the lines it takes in.
LEMMA SettleWorth ==
    ASSUME CreditInv, LinesInv, NEW w \in Worker, NEW s \in Settlement, NEW e \in Entry,
           Settle(w, s, e)
    PROVE  /\ settlement'[s] # None
           /\ settlement'[s].worker = w
           /\ settlement'[s].gross = Gross(Pending(w, shown[w].scope))
           /\ Worth(line', s) = Gross(Pending(w, shown[w].scope))
           /\ \A r \in Record : line'[<<s, r>>] # None => record[r] # None
  <1> DEFINE chosen == Pending(w, shown[w].scope)
             header == [worker |-> w, gross |-> Gross(chosen), status |-> "open"]
             taken(r) == [quantity |-> record[r].quantity,
                          amount |-> AmountOf(r), live |-> TRUE]
  <1>1. TypeOK /\ OwnersExist
    BY DEF CreditInv
  <1>2. /\ Gross(chosen) \in Int
        /\ \A r \in chosen : r \in Record /\ record[r].quantity \in Quantity /\ AmountOf(r) \in Int
    BY <1>1, TakenIsPriced
  <1>3. settlement[s] = None /\ settlement' = [settlement EXCEPT ![s] = header]
    BY DEF Settle
  <1>4. header \in SettlementRow /\ header # None
    BY <1>2, NoneAssumption DEF SettlementRow
  <1>5. settlement'[s] # None /\ settlement'[s].worker = w /\ settlement'[s].gross = Gross(chosen)
    BY <1>1, <1>3, <1>4 DEF TypeOK
  <1>6. \A r \in Record :
           line'[<<s, r>>] = IF r \in chosen THEN taken(r) ELSE line[<<s, r>>]
    BY DEF Settle
  <1>7. \A r \in Record : line[<<s, r>>] = None
    BY <1>1, <1>3 DEF OwnersExist
  <1>8. \A r \in chosen : taken(r) # None /\ taken(r).amount = AmountOf(r)
    <2>1. \A r \in chosen : taken(r) \in LineRow
      BY <1>2 DEF LineRow
    <2> QED
      BY <2>1, NoneAssumption
  <1>9. chosen \subseteq Written
    BY <1>2 DEF Pending, Written
  <1> HIDE DEF header, taken, chosen
  <1>10. LinesOf(line', s) = chosen
    BY <1>2, <1>6, <1>7, <1>8 DEF LinesOf
  <1>11. \A r \in chosen : line'[<<s, r>>].amount = AmountOf(r)
    BY <1>2, <1>6, <1>8
  <1>12. Amounts(line', s) = [r \in chosen |-> AmountOf(r)]
    BY <1>10, <1>11 DEF Amounts
  <1>13. IsFiniteSet(chosen)
    BY <1>9, FS_Subset DEF LinesInv
  <1>14. Worth(line', s) = Gross(chosen)
    BY <1>2, <1>10, <1>12, <1>13, SumOfTaken DEF Worth
  <1>15. \A r \in Record : line'[<<s, r>>] # None => record[r] # None
    BY <1>6, <1>7, <1>9 DEF Written
  <1> QED
    BY <1>5, <1>14, <1>15 DEF chosen

\* The records written and the lines they are under, when records change.
WorkIsKept ==
    /\ IsFiniteSet(Written')
    /\ \A r \in Record : record[r] # None => record'[r] # None

\* Every request leaves the records that were written, and writes at most one.
LEMMA WrittenStep ==
    ASSUME TypeOK, LinesInv, [Next]_vars
    PROVE  WorkIsKept
  <1>0. IsFiniteSet(Written)
    BY DEF LinesInv
  <1>1. CASE UNCHANGED record
    BY <1>0, <1>1 DEF WorkIsKept, Written
  <1>2. ASSUME NEW r \in Record, NEW row \in RecordRow, record' = [record EXCEPT ![r] = row]
        PROVE  WorkIsKept
    <2>1. row # None
      BY NoneAssumption
    <2>2. /\ record'[r] = row
          /\ \A x \in Record \ {r} : record'[x] = record[x]
      BY <1>2 DEF TypeOK
    <2>3. Written' = Written \cup {r}
      BY <2>1, <2>2 DEF Written
    <2>4. IsFiniteSet(Written')
      BY <1>0, <2>3, FS_AddElement
    <2> QED
      BY <2>1, <2>2, <2>4 DEF WorkIsKept
  <1>3. ASSUME NEW r \in Record, NEW w \in Worker, NEW q \in Quantity,
               NEW p \in Price \cup {None}, CreateWorkRecord(r, w, q, p)
        PROVE  WorkIsKept
    <2> DEFINE row == [worker |-> w, quantity |-> q, price |-> p, deleted |-> FALSE]
    <2>1. row \in RecordRow /\ record' = [record EXCEPT ![r] = row]
      BY <1>3 DEF CreateWorkRecord, RecordRow
    <2> HIDE DEF row
    <2> QED
      BY <1>2, <2>1
  <1>4. ASSUME NEW r \in Record, NEW q \in Quantity, NEW status \in {"active", "inactive"},
               UpdateWorkRecord(r, q, status)
        PROVE  WorkIsKept
    <2> DEFINE row == [record[r] EXCEPT !.quantity = q, !.deleted = (status = "inactive")]
    <2>1. record[r] \in RecordRow
      BY <1>4 DEF UpdateWorkRecord, TypeOK
    <2>2. row \in RecordRow
      BY <2>1 DEF RecordRow
    <2>3. record' = [record EXCEPT ![r] = row]
      BY <1>4 DEF UpdateWorkRecord
    <2> HIDE DEF row
    <2> QED
      BY <1>2, <2>2, <2>3
  <1>5. ASSUME NEW r \in Record, SoftDeleteWorkRecord(r) PROVE WorkIsKept
    <2> DEFINE row == [record[r] EXCEPT !.deleted = TRUE]
    <2>1. record[r] \in RecordRow
      BY <1>5 DEF SoftDeleteWorkRecord, TypeOK
    <2>2. row \in RecordRow
      BY <2>1 DEF RecordRow
    <2>3. record' = [record EXCEPT ![r] = row]
      BY <1>5 DEF SoftDeleteWorkRecord
    <2> HIDE DEF row
    <2> QED
      BY <1>2, <2>2, <2>3
  <1> QED
    BY <1>1, <1>3, <1>4, <1>5
       DEF Next, vars, books, SetWeekPrice, SettlementPreview, Settle, VoidSettlement,
           ReleaseSettlement, AddLedgerEntry, ReverseLedgerEntry

\* A devengo that is new has the worker and the figure of its settlement.
EarnsWhatIsSettled ==
    \A e \in Entry : Row(e)' /\ ~Row(e) /\ ledger'[e].kind = "devengo" =>
        /\ settlement'[ledger'[e].settlement] # None
        /\ ledger'[e].worker = settlement'[ledger'[e].settlement].worker
        /\ ledger'[e].amount = settlement'[ledger'[e].settlement].gross

\* A settlement that is new is worth its lines, and the lines of the others,
\* like those of a settlement that is voided, keep their amounts.
WorthIsKept ==
    \A s \in Settlement :
        \/ /\ settlement'[s].gross = Worth(line', s)
           /\ \A r \in Record : line'[<<s, r>>] # None => record[r] # None
        \/ /\ settlement[s] = None => settlement'[s] = None
           /\ \A r \in Record : /\ line'[<<s, r>>] # None <=> line[<<s, r>>] # None
                                /\ line'[<<s, r>>] # None =>
                                      line'[<<s, r>>].amount = line[<<s, r>>].amount

\* What is kept suffices.
LEMMA LinesKept ==
    ASSUME CreditInv, LinesInv, KeepsTrail, WorkIsKept, WorthIsKept, EarnsWhatIsSettled
    PROVE  LinesInv'
  <1>1. \A s \in Settlement, r \in Record : line'[<<s, r>>] # None => record'[r] # None
    BY DEF WorthIsKept, WorkIsKept, LinesInv
  <1>2. ASSUME NEW s \in Settlement, settlement'[s] # None
        PROVE  settlement'[s].gross = Worth(line', s)
    <2>1. CASE settlement'[s].gross = Worth(line', s)
      BY <2>1
    <2>2. CASE settlement'[s].gross # Worth(line', s)
      <3>1. /\ settlement[s] # None
            /\ \A r \in Record : /\ line'[<<s, r>>] # None <=> line[<<s, r>>] # None
                                 /\ line'[<<s, r>>] # None =>
                                       line'[<<s, r>>].amount = line[<<s, r>>].amount
        BY <1>2, <2>2 DEF WorthIsKept
      <3>2. Worth(line', s) = Worth(line, s)
        BY <3>1, SameWorth
      <3> QED
        BY <3>1, <3>2 DEF LinesInv, KeepsTrail
    <2> QED
      BY <2>1, <2>2
  <1>3. ASSUME NEW e \in Entry, Row(e)', ledger'[e].kind = "devengo"
        PROVE  /\ settlement'[ledger'[e].settlement] # None
               /\ ledger'[e].worker = settlement'[ledger'[e].settlement].worker
               /\ ledger'[e].amount = settlement'[ledger'[e].settlement].gross
    <2>1. CASE ~Row(e)
      BY <1>3, <2>1 DEF EarnsWhatIsSettled
    <2>2. CASE Row(e)
      <3>1. ledger'[e] = ledger[e]
        BY <2>2 DEF KeepsTrail
      <3>2. /\ settlement[ledger[e].settlement] # None
            /\ ledger[e].worker = settlement[ledger[e].settlement].worker
            /\ ledger[e].amount = settlement[ledger[e].settlement].gross
        BY <1>3, <2>2, <3>1 DEF LinesInv
      <3>3. ledger[e].settlement \in Settlement
        <4>1. ledger[e].settlement # None
          BY <1>3, <2>2, <3>1 DEF CreditInv, OwnersExist
        <4>2. ledger[e] \in LedgerRow
          BY <2>2 DEF CreditInv, TypeOK
        <4> QED
          BY <4>1, <4>2 DEF LedgerRow
      <3> QED
        BY <3>1, <3>2, <3>3 DEF KeepsTrail
    <2> QED
      BY <2>1, <2>2
  <1>4. IsFiniteSet(Written')
    BY DEF WorkIsKept
  <1> QED
    BY <1>1, <1>2, <1>3, <1>4 DEF LinesInv

\* Every request keeps settlements and devengos worth their lines.
LEMMA LinesStep ==
    ASSUME CreditInv, LinesInv, [Next]_vars
    PROVE  WorthIsKept /\ EarnsWhatIsSettled
  <1>0. TypeOK /\ OwnersExist
    BY DEF CreditInv
  <1>1. CASE UNCHANGED <<settlement, line, ledger>>
    BY <1>1 DEF WorthIsKept, EarnsWhatIsSettled
  <1>2. ASSUME NEW w \in Worker, NEW s \in Settlement, NEW e \in Entry, Settle(w, s, e)
        PROVE  WorthIsKept /\ EarnsWhatIsSettled
    <2> DEFINE gross == Gross(Pending(w, shown[w].scope))
               row == [worker |-> w, kind |-> "devengo", amount |-> gross,
                       settlement |-> s, reverses |-> None, guarded |-> FALSE]
    <2>1. /\ settlement'[s] # None
          /\ settlement'[s].worker = w
          /\ settlement'[s].gross = gross
          /\ Worth(line', s) = gross
          /\ \A r \in Record : line'[<<s, r>>] # None => record[r] # None
      BY <1>2, SettleWorth
    <2>2. \A t \in Settlement \ {s}, r \in Record : line'[<<t, r>>] = line[<<t, r>>]
      BY <1>2 DEF Settle
    <2>3. \A t \in Settlement \ {s} : settlement'[t] = settlement[t]
      BY <1>2, SettleEffect
    <2>4. WorthIsKept
      BY <2>1, <2>2, <2>3 DEF WorthIsKept
    <2>5. e \in Unused /\ Insert([x \in {e} |-> row])
      BY <1>2 DEF Settle
    <2>6. row.settlement = s /\ row.worker = w /\ row.amount = gross
      OBVIOUS
    <2> HIDE DEF row, gross
    <2>7. (\A x \in Entry : Row(x)' /\ ~Row(x) => x = e) /\ ledger'[e] = row
      BY <2>5, OneRow
    <2> QED
      BY <2>1, <2>4, <2>6, <2>7 DEF EarnsWhatIsSettled
  <1>3. ASSUME NEW e \in Entry, NEW w \in Worker,
               NEW kind \in Withdrawal \cup {"ajuste"},
               NEW amount \in SignedAmount(kind), NEW over \in BOOLEAN,
               AddLedgerEntry(e, w, kind, amount, over)
        PROVE  WorthIsKept /\ EarnsWhatIsSettled
    <2> DEFINE row == [worker |-> w, kind |-> kind, amount |-> amount,
                       settlement |-> None, reverses |-> None,
                       guarded |-> kind = "pago" /\ ~over]
    <2>1. e \in Unused /\ Insert([x \in {e} |-> row]) /\ UNCHANGED <<settlement, line>>
      BY <1>3 DEF AddLedgerEntry
    <2>2. row.kind # "devengo"
      BY DEF Withdrawal
    <2> HIDE DEF row
    <2>3. (\A x \in Entry : Row(x)' /\ ~Row(x) => x = e) /\ ledger'[e] = row
      BY <2>1, OneRow
    <2> QED
      BY <2>1, <2>2, <2>3 DEF WorthIsKept, EarnsWhatIsSettled
  <1>4. ASSUME NEW e \in Entry, NEW id \in Entry, ReverseLedgerEntry(e, id)
        PROVE  WorthIsKept /\ EarnsWhatIsSettled
    <2>1. /\ \A x \in Entry : Row(x)' /\ ~Row(x) => x = id
          /\ ledger'[id] = ReversalOf(e)
          /\ UNCHANGED <<settlement, line>>
      BY <1>4, OneRow DEF ReverseLedgerEntry
    <2>2. ReversalOf(e).kind = "reverso"
      BY DEF ReversalOf
    <2> QED
      BY <2>1, <2>2 DEF WorthIsKept, EarnsWhatIsSettled
  <1>5. ASSUME NEW s \in Settlement, VoidLines(s), ReverseEarnings(s),
               \A t \in Settlement : settlement[t] = None => settlement'[t] = None
        PROVE  WorthIsKept /\ EarnsWhatIsSettled
    <2>1. \A t \in Settlement, r \in Record : line[<<t, r>>] = None => line'[<<t, r>>] = None
      BY <1>5 DEF VoidLines
    <2>2. \A t \in Settlement, r \in Record : line[<<t, r>>] # None =>
             line'[<<t, r>>] # None /\ line'[<<t, r>>].amount = line[<<t, r>>].amount
      BY <1>0, <1>5, VoidLinesEffect
    <2>3. WorthIsKept
      BY <1>5, <2>1, <2>2 DEF WorthIsKept
    <2>4. \A e \in Entry : Row(e)' /\ ~Row(e) => ledger'[e].kind = "reverso"
      BY <1>0, <1>5, ReverseEarningsEffect
    <2> QED
      BY <2>3, <2>4 DEF EarnsWhatIsSettled
  <1>6. ASSUME NEW s \in Settlement, VoidSettlement(s) PROVE WorthIsKept /\ EarnsWhatIsSettled
    <2>1. \A t \in Settlement : settlement[t] = None => settlement'[t] = None
      BY <1>0, <1>6, StatusEffect DEF VoidSettlement
    <2> QED
      BY <1>5, <1>6, <2>1 DEF VoidSettlement
  <1>7. ASSUME NEW s \in Settlement, NEW id \in Release, ReleaseSettlement(s, id)
        PROVE  WorthIsKept /\ EarnsWhatIsSettled
    BY <1>5, <1>7 DEF ReleaseSettlement
  <1> QED
    BY <1>1, <1>2, <1>3, <1>4, <1>6, <1>7
       DEF Next, vars, books, CreateWorkRecord, UpdateWorkRecord, SoftDeleteWorkRecord,
           SetWeekPrice, SettlementPreview

\* Empty books and half-voided ones are worth their lines.
LEMMA LinesInit == Init => LinesInv
  <1> SUFFICES ASSUME Init PROVE LinesInv
    OBVIOUS
  <1>1. CASE NoBooks
    <2>1. Written = {}
      BY <1>1 DEF NoBooks, Written
    <2> QED
      BY <1>1, <2>1, FS_EmptySet DEF NoBooks, LinesInv
  <1>2. CASE HalfVoided
    <2>1. PICK w \in Worker, r \in Record, s \in Settlement, e \in Entry,
               q \in Quantity, p \in Price : HalfVoidedBooks(w, r, s, e, q, p)
      BY <1>2 DEF HalfVoided
    <2> DEFINE item == [quantity |-> q, amount |-> q * p, live |-> TRUE]
               header == [worker |-> w, gross |-> q * p, status |-> "void"]
               work == [worker |-> w, quantity |-> q, price |-> None, deleted |-> FALSE]
               earned == [worker |-> w, kind |-> "devengo", amount |-> q * p,
                          settlement |-> s, reverses |-> None, guarded |-> FALSE]
    <2>2. q * p \in Int
      BY AmountIsInt
    <2>3. item \in LineRow /\ header \in SettlementRow /\ work \in RecordRow
      BY <2>2 DEF LineRow, SettlementRow, RecordRow
    <2>4. /\ item # None /\ header # None /\ work # None
          /\ item.amount = q * p /\ header.gross = q * p /\ header.worker = w
          /\ earned.settlement = s /\ earned.worker = w /\ earned.amount = q * p
      BY <2>3, NoneAssumption
    <2>5. /\ \A x \in Record : record[x] = IF x = r THEN work ELSE None
          /\ \A x \in Settlement : settlement[x] = IF x = s THEN header ELSE None
          /\ \A t \in Settlement, x \in Record :
                line[<<t, x>>] = IF t = s /\ x = r THEN item ELSE None
          /\ \A x \in Entry : ledger[x] = IF x = e THEN earned ELSE None
      BY <2>1 DEF HalfVoidedBooks
    <2> HIDE DEF item, header, work, earned
    <2>6. Written = {r}
      BY <2>4, <2>5 DEF Written
    <2>7. LinesOf(line, s) = {r} /\ Amounts(line, s)[r] = q * p
      <3>1. LinesOf(line, s) = {r}
        BY <2>4, <2>5 DEF LinesOf
      <3> QED
        BY <2>4, <2>5, <3>1 DEF Amounts
    <2>8. Worth(line, s) = q * p
      <3> DEFINE v == Amounts(line, s)
      <3>1. v[r] = q * p /\ v[r] \in Int
        BY <2>2, <2>7
      <3> HIDE DEF v
      <3>2. Total(v, {} \cup {r}) = Total(v, {}) + v[r]
        BY <3>1, FS_EmptySet, TotalAdd
      <3>3. Total(v, {}) = 0
        BY FS_EmptySet, TotalStep
      <3>4. {} \cup {r} = {r}
        OBVIOUS
      <3>5. Total(v, {r}) = q * p
        BY <2>2, <3>1, <3>2, <3>3, <3>4
      <3> QED
        BY <2>7, <3>5 DEF Worth, v
    <2>9. IsFiniteSet(Written)
      BY <2>6, FS_Singleton
    <2> QED
      BY <2>4, <2>5, <2>8, <2>9 DEF LinesInv
  <1> QED
    BY <1>1, <1>2 DEF Init

\* A devengo is worth the lines of its settlement and what the settlement says,
\* also after the lines have been voided: see DevengoIsItsLines.
THEOREM DevengoIsWorthItsLines == Spec => []DevengoIsItsLines
  <1> DEFINE I == CreditInv /\ LinesInv
  <1>1. Init => I
    BY CreditInit, LinesInit
  <1>2. I /\ [Next]_vars => I'
    <2> SUFFICES ASSUME CreditInv, LinesInv, [Next]_vars PROVE CreditInv' /\ LinesInv'
      OBVIOUS
    <2>1. TypeOK
      BY DEF CreditInv
    <2> QED
      BY <2>1, CreditStep, TrailStep, WrittenStep, LinesStep, LinesKept
  <1>3. I => DevengoIsItsLines
    <2> SUFFICES ASSUME CreditInv, LinesInv, NEW e \in Entry, Row(e), ledger[e].kind = "devengo"
                 PROVE  LET s == ledger[e].settlement IN
                        /\ settlement[s] # None
                        /\ ledger[e].worker = settlement[s].worker
                        /\ ledger[e].amount = settlement[s].gross
                        /\ ledger[e].amount =
                             MapThenSumSet(LAMBDA r : line[<<s, r>>].amount,
                                           {r \in Record : line[<<s, r>>] # None})
      BY DEF DevengoIsItsLines
    <2> DEFINE s == ledger[e].settlement
    <2>1. TypeOK /\ s \in Settlement
      <3>1. s # None /\ TypeOK
        BY DEF CreditInv, OwnersExist
      <3>2. ledger[e] \in LedgerRow
        BY <3>1 DEF TypeOK
      <3> QED
        BY <3>1, <3>2 DEF LedgerRow
    <2>2. /\ settlement[s] # None
          /\ ledger[e].worker = settlement[s].worker
          /\ ledger[e].amount = settlement[s].gross
          /\ settlement[s].gross = Worth(line, s)
      BY <2>1 DEF LinesInv
    <2>3. IsFiniteSet(LinesOf(line, s))
      BY <2>1, LinesAreFinite
    <2> HIDE DEF s
    <2>4. MapThenSumSet(LAMBDA r : line[<<s, r>>].amount,
                        {r \in Record : line[<<s, r>>] # None}) = Worth(line, s)
      BY <2>1, <2>3, SumOfLines
    <2>5. /\ settlement[s] # None
          /\ ledger[e].worker = settlement[s].worker
          /\ ledger[e].amount = settlement[s].gross
          /\ ledger[e].amount =
               MapThenSumSet(LAMBDA r : line[<<s, r>>].amount,
                             {r \in Record : line[<<s, r>>] # None})
      BY <2>2, <2>4
    <2> QED
      BY <2>5 DEF s
  <1> QED
    BY <1>1, <1>2, <1>3, PTL DEF Spec
=============================================================================
