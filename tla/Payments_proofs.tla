-------------------------- MODULE Payments_proofs --------------------------
(***************************************************************************)
(* Theorems about Payments, for any number of payments, charges, refunds   *)
(* and concurrent requests, and any answers of the provider.               *)
(***************************************************************************)
EXTENDS Payments, TLAPS

MemoryOK ==
    /\ pc \in [Requests -> Points]
    /\ arg \in [Requests -> Request \cup {NoRow}]
    /\ entity \in [Requests -> Payment \cup {NoRow}]

Tables ==
    /\ payments \in [PaymentIds -> Payment \cup {NoRow}]
    /\ charges \in [ChargeIds -> Charge \cup {NoRow}]
    /\ refunds \in [RefundIds -> Refund \cup {NoRow}]
    /\ RecordsMatchCharges
    /\ CompletedIsCollected
    /\ RefundsMatchCharges

Local(r) == Control(r) /\ HoldsCharge(r) /\ HoldsPayment(r)

\* A charge is made once: it stays, with its organization and its amount,
\* and a completed one stays completed.
ChargesKept ==
    \A c \in ChargeIds : charges[c] # NoRow =>
        /\ charges'[c] # NoRow
        /\ charges'[c].org = charges[c].org
        /\ charges'[c].amount = charges[c].amount
        /\ charges[c].status = "completed" => charges'[c].status = "completed"

\* A row stays, and nothing but its status changes.
RowsKept ==
    \A id \in PaymentIds : payments[id] # NoRow =>
        /\ payments'[id] # NoRow
        /\ payments'[id].org = payments[id].org
        /\ payments'[id].amount = payments[id].amount
        /\ payments'[id].charge = payments[id].charge

OthersKept(r) ==
    \A q \in Requests \ {r} :
        pc'[q] = pc[q] /\ arg'[q] = arg[q] /\ entity'[q] = entity[q]

\* Nobody else takes, or records, the charge another request is to record.
FreshKept(r) ==
    \A q \in Requests \ {r} : pc[q] = "insert" =>
        /\ \A id \in PaymentIds :
               payments'[id] # NoRow => payments'[id].charge # entity[q].charge
        /\ ~(pc'[r] = "insert" /\ entity'[r].charge = entity[q].charge)

\* What a step of request r establishes and keeps.
Sound(r) ==
    /\ Tables' /\ MemoryOK' /\ Local(r)'
    /\ ChargesKept /\ RowsKept /\ OthersKept(r) /\ FreshKept(r)

LEMMA Parts ==
    IInv <=> Tables /\ MemoryOK /\ \A r \in Requests : Local(r)
PROOF
    BY DEF IInv, Tables, MemoryOK, Local, TypeOK

LEMMA RequestShape ==
    ASSUME NEW a \in Request
    PROVE  /\ a # NoRow /\ a.op \in {"create", "verify", "refund"} /\ a.org \in Orgs
           /\ a.op = "create" => a.amount \in Amounts
           /\ a.op # "create" => a.payment \in PaymentIds
PROOF
    BY NullAssumption DEF Request

\* Rounding to cents moves an amount by half a cent at most.
LEMMA StoredIsClose ==
    ASSUME NEW amount \in Nat
    PROVE  Stored(amount) \in Nat /\ SameMoney(amount, Stored(amount))
PROOF
    BY DEF Stored, SameMoney

\* What a request holds survives the steps of the others.
LEMMA Framed ==
    ASSUME Tables, MemoryOK, ChargesKept, RowsKept,
           NEW r \in Requests, OthersKept(r), FreshKept(r),
           NEW q \in Requests \ {r}, Local(q)
    PROVE  Local(q)'
PROOF
<1>1. pc'[q] = pc[q] /\ arg'[q] = arg[q] /\ entity'[q] = entity[q]
    BY DEF OthersKept
<1>2. Control(q)'
    BY <1>1 DEF Local, Control
<1>3. HoldsCharge(q)'
  <2> DEFINE c == entity[q].charge
  <2> SUFFICES ASSUME pc[q] = "insert"
               PROVE  HoldsCharge(q)'
      BY <1>1 DEF HoldsCharge
  <2>1. entity[q] \in Payment /\ c \in ChargeIds
      BY DEF Local, HoldsCharge, Payment
  <2>2. /\ charges'[c] # NoRow /\ charges'[c].org = entity[q].org
        /\ charges'[c].amount = entity[q].amount
        /\ entity[q].status = "COMPLETED" => charges'[c].status = "completed"
        /\ entity[q].status # "REFUNDED"
      BY <2>1 DEF Local, HoldsCharge, ChargesKept
  <2>3. \A id \in PaymentIds : ~Records(id, c)'
      BY <1>1 DEF FreshKept, Records
  <2>4. \A s \in Requests : pc'[s] = "insert" /\ entity'[s].charge = c => s = q
      BY DEF FreshKept, OthersKept, Local, HoldsCharge
  <2> QED BY <1>1, <2>1, <2>2, <2>3, <2>4 DEF HoldsCharge, Records
<1>4. HoldsPayment(q)'
  <2> SUFFICES ASSUME pc[q] \in {"verify", "refund", "save"}
               PROVE  HoldsPayment(q)'
      BY <1>1 DEF HoldsPayment
  <2>1. arg[q].payment \in PaymentIds
      BY RequestShape DEF Local, Control
  <2>2. entity[q] \in Payment /\ entity[q].charge \in ChargeIds
      BY DEF Local, HoldsPayment, Payment
  <2>3. charges[entity[q].charge] # NoRow
      BY <2>1, <2>2 DEF Local, HoldsPayment, Tables, RecordsMatchCharges
  <2> QED BY <1>1, <2>1, <2>2, <2>3 DEF Local, HoldsPayment, ChargesKept, RowsKept
<1> QED BY <1>2, <1>3, <1>4 DEF Local

-----------------------------------------------------------------------------
(* The steps of a request.                                                 *)

LEMMA ReplyOK ==
    ASSUME MemoryOK, NEW r \in Requests, Reply(r)
    PROVE  MemoryOK' /\ OthersKept(r) /\ Local(r)' /\ pc'[r] = "idle"
PROOF
<1>1. MemoryOK' /\ OthersKept(r) /\ pc'[r] = "idle"
    BY DEF MemoryOK, Reply, Goto, Points, OthersKept
<1> QED BY <1>1 DEF Local, Control, HoldsCharge, HoldsPayment

LEMMA SameTables ==
    ASSUME Tables, UNCHANGED <<payments, charges, refunds>>
    PROVE  Tables' /\ ChargesKept /\ RowsKept
PROOF
    BY DEF Tables, ChargesKept, RowsKept, RecordsMatchCharges, CompletedIsCollected,
           RefundsMatchCharges, Records

\* As long as no payment is added, no charge is recorded.
LEMMA NoNewRecord ==
    ASSUME \A s \in Requests : Local(s), NEW r \in Requests, pc'[r] # "insert",
           \A id \in PaymentIds : payments'[id] # NoRow =>
               payments[id] # NoRow /\ payments'[id].charge = payments[id].charge
    PROVE  FreshKept(r)
PROOF
    BY DEF FreshKept, Local, HoldsCharge, Records

LEMMA ArriveOK ==
    ASSUME IInv, NEW r \in Requests, Arrive(r)
    PROVE  Sound(r)
PROOF
<1>0. Tables /\ MemoryOK /\ \A s \in Requests : Local(s)
    BY Parts
<1>1. PICK a \in Request :
          /\ arg' = [arg EXCEPT ![r] = a]
          /\ Goto(r, IF a.op = "create" THEN "charge" ELSE "find")
    BY DEF Arrive
<1>2. MemoryOK' /\ OthersKept(r)
    BY <1>0, <1>1 DEF Arrive, Goto, MemoryOK, OthersKept, Points
<1>3. arg'[r] = a /\ pc'[r] = (IF a.op = "create" THEN "charge" ELSE "find")
    BY <1>0, <1>1 DEF Goto, MemoryOK
<1>4. Local(r)'
    BY <1>3, RequestShape DEF Local, Control, HoldsCharge, HoldsPayment
<1>5. Tables' /\ ChargesKept /\ RowsKept
    BY <1>0, SameTables DEF Arrive
<1>6. FreshKept(r)
    BY <1>0, <1>3, NoNewRecord DEF Arrive
<1> QED BY <1>2, <1>4, <1>5, <1>6 DEF Sound

LEMMA CreateChargeOK ==
    ASSUME IInv, NEW r \in Requests, CreateCharge(r)
    PROVE  Sound(r)
PROOF
<1>0. Tables /\ MemoryOK /\ \A s \in Requests : Local(s)
    BY Parts
<1>1. PICK c \in ChargeIds, answer \in ChargeAnswers :
          /\ charges[c] = NoRow
          /\ charges' = [charges EXCEPT
               ![c] = [org |-> arg[r].org, amount |-> arg[r].amount, status |-> answer]]
          /\ entity' = [entity EXCEPT
               ![r] = [org |-> arg[r].org, amount |-> arg[r].amount,
                       status |-> RecordedStatus(answer), charge |-> c]]
    BY DEF CreateCharge
<1>2. arg[r] \in Request /\ arg[r].op = "create" /\ arg[r].org \in Orgs
        /\ arg[r].amount \in Amounts
    BY <1>0, RequestShape DEF CreateCharge, Local, Control
<1>3. arg[r].amount \in Nat
    BY <1>2, AmountAssumption
<1> DEFINE new == [org |-> arg[r].org, amount |-> arg[r].amount, status |-> answer]
           held == [org |-> arg[r].org, amount |-> arg[r].amount,
                    status |-> RecordedStatus(answer), charge |-> c]
<1>4. new \in Charge /\ new # NoRow
    BY <1>2, AnswerAssumption, NullAssumption DEF Charge
<1>5. held \in Payment
    BY <1>2, <1>3 DEF Payment, RecordedStatus, Statuses
<1>6. /\ entity'[r] = held /\ pc'[r] = "insert" /\ arg'[r] = arg[r]
      /\ charges'[c] = new /\ \A d \in ChargeIds \ {c} : charges'[d] = charges[d]
      /\ charges' \in [ChargeIds -> Charge \cup {NoRow}]
    BY <1>0, <1>1, <1>4 DEF CreateCharge, Goto, MemoryOK, Tables
<1>7. MemoryOK' /\ OthersKept(r)
    BY <1>0, <1>1, <1>5 DEF CreateCharge, Goto, MemoryOK, OthersKept, Points
<1>8. ChargesKept /\ RowsKept
    BY <1>1, <1>6 DEF ChargesKept, RowsKept, CreateCharge
<1>9. Tables'
  <2>1. \A id \in PaymentIds : payments[id] # NoRow =>
            payments[id].charge \in ChargeIds /\ payments[id].charge # c
      BY <1>0, <1>1 DEF Tables, RecordsMatchCharges, Payment
  <2>2. \A f \in RefundIds : refunds[f] # NoRow =>
            refunds[f].charge \in ChargeIds /\ refunds[f].charge # c
      BY <1>0, <1>1 DEF Tables, RefundsMatchCharges, Refund
  <2> QED BY <1>0, <1>6, <2>1, <2>2 DEF Tables, RecordsMatchCharges, CompletedIsCollected,
             RefundsMatchCharges, Records, CreateCharge
<1>10. Local(r)'
  <2>1. \A id \in PaymentIds : ~Records(id, c)'
      BY <1>0, <1>1 DEF Tables, RecordsMatchCharges, Records, CreateCharge
  <2>2. \A s \in Requests : pc'[s] = "insert" /\ entity'[s].charge = c => s = r
      BY <1>0, <1>1, <1>7 DEF OthersKept, Local, HoldsCharge
  <2>3. HoldsCharge(r)'
      BY <1>5, <1>6, <1>4, <2>1, <2>2 DEF HoldsCharge, RecordedStatus, Records
  <2>4. Control(r)' /\ HoldsPayment(r)'
      BY <1>2, <1>6 DEF Control, HoldsPayment
  <2> QED BY <2>3, <2>4 DEF Local
<1>11. FreshKept(r)
    BY <1>0, <1>1, <1>6 DEF FreshKept, Local, HoldsCharge, Records, CreateCharge
<1> QED BY <1>7, <1>8, <1>9, <1>10, <1>11 DEF Sound

LEMMA InsertPaymentOK ==
    ASSUME IInv, NEW r \in Requests, InsertPayment(r)
    PROVE  Sound(r)
PROOF
<1>0. Tables /\ MemoryOK /\ \A s \in Requests : Local(s)
    BY Parts
<1>1. MemoryOK' /\ OthersKept(r) /\ Local(r)' /\ pc'[r] = "idle"
    BY <1>0, ReplyOK DEF InsertPayment
<1>2. UNCHANGED <<charges, refunds>> /\ pc[r] = "insert"
    BY DEF InsertPayment, provider
<1>3. CASE UNCHANGED payments
    BY <1>0, <1>1, <1>2, <1>3, SameTables, NoNewRecord DEF Sound
<1>4. CASE ~UNCHANGED payments
  <2> DEFINE c == entity[r].charge
             row == [entity[r] EXCEPT !.amount = Stored(@)]
  <2>1. PICK id \in PaymentIds :
            payments[id] = NoRow /\ payments' = [payments EXCEPT ![id] = row]
      BY <1>4 DEF InsertPayment
  <2>2. /\ entity[r] \in Payment /\ charges[c] # NoRow /\ charges[c].org = entity[r].org
        /\ charges[c].amount = entity[r].amount /\ c \in ChargeIds
        /\ entity[r].status = "COMPLETED" => charges[c].status = "completed"
        /\ \A other \in PaymentIds : ~Records(other, c)
        /\ \A s \in Requests : pc[s] = "insert" /\ entity[s].charge = c => s = r
      BY <1>0, <1>2 DEF Local, HoldsCharge, Payment
  <2>3. entity[r].amount \in Nat /\ Stored(entity[r].amount) \in Nat
          /\ SameMoney(charges[c].amount, Stored(entity[r].amount))
      BY <2>2, StoredIsClose DEF Payment
  <2>4. /\ row \in Payment /\ row.org = entity[r].org /\ row.charge = c
        /\ row.status = entity[r].status /\ row.amount = Stored(entity[r].amount)
      BY <2>2, <2>3 DEF Payment
  <2>5. /\ payments'[id] = row /\ \A other \in PaymentIds \ {id} : payments'[other] = payments[other]
        /\ payments' \in [PaymentIds -> Payment \cup {NoRow}]
      BY <1>0, <2>1, <2>4 DEF Tables
  <2> HIDE DEF row
  <2>6. RecordsMatchCharges'
    <3> SUFFICES ASSUME NEW p \in PaymentIds, payments'[p] # NoRow
                 PROVE  LET d == payments'[p].charge IN
                        /\ charges[d] # NoRow
                        /\ charges[d].org = payments'[p].org
                        /\ SameMoney(charges[d].amount, payments'[p].amount)
                        /\ \A other \in PaymentIds :
                              payments'[other] # NoRow /\ payments'[other].charge = d => other = p
        BY <1>2 DEF RecordsMatchCharges, Records
    <3>1. CASE p = id
        BY <2>2, <2>3, <2>4, <2>5, <3>1 DEF Records
    <3>2. CASE p # id
      <4>1. payments'[p] = payments[p] /\ payments[p] # NoRow
          BY <2>5, <3>2
      <4>2. payments[p].charge # c
          BY <2>2, <4>1 DEF Records
      <4> QED BY <1>0, <2>4, <2>5, <4>1, <4>2 DEF Tables, RecordsMatchCharges, Records
    <3> QED BY <3>1, <3>2
  <2>7. CompletedIsCollected' /\ RefundsMatchCharges'
      BY <1>0, <1>2, <2>2, <2>4, <2>5 DEF Tables, CompletedIsCollected, RefundsMatchCharges
  <2>8. ChargesKept /\ RowsKept
      BY <1>2, <2>1, <2>5 DEF ChargesKept, RowsKept
  <2>9. FreshKept(r)
      BY <1>0, <1>1, <1>2, <2>2, <2>4, <2>5 DEF FreshKept, Local, HoldsCharge, Records
  <2> QED BY <1>0, <1>1, <1>2, <2>5, <2>6, <2>7, <2>8, <2>9 DEF Sound, Tables
<1> QED BY <1>3, <1>4

LEMMA FindPaymentOK ==
    ASSUME IInv, NEW r \in Requests, FindPayment(r)
    PROVE  Sound(r)
PROOF
<1>0. Tables /\ MemoryOK /\ \A s \in Requests : Local(s)
    BY Parts
<1>1. arg[r] \in Request /\ arg[r].op \in {"verify", "refund"} /\ arg[r].payment \in PaymentIds
    BY <1>0, RequestShape DEF FindPayment, Local, Control
<1>2. Tables' /\ ChargesKept /\ RowsKept
    BY <1>0, SameTables DEF FindPayment
<1>3. CASE Addressed(r) = {} /\ Reply(r)
    BY <1>0, <1>2, <1>3, ReplyOK, NoNewRecord DEF FindPayment, Sound
<1>4. CASE ~(Addressed(r) = {} /\ Reply(r))
  <2>1. /\ payments[arg[r].payment] # NoRow /\ payments[arg[r].payment].org = arg[r].org
        /\ entity' = [entity EXCEPT ![r] = payments[arg[r].payment]]
        /\ Goto(r, arg[r].op) /\ UNCHANGED arg
      BY <1>4 DEF FindPayment, Addressed
  <2>2. payments[arg[r].payment] \in Payment
      BY <1>0, <1>1, <2>1 DEF Tables
  <2>3. /\ entity'[r] = payments[arg[r].payment] /\ pc'[r] = arg[r].op /\ arg'[r] = arg[r]
        /\ MemoryOK' /\ OthersKept(r)
      BY <1>0, <1>1, <2>1, <2>2 DEF Goto, MemoryOK, OthersKept, Points
  <2>4. Local(r)'
      BY <1>1, <2>1, <2>2, <2>3 DEF Local, Control, HoldsCharge, HoldsPayment, FindPayment
  <2>5. FreshKept(r)
      BY <1>0, <1>1, <2>3, NoNewRecord DEF FindPayment
  <2> QED BY <1>2, <2>3, <2>4, <2>5 DEF Sound
<1> QED BY <1>3, <1>4

LEMMA VerifyPaymentOK ==
    ASSUME IInv, NEW r \in Requests, VerifyPayment(r)
    PROVE  Sound(r)
PROOF
<1>0. Tables /\ MemoryOK /\ \A s \in Requests : Local(s)
    BY Parts
<1>1. Tables' /\ ChargesKept /\ RowsKept
    BY <1>0, SameTables DEF VerifyPayment
<1>2. CASE Reply(r)
    BY <1>0, <1>1, <1>2, ReplyOK, NoNewRecord DEF VerifyPayment, Sound
<1>3. CASE ~Reply(r)
  <2>1. /\ charges[entity[r].charge].status = "completed"
        /\ entity' = [entity EXCEPT ![r].status = "COMPLETED"]
        /\ Goto(r, "save") /\ UNCHANGED arg /\ pc[r] = "verify"
      BY <1>3 DEF VerifyPayment
  <2>2. HoldsPayment(r) /\ Control(r) /\ entity[r] \in Payment
      BY <1>0, <2>1 DEF Local, HoldsPayment
  <2>3. [entity[r] EXCEPT !.status = "COMPLETED"] \in Payment
      BY <2>2 DEF Payment, Statuses
  <2>4. /\ entity'[r] = [entity[r] EXCEPT !.status = "COMPLETED"] /\ pc'[r] = "save"
        /\ MemoryOK' /\ OthersKept(r)
      BY <1>0, <2>1, <2>3 DEF Goto, MemoryOK, OthersKept, Points
  <2>5. /\ entity'[r].charge = entity[r].charge /\ entity'[r].amount = entity[r].amount
        /\ entity'[r] \in Payment
      BY <2>2, <2>3, <2>4 DEF Payment
  <2>6. Local(r)'
      BY <2>1, <2>2, <2>4, <2>5 DEF Local, Control, HoldsCharge, HoldsPayment, VerifyPayment
  <2>7. FreshKept(r)
      BY <1>0, <2>4, NoNewRecord DEF VerifyPayment
  <2> QED BY <1>1, <2>4, <2>6, <2>7 DEF Sound
<1> QED BY <1>2, <1>3

LEMMA RefundPaymentOK ==
    ASSUME IInv, NEW r \in Requests, RefundPayment(r)
    PROVE  Sound(r)
PROOF
<1>0. Tables /\ MemoryOK /\ \A s \in Requests : Local(s)
    BY Parts
<1> DEFINE back == [charge |-> entity[r].charge, amount |-> entity[r].amount]
<1>1. HoldsPayment(r) /\ Control(r) /\ entity[r] \in Payment /\ arg[r].payment \in PaymentIds
    BY <1>0, RequestShape DEF RefundPayment, Local, HoldsPayment, Control
<1>2. /\ charges[back.charge] # NoRow /\ SameMoney(charges[back.charge].amount, back.amount)
      /\ back \in Refund
    BY <1>0, <1>1 DEF RefundPayment, HoldsPayment, Tables, RecordsMatchCharges, Payment, Refund
<1>3. \/ UNCHANGED refunds
      \/ \E f \in RefundIds : refunds' = [refunds EXCEPT ![f] = back]
    BY DEF RefundPayment
<1>4. RefundsMatchCharges' /\ refunds' \in [RefundIds -> Refund \cup {NoRow}]
  <2> HIDE DEF back
  <2> QED BY <1>0, <1>2, <1>3 DEF Tables, RefundsMatchCharges, RefundPayment
<1>5. Tables' /\ ChargesKept /\ RowsKept
    BY <1>0, <1>4 DEF Tables, RefundPayment, ChargesKept, RowsKept, RecordsMatchCharges,
          CompletedIsCollected, Records
<1>6. [entity[r] EXCEPT !.status = "REFUNDED"] \in Payment
    BY <1>1 DEF Payment, Statuses
<1>7. /\ entity'[r] = [entity[r] EXCEPT !.status = "REFUNDED"] /\ pc'[r] = "save"
      /\ arg' = arg /\ MemoryOK' /\ OthersKept(r)
    BY <1>0, <1>6 DEF RefundPayment, Goto, MemoryOK, OthersKept, Points
<1>8. /\ entity'[r].charge = entity[r].charge /\ entity'[r].amount = entity[r].amount
      /\ entity'[r].status = "REFUNDED" /\ entity'[r] \in Payment
    BY <1>1, <1>6, <1>7 DEF Payment
<1>9. Local(r)'
    BY <1>1, <1>7, <1>8 DEF Local, Control, HoldsCharge, HoldsPayment, RefundPayment
<1>10. FreshKept(r)
    BY <1>0, <1>7, NoNewRecord DEF RefundPayment
<1> QED BY <1>5, <1>7, <1>9, <1>10 DEF Sound

LEMMA SavePaymentOK ==
    ASSUME IInv, NEW r \in Requests, SavePayment(r)
    PROVE  Sound(r)
PROOF
<1>0. Tables /\ MemoryOK /\ \A s \in Requests : Local(s)
    BY Parts
<1> DEFINE id == arg[r].payment
           status == entity[r].status
           row == [payments[id] EXCEPT !.status = status]
<1>1. MemoryOK' /\ OthersKept(r) /\ Local(r)' /\ pc'[r] = "idle"
    BY <1>0, ReplyOK DEF SavePayment
<1>2. /\ id \in PaymentIds /\ payments[id] # NoRow /\ payments[id] \in Payment
      /\ status \in Statuses
      /\ status = "COMPLETED" => charges[payments[id].charge].status = "completed"
  <2>1. HoldsPayment(r) /\ Control(r) /\ pc[r] = "save"
      BY <1>0 DEF SavePayment, Local
  <2>2. id \in PaymentIds /\ payments[id] # NoRow /\ entity[r] \in Payment
      BY <2>1, RequestShape DEF HoldsPayment, Control
  <2> QED BY <1>0, <2>1, <2>2 DEF HoldsPayment, Tables, Payment
<1>3. /\ row \in Payment /\ row.org = payments[id].org /\ row.amount = payments[id].amount
      /\ row.charge = payments[id].charge /\ row.status = status
    BY <1>2 DEF Payment
<1>4. payments' = [payments EXCEPT ![id] = row] /\ UNCHANGED <<charges, refunds>>
    BY DEF SavePayment, provider
<1>5. /\ payments'[id] = row /\ row # NoRow
      /\ \A other \in PaymentIds \ {id} : payments'[other] = payments[other]
      /\ payments' \in [PaymentIds -> Payment \cup {NoRow}]
    BY <1>0, <1>2, <1>3, <1>4, NullAssumption DEF Tables
<1> HIDE DEF row, id, status
<1>6. /\ RowsKept
      /\ \A p \in PaymentIds : payments'[p] # NoRow =>
             payments[p] # NoRow /\ payments'[p].charge = payments[p].charge
    BY <1>2, <1>3, <1>5 DEF RowsKept
<1>7. ChargesKept
    BY <1>4 DEF ChargesKept
<1>8. RecordsMatchCharges'
    BY <1>0, <1>4, <1>6 DEF Tables, RecordsMatchCharges, RowsKept, Records
<1>9. CompletedIsCollected' /\ RefundsMatchCharges'
    BY <1>0, <1>2, <1>3, <1>4, <1>5 DEF Tables, CompletedIsCollected, RefundsMatchCharges
<1>10. FreshKept(r)
    BY <1>0, <1>1, <1>6, NoNewRecord
<1> QED BY <1>0, <1>1, <1>4, <1>5, <1>6, <1>7, <1>8, <1>9, <1>10 DEF Sound, Tables

LEMMA AbortOK ==
    ASSUME IInv, NEW r \in Requests, Abort(r)
    PROVE  Sound(r)
PROOF
<1>0. Tables /\ MemoryOK /\ \A s \in Requests : Local(s)
    BY Parts
<1>1. Tables' /\ ChargesKept /\ RowsKept
    BY <1>0, SameTables DEF Abort
<1> QED BY <1>0, <1>1, ReplyOK, NoNewRecord DEF Abort, Sound

LEMMA StepOK ==
    ASSUME IInv, NEW r \in Requests, RequestStep(r)
    PROVE  Sound(r)
PROOF
    BY ArriveOK, CreateChargeOK, InsertPaymentOK, FindPaymentOK, VerifyPaymentOK,
       RefundPaymentOK, SavePaymentOK, AbortOK DEF RequestStep

\* The provider settles a charge: the requests find their charges as they
\* made them, and what was completed stays completed.
LEMMA SettleOK ==
    ASSUME IInv, NEW c \in ChargeIds, Settle(c)
    PROVE  IInv' /\ ChargesKept /\ RowsKept
PROOF
<1>0. Tables /\ MemoryOK /\ \A s \in Requests : Local(s)
    BY Parts
<1>1. PICK s \in {"completed", "failed"} : charges' = [charges EXCEPT ![c].status = s]
    BY DEF Settle
<1> DEFINE new == [charges[c] EXCEPT !.status = s]
<1>2. charges[c] \in Charge /\ charges[c].status = "pending"
    BY <1>0 DEF Settle, Tables
<1>3. /\ new \in Charge /\ new # NoRow /\ new.org = charges[c].org
      /\ new.amount = charges[c].amount
    BY <1>2, NullAssumption DEF Charge
<1>4. /\ charges'[c] = new /\ \A d \in ChargeIds \ {c} : charges'[d] = charges[d]
      /\ charges' \in [ChargeIds -> Charge \cup {NoRow}]
      /\ UNCHANGED <<payments, refunds, pc, arg, entity>>
    BY <1>0, <1>1, <1>3 DEF Settle, Tables
<1> HIDE DEF new
<1>5. ChargesKept /\ RowsKept
    BY <1>2, <1>3, <1>4 DEF ChargesKept, RowsKept
<1>6. /\ \A id \in PaymentIds : payments[id] # NoRow => payments[id].charge \in ChargeIds
      /\ \A f \in RefundIds : refunds[f] # NoRow => refunds[f].charge \in ChargeIds
    BY <1>0 DEF Tables, Payment, Refund
<1>7. Tables'
    BY <1>0, <1>4, <1>5, <1>6 DEF Tables, ChargesKept, RecordsMatchCharges,
          CompletedIsCollected, RefundsMatchCharges, Records
<1>8. \A q \in Requests : Local(q)'
  <2> SUFFICES ASSUME NEW q \in Requests PROVE Local(q)'
      OBVIOUS
  <2>1. Control(q)'
      BY <1>0, <1>4 DEF Local, Control
  <2>2. HoldsCharge(q)'
    <3> SUFFICES ASSUME pc[q] = "insert" PROVE HoldsCharge(q)'
        BY <1>4 DEF HoldsCharge
    <3>1. HoldsCharge(q) /\ entity[q] \in Payment /\ entity[q].charge \in ChargeIds
        BY <1>0 DEF Local, HoldsCharge, Payment
    <3> QED BY <1>4, <1>5, <3>1 DEF HoldsCharge, ChargesKept, Records
  <2>3. HoldsPayment(q)'
    <3> SUFFICES ASSUME pc[q] \in {"verify", "refund", "save"} PROVE HoldsPayment(q)'
        BY <1>4 DEF HoldsPayment
    <3>1. HoldsPayment(q) /\ entity[q].charge \in ChargeIds /\ arg[q].payment \in PaymentIds
        BY <1>0, RequestShape DEF Local, HoldsPayment, Payment, Control
    <3>2. charges[entity[q].charge] # NoRow
        BY <1>0, <3>1 DEF HoldsPayment, Tables, RecordsMatchCharges
    <3> QED BY <1>4, <1>5, <3>1, <3>2 DEF HoldsPayment, ChargesKept
  <2> QED BY <2>1, <2>2, <2>3 DEF Local
<1>9. MemoryOK'
    BY <1>0, <1>4 DEF MemoryOK
<1>10. IInv'
    BY <1>7, <1>8, <1>9 DEF IInv, Tables, MemoryOK, Local, TypeOK
<1> QED BY <1>5, <1>10

-----------------------------------------------------------------------------
(* Theorems.                                                               *)

LEMMA Inductive ==
    ASSUME IInv, [Next]_vars
    PROVE  IInv'
PROOF
<1>1. CASE UNCHANGED vars
    BY <1>1 DEF vars, IInv, TypeOK, Control, HoldsCharge, HoldsPayment, RecordsMatchCharges,
          CompletedIsCollected, RefundsMatchCharges, Records
<1>2. ASSUME NEW r \in Requests, RequestStep(r) PROVE IInv'
  <2>1. Sound(r) /\ Tables /\ MemoryOK /\ \A q \in Requests : Local(q)
      BY <1>2, StepOK, Parts
  <2>2. \A q \in Requests : Local(q)'
      BY <2>1, Framed DEF Sound
  <2> QED BY <2>1, <2>2 DEF Sound, IInv, Tables, MemoryOK, Local, TypeOK
<1>3. ASSUME NEW c \in ChargeIds, Settle(c) PROVE IInv'
    BY <1>3, SettleOK
<1> QED BY <1>1, <1>2, <1>3 DEF Next

\* Every reachable state satisfies the inductive invariant.
THEOREM Invariance == Spec => []IInv
PROOF
<1>1. Init => IInv
    BY DEF Init, IInv, TypeOK, Control, HoldsCharge, HoldsPayment, Points,
          RecordsMatchCharges, CompletedIsCollected, RefundsMatchCharges
<1>2. IInv /\ [Next]_vars => IInv'
    BY Inductive
<1> QED BY <1>1, <1>2, PTL DEF Spec

\* Table, provider and requests keep their types.
THEOREM TypeCorrect == Spec => []TypeOK
PROOF
<1>1. IInv => TypeOK
    BY DEF IInv
<1> QED BY <1>1, Invariance, PTL

\* Table and provider agree on who was charged what, on what was collected
\* and on what a refund pays back.
THEOREM BooksStayInAgreement == Spec => []BooksAgree
PROOF
<1>1. IInv => BooksAgree
    BY DEF IInv, BooksAgree
<1> QED BY <1>1, Invariance, PTL

LEMMA RefundStep ==
    ASSUME IInv, [Next]_vars, NEW f \in RefundIds, refunds'[f] # refunds[f]
    PROVE  \E r \in Requests :
               /\ pc[r] = "refund" /\ RefundPayment(r)
               /\ refunds'[f].charge = entity[r].charge
               /\ arg[r].payment \in PaymentIds
               /\ arg[r].org = charges[refunds'[f].charge].org
               /\ Records(arg[r].payment, refunds'[f].charge)
PROOF
<1>0. Tables /\ MemoryOK /\ \A s \in Requests : Local(s)
    BY Parts
<1>1. PICK r \in Requests : RefundPayment(r)
    BY DEF Next, RequestStep, vars, provider, Arrive, CreateCharge, InsertPayment,
          FindPayment, VerifyPayment, SavePayment, Abort, Settle
<1>2. refunds'[f] = [charge |-> entity[r].charge, amount |-> entity[r].amount]
    BY <1>0, <1>1 DEF RefundPayment, Tables
<1>3. HoldsPayment(r) /\ arg[r].payment \in PaymentIds /\ pc[r] = "refund"
    BY <1>0, <1>1, RequestShape DEF RefundPayment, Local, Control
<1>4. charges[entity[r].charge].org = arg[r].org
    BY <1>0, <1>3 DEF HoldsPayment, Tables, RecordsMatchCharges
<1> QED BY <1>1, <1>2, <1>3, <1>4 DEF HoldsPayment, Records

\* Money goes back only on a request for the organization that was charged.
THEOREM RefundsAreOwn == Spec => OnlyOwnRefunds
PROOF
<1>1. IInv /\ [Next]_vars =>
        [\A f \in RefundIds : refunds'[f] # refunds[f] =>
            \E r \in Requests :
              /\ pc[r] = "refund"
              /\ arg[r].org = charges[refunds'[f].charge].org
              /\ Records(arg[r].payment, refunds'[f].charge)]_vars
    BY RefundStep
<1> QED BY <1>1, Invariance, PTL DEF Spec, OnlyOwnRefunds

\* A charge that was lost between provider and table stays out of reach.
LEMMA LostStep ==
    ASSUME IInv, [Next]_vars, NEW c \in ChargeIds, Lost(c)
    PROVE  /\ Lost(c)'
           /\ \A f \in RefundIds : refunds'[f] # refunds[f] => refunds'[f].charge # c
PROOF
<1>0. Tables /\ MemoryOK /\ \A s \in Requests : Local(s)
    BY Parts
<1>1. \A f \in RefundIds : refunds'[f] # refunds[f] => refunds'[f].charge # c
    BY RefundStep DEF Lost
<1>2. CASE UNCHANGED vars
    BY <1>2 DEF vars, Lost, Records
<1>3. ASSUME NEW r \in Requests, RequestStep(r) PROVE Lost(c)'
  <2>1. Sound(r)
      BY <1>3, StepOK
  <2>2. charges'[c] # NoRow
      BY <2>1 DEF Sound, ChargesKept, Lost
  <2>3. \A q \in Requests \ {r} : ~(pc'[q] = "insert" /\ entity'[q].charge = c)
      BY <2>1 DEF Sound, OthersKept, Lost
  <2>4. ~(pc'[r] = "insert" /\ entity'[r].charge = c)
    <3>1. CASE CreateCharge(r)
        BY <1>0, <3>1 DEF CreateCharge, MemoryOK, Lost
    <3>2. CASE ~CreateCharge(r)
      <4>1. pc'[r] # "insert"
          BY <1>0, <1>3, <3>2, RequestShape DEF RequestStep, Arrive, InsertPayment, FindPayment,
                VerifyPayment, RefundPayment, SavePayment, Abort, Reply, Goto, MemoryOK,
                Local, Control
      <4> QED BY <4>1
    <3> QED BY <3>1, <3>2
  <2>5. \A id \in PaymentIds : ~Records(id, c)'
    <3>1. CASE InsertPayment(r)
      <4>1. entity[r].charge # c /\ entity[r] \in Payment
          BY <1>0, <3>1 DEF InsertPayment, Lost, Local, HoldsCharge
      <4>2. [entity[r] EXCEPT !.amount = Stored(@)].charge # c
          BY <4>1 DEF Payment
      <4>3. \/ UNCHANGED payments
            \/ \E id \in PaymentIds : payments' =
                  [payments EXCEPT ![id] = [entity[r] EXCEPT !.amount = Stored(@)]]
          BY <3>1 DEF InsertPayment
      <4> DEFINE row == [entity[r] EXCEPT !.amount = Stored(@)]
      <4> HIDE DEF row
      <4>4. row.charge # c /\ (\/ UNCHANGED payments
                               \/ \E id \in PaymentIds : payments' = [payments EXCEPT ![id] = row])
          BY <4>2, <4>3 DEF row
      <4> QED BY <1>0, <4>4 DEF Tables, Lost, Records
    <3>2. CASE SavePayment(r)
      <4>1. \A id \in PaymentIds : payments'[id] # NoRow /\ payments[id] # NoRow =>
                payments'[id].charge = payments[id].charge
          BY <2>1 DEF Sound, RowsKept
      <4>2. \A id \in PaymentIds : payments[id] = NoRow => payments'[id] = NoRow
        <5>1. arg[r].payment \in PaymentIds /\ payments[arg[r].payment] # NoRow
            BY <1>0, <3>2, RequestShape DEF SavePayment, Local, Control, HoldsPayment
        <5> QED BY <1>0, <3>2, <5>1 DEF SavePayment, Tables
      <4> QED BY <4>1, <4>2 DEF Lost, Records
    <3>3. CASE ~InsertPayment(r) /\ ~SavePayment(r)
      <4>1. UNCHANGED payments
          BY <1>3, <3>3 DEF RequestStep, Arrive, CreateCharge, FindPayment, VerifyPayment,
                RefundPayment, Abort
      <4> QED BY <4>1 DEF Lost, Records
    <3> QED BY <3>1, <3>2, <3>3
  <2> QED BY <2>2, <2>3, <2>4, <2>5 DEF Lost
<1>4. ASSUME NEW d \in ChargeIds, Settle(d) PROVE Lost(c)'
  <2>1. charges'[c] # NoRow /\ UNCHANGED <<payments, pc, entity>>
      BY <1>4, SettleOK DEF ChargesKept, Lost, Settle
  <2> QED BY <2>1 DEF Lost, Records
<1> QED BY <1>1, <1>2, <1>3, <1>4 DEF Next

\* A charge without a record is never recorded and never paid back.
THEOREM LostForGood == Spec => LostChargesStayLost
PROOF
<1>1. IInv /\ [Next]_vars =>
        [\A c \in ChargeIds : Lost(c) =>
            /\ Lost(c)'
            /\ \A f \in RefundIds : refunds'[f] # refunds[f] => refunds'[f].charge # c]_vars
    BY LostStep
<1> QED BY <1>1, Invariance, PTL DEF Spec, LostChargesStayLost
=============================================================================
