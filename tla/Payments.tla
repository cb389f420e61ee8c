------------------------------ MODULE Payments ------------------------------
(***************************************************************************)
(* The payments service (backend/src/payments/payments.service.ts) and the *)
(* provider behind IPaymentProvider.                                       *)
(*                                                                         *)
(* The provider's records (charges, refunds) and the table of payments are *)
(* two systems without a common transaction.  Every handler calls the      *)
(* provider and then saves; pc[r] names the call request r makes next.  A  *)
(* request arrives here once the guards admitted it.                       *)
(*                                                                         *)
(* What the provider may answer is a parameter: MockPaymentProvider always *)
(* answers 'completed' and 'refunded', the interface admits more.  Amounts *)
(* count thousandths, so that the rounding of the decimal(10,2) column is  *)
(* visible.  The currency, like the name of the provider, is left out.     *)
(***************************************************************************)
EXTENDS Integers

CONSTANTS
    Orgs,          \* ids of the organizations
    PaymentIds,    \* the uuids the database may draw for payments (bound)
    ChargeIds,     \* the providerPaymentIds the provider may draw (bound)
    RefundIds,     \* the refundIds the provider may draw (bound)
    Amounts,       \* amounts a client may ask for, in thousandths
    Limit,         \* the first amount decimal(10,2) cannot hold
    ChargeAnswers, \* states the provider may create a charge in
    RefundAnswers, \* states the provider may answer a refund with
    Requests,      \* requests in flight at one time (bound)
    NoRow          \* no row, no charge, no refund, no request

\* @Min(0.01)
ASSUME AmountAssumption == Amounts \subseteq {a \in Nat : a >= 10}

ASSUME AnswerAssumption ==
    /\ ChargeAnswers \subseteq {"pending", "completed", "failed"}
    /\ RefundAnswers \subseteq {"refunded", "failed"}

Statuses == {"PENDING", "COMPLETED", "FAILED", "REFUNDED"}

Payment == [org: Orgs, amount: Nat, status: Statuses, charge: ChargeIds]

Charge == [org: Orgs, amount: Amounts, status: {"pending", "completed", "failed"}]

Refund == [charge: ChargeIds, amount: Nat]

Request ==
         [op: {"create"}, org: Orgs, amount: Amounts]
    \cup [op: {"verify", "refund"}, org: Orgs, payment: PaymentIds]

ASSUME NullAssumption ==
    NoRow \notin Payment \cup Charge \cup Refund \cup Request

Points == {"idle", "charge", "insert", "find", "verify", "refund", "save"}

VARIABLES
    payments, \* table payments: per id, a row or NoRow
    charges,  \* the provider: per providerPaymentId, a charge or NoRow
    refunds,  \* the provider: per refundId, a refund or NoRow
    pc,       \* per request, the call it makes next
    arg,      \* per request, its parameters
    entity    \* per request, the payment its handler holds in memory

provider == <<charges, refunds>>
vars     == <<payments, charges, refunds, pc, arg, entity>>

\* What decimal(10,2) keeps of an amount.
Stored(amount) == ((amount + 5) \div 10) * 10

Init ==
    /\ payments = [id \in PaymentIds |-> NoRow]
    /\ charges = [c \in ChargeIds |-> NoRow]
    /\ refunds = [f \in RefundIds |-> NoRow]
    /\ pc     = [r \in Requests |-> "idle"]
    /\ arg    = [r \in Requests |-> NoRow]
    /\ entity = [r \in Requests |-> NoRow]

-----------------------------------------------------------------------------
(* Request control.                                                        *)

Goto(r, point) == pc' = [pc EXCEPT ![r] = point]

Reply(r) ==
    /\ Goto(r, "idle")
    /\ arg'    = [arg EXCEPT ![r] = NoRow]
    /\ entity' = [entity EXCEPT ![r] = NoRow]

Arrive(r) ==
    /\ pc[r] = "idle"
    /\ \E a \in Request :
         /\ arg' = [arg EXCEPT ![r] = a]
         /\ Goto(r, IF a.op = "create" THEN "charge" ELSE "find")
    /\ UNCHANGED <<payments, charges, refunds, entity>>

-----------------------------------------------------------------------------
(* createPayment.                                                          *)

\* A mutant: whatever did not fail counts as completed.
RecordedStatus_Optimistic(answer) ==
    IF answer # "failed" THEN "COMPLETED" ELSE "PENDING"

\* A mutant: the provider's own word is stored.
RecordedStatus_Raw(answer) == answer

\* result.status === 'completed' ? COMPLETED : PENDING; a charge that failed
\* is recorded PENDING too.
RecordedStatus(answer) == IF answer = "completed" THEN "COMPLETED" ELSE "PENDING"

\* paymentProvider.createPayment.  The handler keeps what it was answered.
CreateCharge(r) ==
    /\ pc[r] = "charge"
    /\ \E c \in ChargeIds, answer \in ChargeAnswers :
         /\ charges[c] = NoRow
         /\ charges' = [charges EXCEPT
              ![c] = [org |-> arg[r].org, amount |-> arg[r].amount, status |-> answer]]
         /\ entity' = [entity EXCEPT
              ![r] = [org |-> arg[r].org, amount |-> arg[r].amount,
                      status |-> RecordedStatus(answer), charge |-> c]]
    /\ Goto(r, "insert")
    /\ UNCHANGED <<payments, refunds, arg>>

\* paymentRepo.save of the new row; PostgreSQL rounds the amount, or refuses
\* it if it does not fit.
InsertPayment(r) ==
    /\ pc[r] = "insert"
    /\ \/ /\ Stored(entity[r].amount) < Limit
          /\ \E id \in PaymentIds :
               /\ payments[id] = NoRow
               /\ payments' = [payments EXCEPT
                    ![id] = [entity[r] EXCEPT !.amount = Stored(@)]]
       \/ /\ Stored(entity[r].amount) >= Limit
          /\ UNCHANGED payments
    /\ Reply(r)
    /\ UNCHANGED provider

-----------------------------------------------------------------------------
(* verifyPayment, refundPayment.                                           *)

\* A mutant: the lookup forgets the organization of the path.
Addressed_AnyTenant(r) ==
    {id \in {arg[r].payment} : payments[id] # NoRow}

\* findOne({ id: paymentId, organizationId: orgId }).
Addressed(r) ==
    {id \in {arg[r].payment} : payments[id] # NoRow /\ payments[id].org = arg[r].org}

FindPayment(r) ==
    /\ pc[r] = "find"
    /\ \/ \E id \in Addressed(r) :
            /\ entity' = [entity EXCEPT ![r] = payments[id]]
            /\ Goto(r, arg[r].op)
            /\ UNCHANGED arg
       \/ /\ Addressed(r) = {}
          /\ Reply(r)
    /\ UNCHANGED <<payments, charges, refunds>>

\* paymentProvider.verifyPayment; a charge that is not completed is not
\* verified, and then nothing is saved.
VerifyPayment(r) ==
    /\ pc[r] = "verify"
    /\ \/ /\ charges[entity[r].charge].status = "completed"
          /\ entity' = [entity EXCEPT ![r].status = "COMPLETED"]
          /\ Goto(r, "save")
          /\ UNCHANGED arg
       \/ /\ charges[entity[r].charge].status # "completed"
          /\ Reply(r)
    /\ UNCHANGED <<payments, charges, refunds>>

\* paymentProvider.refundPayment, with the amount of the row.  Its answer
\* is passed on to the client, and not looked at.
RefundPayment(r) ==
    /\ pc[r] = "refund"
    /\ \E answer \in RefundAnswers :
         IF answer = "refunded"
         THEN \E f \in RefundIds :
                /\ refunds[f] = NoRow
                /\ refunds' = [refunds EXCEPT
                     ![f] = [charge |-> entity[r].charge, amount |-> entity[r].amount]]
         ELSE UNCHANGED refunds
    /\ entity' = [entity EXCEPT ![r].status = "REFUNDED"]
    /\ Goto(r, "save")
    /\ UNCHANGED <<payments, charges, arg>>

\* paymentRepo.save of a loaded row: the status is the only column that can
\* differ, and rows are never deleted.
SavePayment(r) ==
    /\ pc[r] = "save"
    /\ payments' = [payments EXCEPT ![arg[r].payment].status = entity[r].status]
    /\ Reply(r)
    /\ UNCHANGED provider

-----------------------------------------------------------------------------
(* What happens to the service.                                            *)

\* A call of the request fails, or its process dies, before the call.
Abort(r) ==
    /\ pc[r] # "idle"
    /\ Reply(r)
    /\ UNCHANGED <<payments, charges, refunds>>

\* The provider settles a charge.
Settle(c) ==
    /\ charges[c] # NoRow
    /\ charges[c].status = "pending"
    /\ \E s \in {"completed", "failed"} :
         charges' = [charges EXCEPT ![c].status = s]
    /\ UNCHANGED <<payments, refunds, pc, arg, entity>>

RequestStep(r) ==
    \/ Arrive(r)
    \/ CreateCharge(r) \/ InsertPayment(r)
    \/ FindPayment(r) \/ VerifyPayment(r) \/ RefundPayment(r) \/ SavePayment(r)
    \/ Abort(r)

Next ==
    \/ \E r \in Requests : RequestStep(r)
    \/ \E c \in ChargeIds : Settle(c)

Spec == Init /\ [][Next]_vars

-----------------------------------------------------------------------------
(* Properties.                                                             *)

\* Table, provider and requests hold what they are declared to hold.
TypeOK ==
    /\ payments \in [PaymentIds -> Payment \cup {NoRow}]
    /\ charges \in [ChargeIds -> Charge \cup {NoRow}]
    /\ refunds \in [RefundIds -> Refund \cup {NoRow}]
    /\ pc \in [Requests -> Points]
    /\ arg \in [Requests -> Request \cup {NoRow}]
    /\ entity \in [Requests -> Payment \cup {NoRow}]

\* A and b are the same amount to half a cent.
SameMoney(a, b) == a - b <= 5 /\ b - a <= 5

Records(id, c) == payments[id] # NoRow /\ payments[id].charge = c

\* Table and provider agree on who was charged what: every payment is the
\* record of one charge made for its own organization, for the same amount
\* to half a cent, and a charge has one record at most.
RecordsMatchCharges ==
    \A id \in PaymentIds : payments[id] # NoRow =>
        LET c == payments[id].charge IN
        /\ charges[c] # NoRow
        /\ charges[c].org = payments[id].org
        /\ SameMoney(charges[c].amount, payments[id].amount)
        /\ \A other \in PaymentIds : Records(other, c) => other = id

\* No payment is recorded COMPLETED that the provider did not complete,
\* whichever verification, settlement and refund overlapped.
CompletedIsCollected ==
    \A id \in PaymentIds :
        payments[id] # NoRow /\ payments[id].status = "COMPLETED" =>
            charges[payments[id].charge].status = "completed"

\* A single refund never pays back another amount than was charged, to half
\* a cent: the amount is read from the rounded row, not from the provider.
RefundsMatchCharges ==
    \A f \in RefundIds : refunds[f] # NoRow =>
        /\ charges[refunds[f].charge] # NoRow
        /\ SameMoney(charges[refunds[f].charge].amount, refunds[f].amount)

\* The books of the service and of the provider agree, whatever requests,
\* settlements and failures overlapped: on who was charged what, on what was
\* collected and on what a refund pays back.
BooksAgree == RecordsMatchCharges /\ CompletedIsCollected /\ RefundsMatchCharges

\* Money goes back only on a request for the organization that was charged,
\* for a payment this organization has on record.
OnlyOwnRefunds ==
    [][\A f \in RefundIds : refunds'[f] # refunds[f] =>
          \E r \in Requests :
              /\ pc[r] = "refund"
              /\ arg[r].org = charges[refunds'[f].charge].org
              /\ Records(arg[r].payment, refunds'[f].charge)]_vars

\* A charge that is not recorded, and that no request is about to record.
Lost(c) ==
    /\ charges[c] # NoRow
    /\ \A id \in PaymentIds : ~Records(id, c)
    /\ \A r \in Requests : ~(pc[r] = "insert" /\ entity[r].charge = c)

\* createPayment charges first and inserts second: if it fails in between,
\* or the amount does not fit the column, no later call ever records or
\* refunds the charge.
LostChargesStayLost ==
    [][\A c \in ChargeIds : Lost(c) =>
          /\ Lost(c)'
          /\ \A f \in RefundIds : refunds'[f] # refunds[f] => refunds'[f].charge # c]_vars

-----------------------------------------------------------------------------
(* The inductive invariant behind the theorems of Payments_proofs.         *)

\* A request makes the calls of its own endpoint.
Control(r) ==
    /\ pc[r] # "idle" => arg[r] \in Request
    /\ pc[r] \in {"charge", "insert"} => arg[r].op = "create"
    /\ pc[r] \in {"find", "verify", "refund", "save"} => arg[r].op \in {"verify", "refund"}

\* createPayment holds the only reference to the charge it made.
HoldsCharge(r) ==
    LET c == entity[r].charge IN
    pc[r] = "insert" =>
        /\ entity[r] \in Payment
        /\ charges[c] # NoRow
        /\ charges[c].org = entity[r].org
        /\ charges[c].amount = entity[r].amount
        /\ entity[r].status = "COMPLETED" => charges[c].status = "completed"
        /\ entity[r].status # "REFUNDED"
        /\ \A id \in PaymentIds : ~Records(id, c)
        /\ \A s \in Requests : pc[s] = "insert" /\ entity[s].charge = c => s = r

\* verifyPayment and refundPayment hold a row of their own organization.
HoldsPayment(r) ==
    LET row == payments[arg[r].payment] IN
    pc[r] \in {"verify", "refund", "save"} =>
        /\ entity[r] \in Payment
        /\ row # NoRow
        /\ row.org = arg[r].org
        /\ row.charge = entity[r].charge
        /\ row.amount = entity[r].amount
        /\ pc[r] = "save" /\ entity[r].status = "COMPLETED" =>
               charges[entity[r].charge].status = "completed"

IInv ==
    /\ TypeOK
    /\ \A r \in Requests : Control(r) /\ HoldsCharge(r) /\ HoldsPayment(r)
    /\ RecordsMatchCharges
    /\ CompletedIsCollected
    /\ RefundsMatchCharges
=============================================================================
