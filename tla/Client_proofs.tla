---------------------------- MODULE Client_proofs ----------------------------
(***************************************************************************)
(* Theorems about the client: FormDrafts, for any number of texts, items   *)
(* and saves and any number of transactions under way; ClientPages, for    *)
(* any users, organizations, pages and calls under way; and ClientSession, *)
(* for any users, tokens and calls under way.                              *)
(***************************************************************************)
EXTENDS FormDrafts, ClientPages, ClientSession, FiniteSets, FiniteSetTheorems,
        SequenceTheorems, TLAPS

-----------------------------------------------------------------------------
(* FormDrafts.                                                             *)

QueueOK == queue \in Seq(Transaction)

(***************************************************************************)
(* The queue.                                                              *)
(***************************************************************************)

LEMMA Shapes ==
    ASSUME NEW x \in Transaction
    PROVE  /\ x.op \in {"put", "get", "delete"}
           /\ x.op = "put" => x.text \in Texts /\ x = Put(x.text)
           /\ x.op = "get" => x.here \in BOOLEAN
           /\ x.op = "delete" => x.save \in Saves
PROOF
    BY DEF Transaction, Put

LEMMA PutOK ==
    ASSUME NEW t \in Texts
    PROVE  /\ Put(t) \in Transaction
           /\ ~Reads(Put(t)) /\ ~Deletes(Put(t))
           /\ \A u : Put(u) = Put(t) => u = t
PROOF
    BY DEF Transaction, Put, Reads, Deletes

LEMMA Appended ==
    ASSUME QueueOK, NEW x \in Transaction, queue' = Append(queue, x)
    PROVE  /\ QueueOK'
           /\ Len(queue') = Len(queue) + 1
           /\ Len(queue) \in Nat
           /\ DOMAIN queue = 1 .. Len(queue)
           /\ DOMAIN queue' = 1 .. Len(queue) + 1
           /\ queue'[Len(queue) + 1] = x
           /\ \A k \in DOMAIN queue : queue'[k] = queue[k]
PROOF
    BY DEF QueueOK

LEMMA Popped ==
    ASSUME QueueOK, queue # <<>>, queue' = Tail(queue)
    PROVE  /\ QueueOK'
           /\ Len(queue') = Len(queue) - 1
           /\ Len(queue) \in Nat \ {0}
           /\ DOMAIN queue = 1 .. Len(queue)
           /\ DOMAIN queue' = 1 .. Len(queue) - 1
           /\ Head(queue) = queue[1]
           /\ Head(queue) \in Transaction
           /\ \A k \in DOMAIN queue' : queue'[k] = queue[k + 1]
PROOF
    BY HeadTailProperties, EmptySeq, LenProperties DEF QueueOK

LEMMA DesertedOK ==
    ASSUME NEW x \in Transaction
    PROVE  /\ Deserted(x) \in Transaction
           /\ Reads(Deserted(x)) <=> Reads(x)
           /\ Deletes(Deserted(x)) <=> Deletes(x)
           /\ \A t : Deserted(x) = Put(t) <=> x = Put(t)
PROOF
<1>1. CASE x.op = "get"
  <2>1. x \in [op: {"get"}, here: BOOLEAN]
      BY <1>1 DEF Transaction
  <2>2. Deserted(x) = [op |-> "get", here |-> FALSE] /\ x = [op |-> "get", here |-> x.here]
      BY <1>1, <2>1 DEF Deserted
  <2>3. [op |-> "get", here |-> FALSE] \in Transaction
      BY DEF Transaction
  <2> QED BY <2>2, <2>3 DEF Reads, Deletes, Put
<1>2. CASE x.op # "get"
    BY <1>2 DEF Deserted
<1> QED BY <1>1, <1>2

LEMMA DesertedQueue ==
    ASSUME QueueOK, queue' = [k \in DOMAIN queue |-> Deserted(queue[k])]
    PROVE  /\ QueueOK'
           /\ DOMAIN queue' = DOMAIN queue /\ Len(queue') = Len(queue)
           /\ \A k \in DOMAIN queue :
                /\ Reads(queue'[k]) <=> Reads(queue[k])
                /\ Deletes(queue'[k]) <=> Deletes(queue[k])
                /\ \A t : queue'[k] = Put(t) <=> queue[k] = Put(t)
PROOF
<1>1. /\ DOMAIN queue = 1 .. Len(queue) /\ Len(queue) \in Nat
      /\ \A k \in DOMAIN queue : queue[k] \in Transaction
    BY DEF QueueOK
<1>2. \A k \in DOMAIN queue : Deserted(queue[k]) \in Transaction
    BY <1>1, DesertedOK
<1>3. QueueOK' /\ DOMAIN queue' = DOMAIN queue /\ Len(queue') = Len(queue)
    BY <1>1, <1>2 DEF QueueOK
<1>4. \A k \in DOMAIN queue : queue'[k] = Deserted(queue[k])
    OBVIOUS
<1> QED BY <1>1, <1>3, <1>4, DesertedOK

(***************************************************************************)
(* What becomes of the draft.                                              *)
(***************************************************************************)

\* A save that is begun last is the one that counts.
LEMMA KeptPut ==
    ASSUME QueueOK, NEW t \in Texts, queue' = Append(queue, Put(t))
    PROVE  Kept(t)'
PROOF
    BY PutOK, Appended DEF Kept

\* Loading changes nothing.
LEMMA KeptGet ==
    ASSUME QueueOK, NEW t \in Texts, Kept(t), NEW x \in Transaction, Reads(x),
           queue' = Append(queue, x), stored' = stored
    PROVE  Kept(t)'
PROOF
<1>1. CASE \E k \in DOMAIN queue : /\ queue[k] = Put(t)
                                   /\ \A j \in DOMAIN queue : j > k => Reads(queue[j])
    BY <1>1, Appended DEF Kept
<1>2. CASE stored = t /\ \A k \in DOMAIN queue : Reads(queue[k])
    BY <1>2, Appended DEF Kept
<1> QED BY <1>1, <1>2 DEF Kept

\* The first transaction has run: it was a load, or another write follows, or
\* it was the save that counts and it succeeded.
LEMMA KeptPop ==
    ASSUME QueueOK, NEW t \in Texts, Kept(t), queue # <<>>, queue' = Tail(queue),
           \/ Reads(Head(queue)) /\ stored' = stored
           \/ ~Reads(Head(queue)) /\ (Head(queue) = Put(t) => stored' = t)
    PROVE  Kept(t)'
PROOF
<1>1. CASE stored = t /\ \A k \in DOMAIN queue : Reads(queue[k])
    BY <1>1, Popped DEF Kept
<1>2. ASSUME NEW k \in DOMAIN queue, queue[k] = Put(t),
             \A j \in DOMAIN queue : j > k => Reads(queue[j])
      PROVE  Kept(t)'
  <2>1. CASE k = 1
    <3>1. Head(queue) = Put(t) /\ ~Reads(Head(queue))
        BY <1>2, <2>1, Popped, PutOK
    <3>2. stored' = t
        BY <3>1
    <3>3. \A j \in DOMAIN queue' : Reads(queue'[j])
        BY <1>2, <2>1, Popped
    <3> QED BY <3>2, <3>3 DEF Kept
  <2>2. CASE k # 1
    <3>1. k - 1 \in DOMAIN queue' /\ queue'[k - 1] = Put(t)
        BY <1>2, <2>2, Popped
    <3>2. \A j \in DOMAIN queue' : j > k - 1 => Reads(queue'[j])
        BY <1>2, <2>2, Popped
    <3> QED BY <3>1, <3>2 DEF Kept
  <2> QED BY <2>1, <2>2
<1> QED BY <1>1, <1>2 DEF Kept

\* A deletion that is begun last drops every text.
LEMMA DroppedDelete ==
    ASSUME QueueOK, NEW t \in Texts, NEW x \in Transaction, Deletes(x),
           queue' = Append(queue, x)
    PROVE  Dropped(t)'
PROOF
<1>1. x # Put(t)
    BY PutOK
<1> QED BY <1>1, Appended DEF Dropped

\* Saving another text does not bring text t back.
LEMMA DroppedAppend ==
    ASSUME QueueOK, NEW t \in Texts, Dropped(t), NEW x \in Transaction, x # Put(t),
           queue' = Append(queue, x), stored' = stored
    PROVE  Dropped(t)'
PROOF
<1>1. stored' = t => \E j \in DOMAIN queue' : Deletes(queue'[j])
    BY Appended DEF Dropped
<1>2. ASSUME NEW k \in DOMAIN queue', queue'[k] = Put(t)
      PROVE  \E j \in DOMAIN queue' : j > k /\ Deletes(queue'[j])
  <2>1. k \in DOMAIN queue /\ queue[k] = Put(t)
      BY <1>2, Appended
  <2> QED BY <2>1, Appended DEF Dropped
<1> QED BY <1>1, <1>2 DEF Dropped

\* Whatever has run, text t is not back, unless its deletion failed.
LEMMA DroppedPop ==
    ASSUME QueueOK, NEW t \in Texts, Dropped(t), queue # <<>>, queue' = Tail(queue),
           stored' = t => \/ stored = t /\ ~Deletes(Head(queue))
                          \/ Head(queue) = Put(t)
    PROVE  Dropped(t)'
PROOF
<1>1. ASSUME stored' = t PROVE \E j \in DOMAIN queue' : Deletes(queue'[j])
  <2>1. PICK j \in DOMAIN queue : Deletes(queue[j]) /\ j # 1
      BY <1>1, Popped, PutOK DEF Dropped
  <2>2. j - 1 \in DOMAIN queue' /\ queue'[j - 1] = queue[j]
      BY <2>1, Popped
  <2> QED BY <2>1, <2>2
<1>2. ASSUME NEW k \in DOMAIN queue', queue'[k] = Put(t)
      PROVE  \E j \in DOMAIN queue' : j > k /\ Deletes(queue'[j])
  <2>1. k + 1 \in DOMAIN queue /\ queue[k + 1] = Put(t)
      BY <1>2, Popped
  <2>2. PICK j \in DOMAIN queue : j > k + 1 /\ Deletes(queue[j])
      BY <2>1 DEF Dropped
  <2>3. j - 1 \in DOMAIN queue' /\ j - 1 > k /\ queue'[j - 1] = queue[j]
      BY <2>1, <2>2, Popped
  <2> QED BY <2>2, <2>3
<1> QED BY <1>1, <1>2 DEF Dropped

\* A page that is left changes what happens after a load, not the draft.
LEMMA DesertedDraft ==
    ASSUME QueueOK, queue' = [k \in DOMAIN queue |-> Deserted(queue[k])],
           stored' = stored, NEW t \in Texts
    PROVE  (Kept(t) => Kept(t)') /\ (Dropped(t) => Dropped(t)')
PROOF
<1>1. Kept(t) => Kept(t)'
    BY DesertedQueue DEF Kept
<1>2. Dropped(t) => Dropped(t)'
    BY DesertedQueue DEF Dropped
<1> QED BY <1>1, <1>2

LEMMA AppendedTo ==
    ASSUME NEW s \in Seq(Transaction), NEW x \in Transaction
    PROVE  /\ Append(s, x) \in Seq(Transaction)
           /\ Len(Append(s, x)) = Len(s) + 1
           /\ DOMAIN Append(s, x) = 1 .. Len(s) + 1
           /\ Append(s, x)[Len(s) + 1] = x
           /\ \A k \in 1 .. Len(s) : Append(s, x)[k] = s[k]
PROOF
    OBVIOUS

\* The draft was loaded and saved again.
LEMMA PoppedAppended ==
    ASSUME QueueOK, queue # <<>>, NEW x \in Transaction, queue' = Append(Tail(queue), x)
    PROVE  /\ QueueOK'
           /\ Len(queue') = Len(queue)
           /\ Len(queue) \in Nat \ {0}
           /\ DOMAIN queue = 1 .. Len(queue)
           /\ DOMAIN queue' = 1 .. Len(queue)
           /\ queue'[Len(queue)] = x
           /\ \A k \in 1 .. Len(queue) - 1 : queue'[k] = queue[k + 1]
PROOF
<1> DEFINE rest == Tail(queue)
<1>1. /\ rest \in Seq(Transaction)
      /\ Len(queue) \in Nat \ {0}
      /\ Len(rest) = Len(queue) - 1
      /\ \A k \in 1 .. Len(rest) : rest[k] = queue[k + 1]
    BY HeadTailProperties, EmptySeq, LenProperties DEF QueueOK
<1>2. /\ queue' \in Seq(Transaction)
      /\ Len(queue') = Len(rest) + 1
      /\ DOMAIN queue' = 1 .. Len(rest) + 1
      /\ queue'[Len(rest) + 1] = x
      /\ \A k \in 1 .. Len(rest) : queue'[k] = rest[k]
    BY <1>1, AppendedTo
<1>3. DOMAIN queue = 1 .. Len(queue)
    BY DEF QueueOK
<1> QED BY <1>1, <1>2, <1>3 DEF QueueOK

LEMMA KeptRestored ==
    ASSUME QueueOK, queue # <<>>, NEW t \in Texts, queue' = Append(Tail(queue), Put(t))
    PROVE  Kept(t)'
PROOF
    BY PutOK, PoppedAppended DEF Kept

LEMMA DroppedRestored ==
    ASSUME QueueOK, NEW t \in Texts, NEW u \in Texts, u # t, Dropped(t), queue # <<>>,
           Reads(Head(queue)), queue' = Append(Tail(queue), Put(u)), stored' = stored
    PROVE  Dropped(t)'
PROOF
<1>1. Put(u) \in Transaction /\ Put(u) # Put(t)
    BY PutOK
<1>2. Head(queue) = queue[1] /\ ~Deletes(queue[1])
    BY DEF QueueOK, Reads, Deletes
<1>3. ASSUME NEW i \in DOMAIN queue, i # 1
      PROVE  i - 1 \in DOMAIN queue' /\ queue'[i - 1] = queue[i]
    BY <1>1, <1>3, PoppedAppended
<1>4. ASSUME stored' = t PROVE \E j \in DOMAIN queue' : Deletes(queue'[j])
  <2>1. PICK j \in DOMAIN queue : Deletes(queue[j]) /\ j # 1
      BY <1>2, <1>4 DEF Dropped
  <2> QED BY <2>1, <1>3
<1>5. ASSUME NEW k \in DOMAIN queue', queue'[k] = Put(t)
      PROVE  \E j \in DOMAIN queue' : j > k /\ Deletes(queue'[j])
  <2>1. k + 1 \in DOMAIN queue /\ queue[k + 1] = Put(t) /\ k \in Nat \ {0}
      BY <1>1, <1>5, PoppedAppended
  <2>2. PICK j \in DOMAIN queue : j > k + 1 /\ Deletes(queue[j])
      BY <2>1 DEF Dropped
  <2>3. j # 1 /\ j - 1 > k
      BY <1>1, <2>1, <2>2, PoppedAppended
  <2> QED BY <1>3, <2>2, <2>3
<1> QED BY <1>4, <1>5 DEF Dropped

(***************************************************************************)
(* The inductive invariant.                                                *)
(***************************************************************************)

OwedKept == owed # None => Kept(owed)

SpentDropped == \A t \in spent : Dropped(t)

\* What every step may use.
LEMMA DraftsFacts ==
    ASSUME IInv
    PROVE  /\ QueueOK /\ OwedKept /\ SpentDropped
           /\ owed # None => owed \in Texts
           /\ None \notin Texts \cup Items \cup Save \cup {Empty, Blank}
           /\ Empty \notin Texts \cup Items \cup {Blank}
           /\ Blank \notin Texts \cup Items
PROOF
    BY NoneAssumption DEF IInv, TypeOK, QueueOK, OwedKept, SpentDropped

LEMMA DraftsInitOK == Init => IInv
PROOF
<1> SUFFICES ASSUME Init PROVE IInv
    OBVIOUS
<1>1. queue \in Seq(Transaction) /\ Len(queue) <= MaxQueue
    BY EmptySeq, BoundAssumption DEF Init
<1>2. TypeOK
  <2>1. save \in [Saves -> Save \cup {None}]
      BY DEF Init
  <2> QED BY <1>1, <2>1 DEF Init, TypeOK, Values, Typed, Sources
<1>3. DialogOK
    BY DEF Init, DialogOK
<1>4. SavesAreOfTheDialog
    BY DEF Init, SavesAreOfTheDialog
<1> QED BY <1>2, <1>3, <1>4 DEF Init, IInv

LEMMA OpenCreateOK ==
    ASSUME IInv, OpenCreate PROVE IInv'
PROOF
<1> DEFINE x == [op |-> "get", here |-> TRUE]
<1> USE DraftsFacts DEF OpenCreate, Begin
<1>1. x \in Transaction /\ Reads(x)
    BY DEF Transaction, Reads
<1>2. TypeOK'
  <2>1. queue' \in Seq(Transaction) /\ Len(queue') <= MaxQueue
      BY <1>1, Appended, BoundAssumption DEF QueueOK
  <2> QED BY <2>1 DEF IInv, TypeOK
<1>3. DialogOK'
    BY DEF DialogOK
<1>4. SavesAreOfTheDialog'
    BY DEF IInv, SavesAreOfTheDialog
<1>5. OwedKept'
    BY <1>1, KeptGet DEF OwedKept
<1>6. SpentDropped'
  <2> SUFFICES ASSUME NEW t \in spent PROVE Dropped(t)'
      BY DEF SpentDropped
  <2>1. t \in Texts /\ x # Put(t)
      BY DEF IInv, TypeOK, Put
  <2> QED BY <1>1, <2>1, DroppedAppend DEF SpentDropped
<1> QED BY <1>2, <1>3, <1>4, <1>5, <1>6 DEF IInv, OwedKept, SpentDropped

\* A step that touches neither draft nor queue leaves what is due to them.
LEMMA DraftFramed ==
    ASSUME IInv, UNCHANGED <<stored, queue, owed>>, spent' \subseteq spent
    PROVE  OwedKept' /\ SpentDropped'
PROOF
    BY DEF IInv, OwedKept, SpentDropped, Kept, Dropped

LEMMA OpenEditOK ==
    ASSUME IInv, NEW i \in Items, OpenEdit(i) PROVE IInv'
PROOF
<1> USE DraftsFacts DEF OpenEdit, Fill
<1>1. TypeOK'
    BY DEF IInv, TypeOK, Values, Typed, Sources
<1>2. DialogOK'
    BY DEF DialogOK
<1>3. SavesAreOfTheDialog'
    BY DEF IInv, SavesAreOfTheDialog
<1> QED BY <1>1, <1>2, <1>3, DraftFramed DEF IInv, OwedKept, SpentDropped

\* The text of a new item is saved, or there is nothing to save.
LEMMA SaveDraftOK ==
    ASSUME IInv, NEW v \in Typed, SaveDraft(v), stored' = stored,
           owed' \in IF HasContent(v) THEN {v, None} ELSE {owed, None},
           spent' = spent \ {v}
    PROVE  queue' \in Seq(Transaction) /\ Len(queue') <= MaxQueue
           /\ OwedKept' /\ SpentDropped'
PROOF
<1> USE DraftsFacts, BoundAssumption
<1>1. CASE HasContent(v)
  <2>1. v \in Texts /\ Put(v) \in Transaction /\ queue' = Append(queue, Put(v))
      BY <1>1, PutOK DEF SaveDraft, Begin, HasContent, Typed
  <2>2. queue' \in Seq(Transaction) /\ Len(queue') <= MaxQueue
      BY <1>1, <2>1, Appended DEF SaveDraft, Begin, QueueOK
  <2>3. OwedKept'
    <3>1. owed' # None => owed' = v
        BY <1>1
    <3> QED BY <2>1, <3>1, KeptPut DEF OwedKept
  <2>4. SpentDropped'
    <3> SUFFICES ASSUME NEW t \in spent, t # v PROVE Dropped(t)'
        BY DEF SpentDropped
    <3>1. t \in Texts /\ Put(v) # Put(t) /\ Dropped(t)
        BY PutOK DEF IInv, TypeOK, SpentDropped
    <3> QED BY <2>1, <3>1, DroppedAppend
  <2> QED BY <2>2, <2>3, <2>4
<1>2. CASE ~HasContent(v)
  <2>1. UNCHANGED <<queue, stored>>
      BY <1>2 DEF SaveDraft
  <2>2. queue' \in Seq(Transaction) /\ Len(queue') <= MaxQueue
      BY <2>1 DEF IInv, TypeOK
  <2>3. OwedKept' /\ SpentDropped'
      BY <1>2, <2>1 DEF OwedKept, SpentDropped, Kept, Dropped
  <2> QED BY <2>2, <2>3
<1> QED BY <1>1, <1>2

LEMMA TypeStepOK ==
    ASSUME IInv, NEW v \in Typed, Type(v) PROVE IInv'
PROOF
<1> USE DraftsFacts DEF Type, Fill
<1>1. SavesAreOfTheDialog'
    BY DEF IInv, SavesAreOfTheDialog
<1>2. v \in Values /\ "user" \in Sources
    BY DEF Values, Typed, Sources
<1>3. CASE editing = None
  <2>1. owed' = IF HasContent(v) THEN v ELSE None
      BY <1>3
  <2>2. queue' \in Seq(Transaction) /\ Len(queue') <= MaxQueue /\ OwedKept' /\ SpentDropped'
      BY <1>3, <2>1, SaveDraftOK
  <2>3. owed' \in Texts \cup {None} /\ spent' \subseteq Texts
      BY <1>3, <2>1 DEF IInv, TypeOK, HasContent, Typed
  <2>4. TypeOK'
      BY <1>2, <2>2, <2>3 DEF IInv, TypeOK
  <2>5. DialogOK'
      BY <1>3, <2>1 DEF DialogOK
  <2> QED BY <1>1, <2>2, <2>4, <2>5 DEF IInv, OwedKept, SpentDropped
<1>4. CASE editing # None
  <2>1. TypeOK'
      BY <1>2, <1>4 DEF IInv, TypeOK
  <2>2. DialogOK'
      BY <1>4 DEF DialogOK
  <2> QED BY <1>1, <1>4, <2>1, <2>2, DraftFramed DEF IInv, OwedKept, SpentDropped
<1> QED BY <1>3, <1>4

LEMMA CancelOK ==
    ASSUME IInv, Cancel PROVE IInv'
PROOF
<1> USE DraftsFacts DEF Cancel
<1>1. DialogOK' /\ SavesAreOfTheDialog'
    BY DEF IInv, DialogOK, SavesAreOfTheDialog
<1>2. CASE editing = None
  <2>1. /\ ToPersist \in Typed
        /\ owed # None => ToPersist \in {owed, Empty}
      BY <1>2 DEF IInv, DialogOK, ToPersist
  <2>2. owed' \in IF HasContent(ToPersist) THEN {ToPersist, None} ELSE {owed, None}
      BY <2>1 DEF HasContent
  <2>3. queue' \in Seq(Transaction) /\ Len(queue') <= MaxQueue /\ OwedKept' /\ SpentDropped'
      BY <1>2, <2>1, <2>2, SaveDraftOK
  <2>4. TypeOK'
      BY <1>2, <2>3 DEF IInv, TypeOK
  <2> QED BY <1>1, <2>3, <2>4 DEF IInv, OwedKept, SpentDropped
<1>3. CASE editing # None
  <2>1. TypeOK'
      BY <1>3 DEF IInv, TypeOK
  <2> QED BY <1>1, <1>3, <2>1, DraftFramed DEF IInv, OwedKept, SpentDropped
<1> QED BY <1>2, <1>3

LEMMA LeaveOK ==
    ASSUME IInv, Leave PROVE IInv'
PROOF
<1> USE DraftsFacts DEF Leave, Mounted
<1>1. save' \in [Saves -> Save \cup {None}]
  <2>1. \A s \in Saves : save[s] \in Save \cup {None}
      BY DEF IInv, TypeOK
  <2>2. \A s \in Saves : save[s] # None => [save[s] EXCEPT !.here = FALSE] \in Save
      BY <2>1 DEF Save
  <2> QED BY <2>2
<1>2. TypeOK'
    BY <1>1, DesertedQueue DEF IInv, TypeOK, QueueOK, Values, Typed, Sources
<1>3. DialogOK'
    BY DEF DialogOK
<1>4. SavesAreOfTheDialog'
  <2> SUFFICES ASSUME NEW s \in Saves, save'[s] # None
               PROVE  /\ save[s] # None
                      /\ save'[s].item = save[s].item
                      /\ save'[s].text = save[s].text
                      /\ save'[s].source = save[s].source
      BY DEF IInv, SavesAreOfTheDialog
  <2>1. save[s] # None /\ save'[s] = [save[s] EXCEPT !.here = FALSE] /\ save[s] \in Save
      BY DEF IInv, TypeOK
  <2> QED BY <2>1 DEF Save
<1>5. OwedKept'
    BY DesertedDraft DEF OwedKept
<1>6. SpentDropped'
    BY DesertedDraft DEF IInv, TypeOK, SpentDropped
<1> QED BY <1>2, <1>3, <1>4, <1>5, <1>6 DEF IInv, OwedKept, SpentDropped

LEMMA ReloadOK ==
    ASSUME IInv, Reload PROVE IInv'
PROOF
<1> USE DraftsFacts DEF Reload, Mounted
<1>1. queue' \in Seq(Transaction) /\ Len(queue') <= MaxQueue /\ DOMAIN queue' = {}
    BY EmptySeq, BoundAssumption
<1>2. save' \in [Saves -> Save \cup {None}] /\ \A s \in Saves : save'[s] = None
    OBVIOUS
<1>3. owed' \in {owed, None} /\ spent' \subseteq spent
    OBVIOUS
<1>4. TypeOK'
    BY <1>1, <1>2, <1>3 DEF IInv, TypeOK, Values, Typed, Sources
<1>5. DialogOK'
    BY DEF DialogOK
<1>6. SavesAreOfTheDialog'
    BY <1>2 DEF SavesAreOfTheDialog
<1>7. CASE \A k \in DOMAIN queue : Reads(queue[k])
  <2>1. OwedKept'
    <3> SUFFICES ASSUME owed # None, owed' = owed PROVE Kept(owed)'
        BY <1>3 DEF OwedKept
    <3>1. stored = owed
        BY <1>7, PutOK DEF OwedKept, Kept
    <3> QED BY <1>1, <3>1 DEF Kept
  <2>2. SpentDropped'
    <3> SUFFICES ASSUME NEW t \in spent PROVE Dropped(t)'
        BY <1>3 DEF SpentDropped
    <3>1. stored # t
        BY <1>7 DEF SpentDropped, Dropped, Reads, Deletes
    <3> QED BY <1>1, <3>1 DEF Dropped
  <2> QED BY <1>4, <1>5, <1>6, <2>1, <2>2 DEF IInv, OwedKept, SpentDropped
<1>8. CASE owed' = None /\ spent' = {}
    BY <1>4, <1>5, <1>6, <1>8 DEF IInv
<1> QED BY <1>7, <1>8

LEMMA SubmitOK ==
    ASSUME IInv, NEW s \in Saves, Submit(s) PROVE IInv'
PROOF
<1> DEFINE new == [text |-> form, item |-> editing, source |-> source,
                   here |-> TRUE, state |-> "sent"]
<1> USE DraftsFacts DEF Submit
<1>1. new \in Save /\ save' = [save EXCEPT ![s] = new]
    BY DEF IInv, TypeOK, Save
<1>2. TypeOK'
    BY <1>1 DEF IInv, TypeOK
<1>3. DialogOK'
    BY DEF IInv, DialogOK
<1>4. SavesAreOfTheDialog'
  <2>1. /\ editing # None => form = editing \/ source \in {"user", "crossed"}
        /\ editing = None => form \in Texts \cup {Blank}
      BY DEF IInv, DialogOK, Valid, Typed
  <2>2. ASSUME NEW u \in Saves, u # s PROVE save'[u] = save[u]
      BY <2>2 DEF IInv, TypeOK
  <2>3. save'[s] = new
      BY DEF IInv, TypeOK
  <2> QED BY <2>1, <2>2, <2>3 DEF IInv, SavesAreOfTheDialog
<1> QED BY <1>2, <1>3, <1>4, DraftFramed DEF IInv, OwedKept, SpentDropped

\* A save that goes on is still the save of the same text for the same item.
LEMMA SavesFramed ==
    ASSUME IInv,
           \A s \in Saves : \/ save'[s] = None
                            \/ save[s] # None /\ save'[s].item = save[s].item
                               /\ save'[s].text = save[s].text
                               /\ save'[s].source = save[s].source
    PROVE  SavesAreOfTheDialog'
PROOF
    BY DEF IInv, SavesAreOfTheDialog

LEMMA SucceedOK ==
    ASSUME IInv, NEW s \in Saves, Succeed(s) PROVE IInv'
PROOF
<1> DEFINE x == [op |-> "delete", save |-> s]
<1> USE DraftsFacts DEF Succeed, Clear, Begin
<1>1. x \in Transaction /\ Deletes(x)
    BY DEF Transaction, Deletes
<1>2. save[s] \in Save /\ [save[s] EXCEPT !.state = "clearing"] \in Save
    BY DEF IInv, TypeOK, Save
<1>3. \A u \in Saves :
          save'[u] = IF u = s THEN [save[s] EXCEPT !.state = "clearing"] ELSE save[u]
    BY DEF IInv, TypeOK
<1>4. queue' \in Seq(Transaction) /\ Len(queue') <= MaxQueue
    BY <1>1, Appended, BoundAssumption DEF QueueOK
<1>5. spent' \subseteq Texts
    BY DEF IInv, TypeOK, SavesAreOfTheDialog
<1>6. TypeOK'
  <2>1. save' \in [Saves -> Save \cup {None}]
      BY <1>2 DEF IInv, TypeOK
  <2> QED BY <1>4, <1>5, <2>1 DEF IInv, TypeOK, Values, Typed
<1>7. DialogOK'
    BY DEF IInv, DialogOK, Typed
<1>8. SavesAreOfTheDialog'
    BY <1>2, <1>3, SavesFramed DEF Save
<1>9. SpentDropped'
    BY <1>1, <1>5, DroppedDelete DEF SpentDropped
<1> QED BY <1>6, <1>7, <1>8, <1>9 DEF IInv, SpentDropped

LEMMA RefuseOK ==
    ASSUME IInv, NEW s \in Saves, Refuse(s) PROVE IInv'
PROOF
<1> USE DraftsFacts DEF Refuse
<1>1. TypeOK'
    BY DEF IInv, TypeOK
<1>2. DialogOK'
    BY DEF IInv, DialogOK
<1>3. SavesAreOfTheDialog'
    BY SavesFramed DEF IInv, TypeOK
<1> QED BY <1>1, <1>2, <1>3, DraftFramed DEF IInv, OwedKept, SpentDropped

LEMMA RunPutOK ==
    ASSUME IInv, RunPut PROVE IInv'
PROOF
<1> USE DraftsFacts DEF RunPut, First, dialog
<1>1. /\ Head(queue).text \in Texts /\ Head(queue) = Put(Head(queue).text)
      /\ ~Reads(Head(queue)) /\ ~Deletes(Head(queue))
    BY Popped, Shapes DEF Reads, Deletes
<1>2. queue' \in Seq(Transaction) /\ Len(queue') <= MaxQueue
    BY Popped, BoundAssumption DEF IInv, TypeOK, QueueOK
<1>3. TypeOK'
    BY <1>1, <1>2 DEF IInv, TypeOK
<1>4. DialogOK' /\ SavesAreOfTheDialog'
    BY DEF IInv, DialogOK, SavesAreOfTheDialog
<1>5. OwedKept'
  <2> SUFFICES ASSUME owed' # None PROVE Kept(owed)'
      BY DEF OwedKept
  <2>1. owed' = owed /\ owed \in Texts /\ Kept(owed)
      BY DEF OwedKept
  <2>2. Head(queue) = Put(owed) => stored' = owed
      BY <1>1, <2>1, PutOK
  <2> QED BY <1>1, <2>1, <2>2, KeptPop DEF Kept
<1>6. SpentDropped'
  <2> SUFFICES ASSUME NEW t \in spent PROVE Dropped(t)'
      BY DEF SpentDropped
  <2>1. t \in Texts /\ Dropped(t)
      BY DEF IInv, TypeOK, SpentDropped
  <2> QED BY <1>1, <2>1, DroppedPop
<1> QED BY <1>3, <1>4, <1>5, <1>6 DEF IInv, OwedKept, SpentDropped

LEMMA RunStaleGetOK ==
    ASSUME IInv, RunStaleGet PROVE IInv'
PROOF
<1> USE DraftsFacts DEF RunStaleGet, First, dialog
<1>1. Reads(Head(queue)) /\ ~Deletes(Head(queue))
    BY DEF Reads, Deletes
<1>2. queue' \in Seq(Transaction) /\ Len(queue') <= MaxQueue
    BY Popped, BoundAssumption DEF IInv, TypeOK, QueueOK
<1>3. TypeOK'
    BY <1>2 DEF IInv, TypeOK
<1>4. DialogOK' /\ SavesAreOfTheDialog'
    BY DEF IInv, DialogOK, SavesAreOfTheDialog
<1>5. OwedKept'
    BY <1>1, KeptPop DEF OwedKept, Kept
<1>6. SpentDropped'
    BY <1>1, DroppedPop DEF IInv, TypeOK, SpentDropped
<1> QED BY <1>3, <1>4, <1>5, <1>6 DEF IInv, OwedKept, SpentDropped

LEMMA RunDeleteOK ==
    ASSUME IInv, RunDelete PROVE IInv'
PROOF
<1> DEFINE s == Head(queue).save
<1> USE DraftsFacts DEF RunDelete, First
<1>1. s \in Saves /\ Deletes(Head(queue)) /\ ~Reads(Head(queue))
      /\ \A t \in Texts : Head(queue) # Put(t)
    BY Popped, Shapes, PutOK DEF Reads, Deletes
<1>2. queue' \in Seq(Transaction) /\ Len(queue') <= MaxQueue
    BY Popped, BoundAssumption DEF IInv, TypeOK, QueueOK
<1>3. TypeOK'
    BY <1>1, <1>2 DEF IInv, TypeOK
<1>4. DialogOK'
    BY DEF IInv, DialogOK
<1>5. SavesAreOfTheDialog'
    BY SavesFramed DEF IInv, TypeOK
<1>6. OwedKept'
    BY <1>1, KeptPop DEF OwedKept, Kept
<1>7. SpentDropped'
  <2> SUFFICES ASSUME NEW t \in spent' PROVE Dropped(t)'
      BY DEF SpentDropped
  <2>1. t \in Texts /\ Dropped(t) /\ t # None
      BY DEF IInv, TypeOK, SpentDropped
  <2>2. stored' # t
    <3>1. CASE stored' = None
        BY <2>1, <3>1
    <3>2. CASE spent' = spent \ {stored} /\ stored' = stored
        BY <3>2
    <3> QED BY <3>1, <3>2
  <2> QED BY <2>1, <2>2, DroppedPop
<1> QED BY <1>3, <1>4, <1>5, <1>6, <1>7 DEF IInv, OwedKept, SpentDropped

LEMMA RunGetOK ==
    ASSUME IInv, RunGet PROVE IInv'
PROOF
<1> USE DraftsFacts DEF First
<1>1. PICK found \in {stored, None} :
        LET v == IF HasContent(found) THEN found ELSE Empty IN
        /\ Fill(v, IF editing = None THEN "draft" ELSE "crossed")
        /\ \/ /\ open /\ editing = None /\ HasContent(v)
              /\ queue' = Append(Tail(queue), Put(v))
              /\ spent' = spent \ {v}
           \/ /\ ~(open /\ editing = None /\ HasContent(v))
              /\ queue' = Tail(queue)
              /\ UNCHANGED spent
        /\ owed' = IF v \in {owed, Empty} THEN owed ELSE None
    BY DEF RunGet
<1> DEFINE v == IF HasContent(found) THEN found ELSE Empty
<1>2. /\ queue # <<>> /\ open' = TRUE /\ busy' = FALSE
      /\ UNCHANGED <<stored, editing, save>>
      /\ Reads(Head(queue)) /\ ~Deletes(Head(queue))
    BY DEF RunGet, Reads, Deletes
<1>3. v \in Typed /\ (HasContent(v) => v \in Texts)
    BY DEF IInv, TypeOK, HasContent, Typed
<1>4. owed' \in {owed, None} /\ (owed' # None => v \in {owed, Empty})
    BY <1>1
<1>5. /\ form' = v /\ latest' = v
      /\ source' = IF editing = None THEN "draft" ELSE "crossed"
    BY <1>1 DEF Fill
<1> HIDE DEF v
<1>6. DialogOK'
    BY <1>2, <1>3, <1>4, <1>5 DEF DialogOK
<1>7. SavesAreOfTheDialog'
    BY <1>2 DEF IInv, SavesAreOfTheDialog
<1>8. ASSUME queue' \in Seq(Transaction), Len(queue') <= MaxQueue, spent' \subseteq spent
      PROVE  TypeOK'
    BY <1>2, <1>3, <1>4, <1>5, <1>8 DEF IInv, TypeOK, Values, Typed, Sources
<1>9. CASE /\ open /\ editing = None /\ HasContent(v)
           /\ queue' = Append(Tail(queue), Put(v))
           /\ spent' = spent \ {v}
  <2>1. v \in Texts /\ v # Empty /\ Put(v) \in Transaction
      BY <1>3, <1>9, PutOK DEF HasContent
  <2>2. queue' \in Seq(Transaction) /\ Len(queue') <= MaxQueue
      BY <1>2, <1>9, <2>1, PoppedAppended DEF IInv, TypeOK, QueueOK
  <2>3. OwedKept'
    <3>1. owed' # None => owed' = v
        BY <1>4, <2>1
    <3> QED BY <1>2, <1>9, <2>1, <3>1, KeptRestored DEF OwedKept, Kept
  <2>4. SpentDropped'
    <3> SUFFICES ASSUME NEW t \in spent, t # v PROVE Dropped(t)'
        BY <1>9 DEF SpentDropped
    <3>1. t \in Texts /\ Dropped(t)
        BY DEF IInv, TypeOK, SpentDropped
    <3> QED BY <1>2, <1>9, <2>1, <3>1, DroppedRestored
  <2> QED BY <1>6, <1>7, <1>8, <1>9, <2>2, <2>3, <2>4 DEF IInv, OwedKept, SpentDropped
<1>10. CASE queue' = Tail(queue) /\ UNCHANGED spent
  <2>1. queue' \in Seq(Transaction) /\ Len(queue') <= MaxQueue
      BY <1>2, <1>10, Popped, BoundAssumption DEF IInv, TypeOK, QueueOK
  <2>2. OwedKept'
      BY <1>2, <1>4, <1>10, KeptPop DEF OwedKept, Kept
  <2>3. SpentDropped'
      BY <1>2, <1>10, DroppedPop DEF IInv, TypeOK, SpentDropped
  <2> QED BY <1>6, <1>7, <1>8, <1>10, <2>1, <2>2, <2>3 DEF IInv, OwedKept, SpentDropped
<1> QED BY <1>1, <1>9, <1>10 DEF v

LEMMA DraftsNextOK == IInv /\ [Next]_vars => IInv'
PROOF
<1> SUFFICES ASSUME IInv, [Next]_vars PROVE IInv'
    OBVIOUS
<1>1. CASE UserStep
    BY <1>1, OpenCreateOK, OpenEditOK, TypeStepOK, CancelOK, LeaveOK, ReloadOK DEF UserStep
<1>2. CASE \E s \in Saves : Submit(s) \/ Succeed(s) \/ Refuse(s)
    BY <1>2, SubmitOK, SucceedOK, RefuseOK
<1>3. CASE RunPut \/ RunGet \/ RunStaleGet \/ RunDelete
    BY <1>3, RunPutOK, RunGetOK, RunStaleGetOK, RunDeleteOK
<1>4. CASE UNCHANGED vars
  <2>1. TypeOK' /\ DialogOK' /\ SavesAreOfTheDialog'
      BY <1>4 DEF vars, IInv, TypeOK, DialogOK, SavesAreOfTheDialog
  <2> QED BY <1>4, <2>1, DraftFramed DEF vars, IInv, OwedKept, SpentDropped
<1> QED BY <1>1, <1>2, <1>3, <1>4 DEF Next

LEMMA DraftsInductive == Spec => []IInv
PROOF
    BY DraftsInitOK, DraftsNextOK, PTL DEF Spec

(***************************************************************************)
(* The theorems.                                                           *)
(***************************************************************************)

\* Dialog, queue and store keep their types: no draft is ever stored that has
\* no name (hasDraftContent), and onSubmit knows what it saves for which item.
THEOREM DraftsTypeCorrect == Spec => []TypeOK
PROOF
<1>1. IInv => TypeOK
    BY DEF IInv
<1> QED BY <1>1, DraftsInductive, PTL

\* What the user typed for a new item is the draft as soon as the transactions
\* under way have run, unless one failed, an item was saved, or a draft that was
\* loaded twice went over it: saveDraft at every keystroke and persistFormDraft
\* when the dialog closes are in the order of the typing.
THEOREM DraftsSurvive == Spec => []TypedIsKept
PROOF
<1>1. IInv => TypedIsKept
    BY DEF IInv, TypedIsKept, Kept
<1> QED BY <1>1, DraftsInductive, PTL

\* What was saved as a new item is not offered as a draft again: clearFormDraft
\* of the answer comes after every save of the text that was sent.
THEOREM DraftsEnd == Spec => []SavedIsNotOffered
PROOF
<1>1. IInv => SavedIsNotOffered
    BY DEF IInv, SavedIsNotOffered, Dropped
<1> QED BY <1>1, DraftsInductive, PTL

\* onSubmit overwrites an item with its own values or with what the user typed
\* for it, and makes a new item of typed text only, unless openCreate went on
\* while the dialog of an item was open.
THEOREM SavesBelong == Spec => []SavesAreOfTheDialog
PROOF
<1>1. IInv => SavesAreOfTheDialog
    BY DEF IInv
<1> QED BY <1>1, DraftsInductive, PTL

-----------------------------------------------------------------------------
(* ClientPages.                                                            *)

(***************************************************************************)
(* The inductive invariant.                                                *)
(***************************************************************************)

Asks(x) == x.kind \in {"load"} \cup Actions

Own(x) == <<x.user, x.org>>

\* With role r, a page fetches, or offers, what call x asks for.
Suits(x, r) ==
    /\ r \in Roles
    /\ x.kind = "load" /\ x.page = "payments" => r = "ADMIN"
    /\ x.kind \in {"writeProject", "deleteProject", "writeTask", "deleteTask"} => CanEdit(r)
    /\ x.kind \in {"manageMembers", "payments"} => r = "ADMIN"

\* A call that waits is of page p and user u; one of a store is no page's;
\* one about an organization has it.
Placed(x, p, u) ==
    /\ x.page # "none" => x.page = p /\ x.user = u
    /\ x.kind = "load" => x.page # "none"
    /\ x.kind \in {"login", "orgs", "create"} => x.page = "none"
    /\ Asks(x) => x.org \in Orgs
    /\ x.kind = "create" /\ x.answer = "ok" => x.org \in Orgs
    /\ x.kind \in Actions /\ x.page = "payments" => x.kind = "payments"

\* Before its answer, a call is one that the role of the user allows, by the
\* memberships m, unless that role is among those that changed, ch.
Allowed(x, m, ch) ==
    Asks(x) /\ x.answer = "none" /\ ~x.foreign /\ ~x.late /\ Own(x) \notin ch
        => Suits(x, m[Own(x)])

\* What an answer says is still so, unless the role changed since.
GrantsAction(x, m, ch) ==
    x.answer = "ok" /\ x.kind \in Actions /\ Own(x) \notin ch
        => m[Own(x)] \in Roles /\ Passes(x.kind, m[Own(x)])

GrantsOrg(x, m, ch) ==
    x.answer = "ok" /\ x.kind = "create" /\ Own(x) \notin ch => m[Own(x)] = "ADMIN"

Lists(x, m, ch) ==
    x.answer = "ok" /\ x.kind \in {"login", "orgs"}
        => \A o \in Orgs : <<x.user, o>> \notin ch => x.list[o] = m[<<x.user, o>>]

\* What RefusalsExplained says of a call.
IsExplained(x, m, ch) ==
    x.answer = "403" =>
        \/ x.foreign \/ x.late
        \/ Own(x) \in ch
        \/ x.kind = "deleteProject" /\ m[Own(x)] = "EDITOR"

Lawful(x, m, ch) ==
    Allowed(x, m, ch) /\ GrantsAction(x, m, ch) /\ GrantsOrg(x, m, ch) /\ Lists(x, m, ch)
    /\ IsExplained(x, m, ch)

CallsOK ==
    \A c \in Calls : call[c] # Idle =>
        Placed(call[c], page, user) /\ Lawful(call[c], member, moved)

\* The list lists no organization with another role than user u has, unless
\* the role changed since.
Agrees(list, u, m, ch) ==
    \A o \in Orgs : list[o] # NoRole =>
        /\ u # NoUser
        /\ <<u, o>> \notin ch => list[o] = m[<<u, o>>]

StoreOK == ~foreign => Agrees(organizations, user, member, moved)

\* What the page waits for is about the organization the user works in.
WaitsForCurrent == ~overlapped => \A c \in Calls : Waiting(c) => call[c].org = currentOrg.id

PagesIInv == PagesTypeOK /\ CallsOK /\ StoreOK /\ WaitsForCurrent /\ ListIsCurrent

(***************************************************************************)
(* Calls.                                                                  *)
(***************************************************************************)

LEMMA CallType ==
    ASSUME NEW x \in Call
    PROVE  /\ x # Idle
           /\ x.kind \in {"login", "orgs", "create", "load"} \cup Actions
           /\ x.user \in Users /\ x.user # NoUser
           /\ x.org \in Orgs \cup {NoOrg}
           /\ x.item \in Orgs \cup {NoOrg}
           /\ x.page \in Pages \cup {"none"}
           /\ x.foreign \in BOOLEAN /\ x.late \in BOOLEAN
           /\ x.answer \in {"none", "ok", "403", "404"}
           /\ x.list \in Listing
PROOF
    BY NullAssumption DEF Call

LEMMA NobodyOK ==
    /\ Nobody \in Listing
    /\ \A o \in Orgs : Nobody[o] = NoRole
PROOF
    BY DEF Nobody, Listing

\* The calls of the stores.
LEMMA StoreCallOK ==
    ASSUME NEW kind \in {"login", "orgs", "create"}, NEW u \in Users, NEW f \in BOOLEAN,
           NEW p, NEW v, NEW m, NEW ch
    PROVE  LET x == Started(kind, u, NoOrg, NoOrg, "none", f) IN
           x \in Call /\ x # Idle /\ Placed(x, p, v) /\ Lawful(x, m, ch) /\ x.page = "none"
PROOF
<1>. DEFINE x == Started(kind, u, NoOrg, NoOrg, "none", f)
<1>1. /\ x \in Call /\ x.kind = kind /\ x.page = "none" /\ x.answer = "none"
    BY NobodyOK DEF Started, Call
<1>2. ~Asks(x) /\ x.kind \notin Actions
    BY <1>1 DEF Asks, Actions
<1>3. x # Idle
    BY <1>1, CallType
<1>. QED
    BY <1>1, <1>2, <1>3 DEF Placed, Lawful, Allowed, GrantsAction, GrantsOrg, Lists, IsExplained

\* A call that is sent by a page.
LEMMA PageCallOK ==
    ASSUME NEW x \in Call, Asks(x), x.answer = "none", x.page # "none", x.org \in Orgs,
           x.kind # "load" /\ x.page = "payments" => x.kind = "payments",
           NEW m, NEW ch,
           ~x.foreign /\ ~x.late /\ Own(x) \notin ch => Suits(x, m[Own(x)])
    PROVE  Placed(x, x.page, x.user) /\ Lawful(x, m, ch)
PROOF
<1>1. x.kind \notin {"login", "orgs", "create"} /\ (x.kind \in Actions => x.kind # "load")
    BY DEF Asks, Actions
<1>2. Placed(x, x.page, x.user)
    BY <1>1 DEF Placed
<1>3. Lawful(x, m, ch)
    BY DEF Lawful, Allowed, GrantsAction, GrantsOrg, Lists, IsExplained
<1>. QED
    BY <1>2, <1>3

\* What is said of a call stays so while roles that change are among those
\* that are known to change, a membership that begins with the creation of an
\* organization is seen by no list that was answered before.
LEMMA LawfulLater ==
    ASSUME NEW x \in Call, NEW p, NEW v, Placed(x, p, v),
           NEW m, NEW ch, NEW m2, NEW ch2, Lawful(x, m, ch), ch \subseteq ch2,
           \A q \in Users \X Orgs :
               m2[q] # m[q] => q \in ch2 \/ (q \notin ch /\ m[q] = NoRole),
           x.answer = "ok" /\ x.kind \in {"login", "orgs"} =>
               \A o \in Orgs : m2[<<x.user, o>>] # m[<<x.user, o>>] => <<x.user, o>> \in ch2
    PROVE  Lawful(x, m2, ch2)
PROOF
<1>1. Asks(x) \/ (x.kind = "create" /\ x.answer = "ok") => Own(x) \in Users \X Orgs
    BY CallType DEF Placed, Own
<1>2. x.kind \in Actions => Asks(x)
    BY DEF Asks
<1>3. Allowed(x, m2, ch2)
    <2>. SUFFICES ASSUME Asks(x), x.answer = "none", ~x.foreign, ~x.late, Own(x) \notin ch2
                  PROVE  Suits(x, m2[Own(x)])
        BY DEF Allowed
    <2>1. Suits(x, m[Own(x)])
        BY DEF Lawful, Allowed
    <2>2. m[Own(x)] # NoRole
        BY <2>1, NullAssumption DEF Suits
    <2>. QED
        BY <1>1, <2>1, <2>2
<1>4. GrantsAction(x, m2, ch2)
    BY <1>1, <1>2, NullAssumption DEF Lawful, GrantsAction
<1>5. GrantsOrg(x, m2, ch2)
    BY <1>1, NullAssumption DEF Lawful, GrantsOrg, Roles
<1>6. Lists(x, m2, ch2)
    BY CallType DEF Lawful, Lists
<1>7. IsExplained(x, m2, ch2)
    <2>1. x.kind = "deleteProject" => Asks(x)
        BY DEF Asks, Actions
    <2>. QED
        BY <1>1, <2>1, NullAssumption DEF Lawful, IsExplained, Roles
<1>. QED
    BY <1>3, <1>4, <1>5, <1>6, <1>7 DEF Lawful

\* An answer other than a grant says nothing of roles.
LEMMA ListsOK ==
    ASSUME NEW x \in Call, NEW y \in Call, NEW m, NEW ch, NEW p, NEW v, Placed(x, p, v),
           x.kind \in {"login", "orgs"},
           y = [x EXCEPT !.answer = "ok", !.list = [o \in Orgs |-> m[<<x.user, o>>]]]
    PROVE  Placed(y, p, v) /\ Lawful(y, m, ch)
PROOF
<1>1. /\ y.kind = x.kind /\ y.user = x.user /\ y.page = x.page /\ y.answer = "ok"
      /\ y.list = [o \in Orgs |-> m[<<x.user, o>>]]
    BY DEF Call
<1>2. ~Asks(y) /\ y.kind \notin Actions /\ y.kind # "create"
    BY <1>1 DEF Asks, Actions
<1>. QED
    BY <1>1, <1>2 DEF Placed, Lawful, Allowed, GrantsAction, GrantsOrg, Lists, IsExplained

(***************************************************************************)
(* The backend's verdicts.                                                 *)
(***************************************************************************)

\* What a page that suits a role fetches, the guards let pass.
LEMMA LoadsPass ==
    ASSUME NEW p \in AllPages, NEW r \in Roles, p = "payments" => r = "ADMIN"
    PROVE  \A e \in Loads[p] : Passes(e, r)
PROOF
    BY DEF AllPages, Roles, Loads, Passes, RequiredPermissions, RolePermissions,
           RequiredRoles, Read, Edit

\* What a page that suits a role offers, they let pass but for the deletion
\* of a project by an editor.
LEMMA OffersPass ==
    ASSUME NEW x, NEW r, x.kind \in Actions, Suits(x, r), ~Passes(x.kind, r)
    PROVE  x.kind = "deleteProject" /\ r = "EDITOR"
PROOF
    BY DEF Actions, Suits, CanEdit, Roles, Passes, RequiredPermissions, RolePermissions,
           RequiredRoles, Read, Edit

\* The other way round, what they let pass suits the page.
LEMMA PaymentsPass ==
    ASSUME NEW r \in Roles, Passes("payments", r)
    PROVE  r = "ADMIN"
PROOF
    BY DEF Passes, Roles, RequiredRoles, RequiredPermissions

(***************************************************************************)
(* The store and the backend.                                              *)
(***************************************************************************)

LEMMA OrgType ==
    /\ Nothing \notin Org
    /\ \A x \in Org : x.id \in Orgs /\ x.id # NoOrg /\ x.role \in Roles /\ x.role # NoRole
    /\ Nothing.id = NoOrg
PROOF
    BY NullAssumption DEF Org, Nothing

LEMMA AgreesLater ==
    ASSUME NEW list, NEW u \in Users \cup {NoUser}, NEW m, NEW ch, NEW m2, NEW ch2,
           Agrees(list, u, m, ch), ch \subseteq ch2,
           \A q \in Users \X Orgs :
               m2[q] # m[q] => q \in ch2 \/ (q \notin ch /\ m[q] = NoRole)
    PROVE  Agrees(list, u, m2, ch2)
PROOF
<1>. SUFFICES ASSUME NEW o \in Orgs, list[o] # NoRole
              PROVE  u # NoUser /\ (<<u, o>> \notin ch2 => list[o] = m2[<<u, o>>])
    BY DEF Agrees
<1>1. u # NoUser /\ (<<u, o>> \notin ch => list[o] = m[<<u, o>>])
    BY DEF Agrees
<1>2. <<u, o>> \in Users \X Orgs
    BY <1>1
<1>. QED
    BY <1>1, <1>2

\* An organization of a list that agrees: the backend knows the same role.
LEMMA RoleIs ==
    ASSUME NEW list, NEW new \in Org, NEW u, NEW m, NEW ch, new = In(list, new.id),
           Agrees(list, u, m, ch), <<u, new.id>> \notin ch
    PROVE  m[<<u, new.id>>] = new.role
PROOF
<1>1. new.role = list[new.id] /\ new.id \in Orgs /\ new.role # NoRole
    BY OrgType DEF In
<1>. QED
    BY <1>1 DEF Agrees

LEMMA ChosenOK ==
    ASSUME PagesTypeOK, NEW list \in Listing, NEW new \in Chosen(list)
    PROVE  /\ new \in Org \cup {Nothing}
           /\ new # Nothing => new = In(list, new.id)
           /\ new = Nothing => list = Nobody
PROOF
<1>1. ASSUME NEW o \in Orgs, list[o] # NoRole
      PROVE  /\ In(list, o) \in Org /\ In(list, o) # Nothing
             /\ In(list, o) = In(list, In(list, o).id)
    BY <1>1, OrgType DEF In, Org, Listing
<1>2. currentOrg # Nothing => currentOrg.id \in Orgs
    BY OrgType DEF PagesTypeOK
<1>3. CASE currentOrg # Nothing /\ list[currentOrg.id] # NoRole
    BY <1>1, <1>2, <1>3 DEF Chosen
<1>4. CASE ~(currentOrg # Nothing /\ list[currentOrg.id] # NoRole) /\ list = Nobody
    BY <1>4 DEF Chosen
<1>5. CASE ~(currentOrg # Nothing /\ list[currentOrg.id] # NoRole) /\ list # Nobody
    BY <1>1, <1>5 DEF Chosen
<1>. QED
    BY <1>3, <1>4, <1>5

(***************************************************************************)
(* Leaving a page.                                                         *)
(***************************************************************************)

LEMMA LeftOK ==
    ASSUME PagesTypeOK, CallsOK, NEW c \in Calls, NEW p, NEW u
    PROVE  /\ Left[c] \in Call \cup {Idle}
           /\ Left[c] # Idle =>
                /\ Left[c].page = "none"
                /\ Placed(Left[c], p, u) /\ Lawful(Left[c], member, moved)
PROOF
<1>1. CASE call[c] = Idle
    BY <1>1 DEF Left
<1>2. CASE call[c] # Idle /\ call[c].kind = "load"
    BY <1>2 DEF Left
<1>3. CASE call[c] # Idle /\ call[c].kind # "load"
    <2>. DEFINE x == call[c]
                y == [x EXCEPT !.page = "none"]
    <2>1. Left[c] = y
        BY <1>3 DEF Left
    <2>2. x \in Call /\ Placed(x, page, user) /\ Lawful(x, member, moved)
        BY <1>3 DEF PagesTypeOK, CallsOK
    <2>. HIDE DEF x
    <2>3. /\ y \in Call /\ y.page = "none"
          /\ y.kind = x.kind /\ y.user = x.user /\ y.org = x.org /\ y.foreign = x.foreign
          /\ y.late = x.late /\ y.answer = x.answer /\ y.list = x.list
        BY <2>2 DEF Call
    <2>. HIDE DEF y
    <2>4. x.kind # "load"
        BY <1>3 DEF x
    <2>5. Placed(y, p, u)
        BY <2>2, <2>3, <2>4, PagesAssumption DEF Placed, Asks, AllPages
    <2>6. Own(y) = Own(x) /\ (Asks(y) <=> Asks(x))
        BY <2>3 DEF Own, Asks
    <2>7. \A r : Suits(x, r) => Suits(y, r)
        BY <2>3, <2>4 DEF Suits
    <2>8. Allowed(y, member, moved)
        BY <2>2, <2>3, <2>6, <2>7 DEF Lawful, Allowed
    <2>9. Lawful(y, member, moved)
        BY <2>2, <2>3, <2>6, <2>8 DEF Lawful, GrantsAction, GrantsOrg, Lists, IsExplained
    <2>. QED
        BY <2>1, <2>3, <2>5, <2>9
<1>. QED
    BY <1>1, <1>2, <1>3

\* The fetch of page p for organization new, which may be late.
LEMMA FetchOK ==
    ASSUME NEW x \in Call, x.kind = "load", x.answer = "none", x.page # "none",
           NEW new \in Org, x.org = new.id,
           NEW list, NEW m, NEW ch,
           new = In(list, new.id), ~x.foreign => Agrees(list, x.user, m, ch),
           ~x.late /\ x.page = "payments" => new.role = "ADMIN"
    PROVE  x # Idle /\ Placed(x, x.page, x.user) /\ Lawful(x, m, ch)
PROOF
<1>1. new.id \in Orgs /\ new.role \in Roles
    BY OrgType
<1>2. Asks(x) /\ Own(x) = <<x.user, new.id>> /\ x.kind \notin Actions
    BY DEF Asks, Own, Actions
<1>3. ASSUME ~x.foreign, ~x.late, Own(x) \notin ch
      PROVE  Suits(x, m[Own(x)])
    BY <1>1, <1>2, <1>3, RoleIs DEF Suits, Actions
<1>. QED
    BY <1>1, <1>2, <1>3, CallType, PageCallOK

(***************************************************************************)
(* What Turn and Mount do.                                                 *)
(***************************************************************************)

\* The store holds organization new with its list.
Holds(new, list) ==
    /\ new \in Org \cup {Nothing}
    /\ new # Nothing => new = In(list, new.id)
    /\ new = Nothing => list = Nobody

LEMMA TurnOK ==
    ASSUME PagesIInv, NEW new, NEW c \in Calls, Turn(new, c, foreign'), foreign' \in BOOLEAN,
           organizations' \in Listing, Holds(new, organizations'),
           UNCHANGED <<server, user, moved>>, StoreOK'
    PROVE  PagesIInv'
PROOF
<1>. DEFINE x == [Load(page, board, new.id, foreign') EXCEPT !.late = Late(new)]
<1>1. /\ UNCHANGED <<member, changes, user, moved, page, board, shown, failed>>
      /\ currentOrg' = new
      /\ overlapped' = (overlapped
                          \/ (new.id # currentOrg.id /\ \E d \in Calls \ {c} : Waiting(d)))
      /\ \/ Refetches(new) /\ call' = [call EXCEPT ![c] = x] /\ loading' = TRUE
         \/ ~Refetches(new) /\ call' = [call EXCEPT ![c] = Idle] /\ loading' = loading
    BY DEF Turn, server
<1>2. Refetches(new) => /\ x \in Call /\ x # Idle /\ Placed(x, page, user)
                        /\ Lawful(x, member, moved) /\ x.org = new.id
    <2>. SUFFICES ASSUME Refetches(new)
                  PROVE  /\ x \in Call /\ x # Idle /\ Placed(x, page, user)
                         /\ Lawful(x, member, moved) /\ x.org = new.id
        OBVIOUS
    <2>1. page \in Pages /\ user \in Users /\ new \in Org /\ board \in Orgs \cup {NoOrg}
        BY DEF Refetches, PagesIInv, PagesTypeOK, Holds
    <2>2. ~foreign' => Agrees(organizations', user, member, moved)
        BY <1>1 DEF StoreOK
    <2>3. new = In(organizations', new.id)
        BY <2>1, OrgType DEF Holds
    <2>4. Late(new) \in BOOLEAN /\ (~Late(new) /\ page = "payments" => new.role = "ADMIN")
        BY DEF Late
    <2>5. new.id \in Orgs /\ page # "none"
        BY <2>1, OrgType DEF Refetches
    <2>6. /\ x \in Call /\ x.kind = "load" /\ x.answer = "none" /\ x.page = page
          /\ x.user = user /\ x.org = new.id /\ x.foreign = foreign' /\ x.late = Late(new)
        BY <2>1, <2>4, <2>5, NobodyOK DEF Load, Started, Call
    <2>. HIDE DEF x
    <2>7. ~x.foreign => Agrees(organizations', x.user, member, moved)
        BY <2>2, <2>6
    <2>. QED
        BY <2>1, <2>3, <2>4, <2>5, <2>6, <2>7, FetchOK
<1>. HIDE DEF x
<1>3. call \in [Calls -> Call \cup {Idle}]
    BY DEF PagesIInv, PagesTypeOK
<1>4. /\ call'[c] = Idle \/ (Refetches(new) /\ call'[c] = x)
      /\ \A d \in Calls \ {c} : call'[d] = call[d]
    BY <1>1, <1>3
<1>5. PagesTypeOK'
    <2>1. call' \in [Calls -> Call \cup {Idle}]
        BY <1>1, <1>2, <1>3
    <2>2. {loading', overlapped'} \subseteq BOOLEAN
        BY <1>1 DEF PagesIInv, PagesTypeOK
    <2>. QED
        BY <1>1, <2>1, <2>2 DEF PagesIInv, PagesTypeOK, Holds
<1>6. CallsOK'
    BY <1>1, <1>2, <1>4 DEF PagesIInv, CallsOK
<1>7. WaitsForCurrent'
    <2>. SUFFICES ASSUME ~overlapped', NEW d \in Calls, Waiting(d)'
                  PROVE  call'[d].org = new.id
        BY <1>1 DEF WaitsForCurrent
    <2>1. CASE d = c
        BY <1>2, <1>4, <2>1 DEF Waiting, Free
    <2>2. CASE d # c
        <3>1. Waiting(d) /\ call'[d] = call[d]
            BY <1>1, <1>4, <2>2 DEF Waiting, Free
        <3>2. ~overlapped /\ new.id = currentOrg.id
            BY <1>1, <2>2, <3>1
        <3>. QED
            BY <3>1, <3>2 DEF PagesIInv, WaitsForCurrent
    <2>. QED
        BY <2>1, <2>2
<1>8. ListIsCurrent'
    <2>. SUFFICES ASSUME Wants(page, new), shown # NoOrg, ~loading', ~overlapped', ~failed
                  PROVE  shown = new.id
        BY <1>1 DEF ListIsCurrent
    <2>1. ~Refetches(new) /\ ~loading
        BY <1>1
    <2>2. ~overlapped
        BY <1>1
    <2>3. new.id = currentOrg.id /\ Wants(page, currentOrg)
        BY <2>1, OrgType DEF Refetches, Wants, Holds
    <2>. QED
        BY <2>1, <2>2, <2>3 DEF PagesIInv, ListIsCurrent
<1>. QED
    BY <1>5, <1>6, <1>7, <1>8 DEF PagesIInv

LEMMA MountOK ==
    ASSUME PagesIInv, NEW p \in Pages, NEW b \in Orgs \cup {NoOrg}, NEW new, NEW c \in Calls,
           Mount(p, b, new, c, foreign'), currentOrg' = new, foreign' \in BOOLEAN,
           user # NoUser, organizations' \in Listing, Holds(new, organizations'),
           UNCHANGED <<server, user, moved>>, StoreOK'
    PROVE  PagesIInv'
PROOF
<1>. DEFINE x == Load(p, b, new.id, foreign')
<1>1. /\ UNCHANGED <<member, changes, user, moved>>
      /\ page' = p /\ board' = b /\ shown' = NoOrg /\ overlapped' = FALSE /\ failed' = FALSE
      /\ loading' = Wants(p, new)
      /\ call' = [Left EXCEPT ![c] = IF Wants(p, new) THEN x ELSE Idle]
    BY DEF Mount, server
<1>2. Wants(p, new) => /\ x \in Call /\ x # Idle /\ Placed(x, p, user)
                       /\ Lawful(x, member, moved) /\ x.org = new.id
    <2>. SUFFICES ASSUME Wants(p, new)
                  PROVE  /\ x \in Call /\ x # Idle /\ Placed(x, p, user)
                         /\ Lawful(x, member, moved) /\ x.org = new.id
        OBVIOUS
    <2>1. user \in Users /\ new \in Org /\ new = In(organizations', new.id)
        BY DEF Wants, PagesIInv, PagesTypeOK, Holds
    <2>2. ~foreign' => Agrees(organizations', user, member, moved)
        BY <1>1 DEF StoreOK
    <2>3. p = "payments" => new.role = "ADMIN"
        BY DEF Wants
    <2>4. new.id \in Orgs /\ p # "none"
        BY <2>1, OrgType DEF Wants
    <2>5. /\ x \in Call /\ x.kind = "load" /\ x.answer = "none" /\ x.page = p
          /\ x.user = user /\ x.org = new.id /\ x.foreign = foreign'
        BY <2>1, <2>4, NobodyOK DEF Load, Started, Call
    <2>. HIDE DEF x
    <2>6. ~x.foreign => Agrees(organizations', x.user, member, moved)
        BY <2>2, <2>5
    <2>. QED
        BY <2>1, <2>3, <2>4, <2>5, <2>6, FetchOK
<1>. HIDE DEF x
<1>3. /\ \A d \in Calls : Left[d] \in Call \cup {Idle}
      /\ \A d \in Calls : Left[d] # Idle =>
           Left[d].page = "none" /\ Placed(Left[d], p, user) /\ Lawful(Left[d], member, moved)
    BY LeftOK DEF PagesIInv
<1>4. /\ call'[c] = Idle \/ (Wants(p, new) /\ call'[c] = x)
      /\ \A d \in Calls \ {c} : call'[d] = Left[d]
      /\ DOMAIN Left = Calls
    BY <1>1 DEF Left
<1>5. PagesTypeOK'
    <2>1. call' \in [Calls -> Call \cup {Idle}]
        BY <1>1, <1>2, <1>3, <1>4
    <2>2. p # "none" /\ Wants(p, new) \in BOOLEAN
        BY PagesAssumption DEF AllPages, Wants
    <2>. QED
        BY <1>1, <2>1, <2>2 DEF PagesIInv, PagesTypeOK, Holds
<1>6. CallsOK'
    BY <1>1, <1>2, <1>3, <1>4 DEF CallsOK
<1>7. WaitsForCurrent'
    <2>. SUFFICES ASSUME NEW d \in Calls, Waiting(d)'
                  PROVE  call'[d].org = new.id
        BY DEF WaitsForCurrent
    <2>1. d = c
        BY <1>1, <1>3, <1>4 DEF Waiting, Free
    <2>. QED
        BY <1>2, <1>4, <2>1 DEF Waiting, Free
<1>8. ListIsCurrent'
    BY <1>1 DEF ListIsCurrent
<1>. QED
    BY <1>5, <1>6, <1>7, <1>8 DEF PagesIInv
(***************************************************************************)
(* The steps: of the user,                                                 *)
(***************************************************************************)

\* A step that leaves store and page alone.
LEMMA QuietOK ==
    ASSUME PagesIInv, UNCHANGED <<stores, screen>>, CallsOK',
           member' \in [Users \X Orgs -> Roles \cup {NoRole}], changes' \in 0 .. MaxChanges,
           moved \subseteq moved', moved' \subseteq Users \X Orgs,
           \A q \in Users \X Orgs :
               member'[q] # member[q] => q \in moved' \/ (q \notin moved /\ member[q] = NoRole),
           call' \in [Calls -> Call \cup {Idle}],
           \A c \in Calls : Waiting(c)' =>
               (Waiting(c) /\ call'[c].org = call[c].org) \/ call'[c].org = currentOrg.id
    PROVE  PagesIInv'
PROOF
<1>1. /\ UNCHANGED <<user, organizations, currentOrg, foreign>>
      /\ UNCHANGED <<page, board, shown, loading, overlapped, failed>>
    BY DEF stores, screen
<1>2. PagesTypeOK'
    BY <1>1 DEF PagesIInv, PagesTypeOK
<1>3. StoreOK'
    <2>. SUFFICES ASSUME ~foreign
                  PROVE  Agrees(organizations, user, member', moved')
        BY <1>1 DEF StoreOK
    <2>1. user \in Users \cup {NoUser} /\ Agrees(organizations, user, member, moved)
        BY DEF PagesIInv, PagesTypeOK, StoreOK
    <2>. QED
        BY <2>1, AgreesLater
<1>4. WaitsForCurrent'
    BY <1>1 DEF PagesIInv, WaitsForCurrent
<1>5. ListIsCurrent'
    BY <1>1 DEF PagesIInv, ListIsCurrent, Wants
<1>. QED
    BY <1>2, <1>3, <1>4, <1>5 DEF PagesIInv

LEMMA LoginOK ==
    ASSUME PagesIInv, NEW u \in Users, Login(u)
    PROVE  PagesIInv'
PROOF
<1>. DEFINE x == Started("login", u, NoOrg, NoOrg, "none", FALSE)
            y == Started("orgs", u, NoOrg, NoOrg, "none", FALSE)
<1>1. PICK c \in Calls, d \in Calls :
        c # d /\ Free(c) /\ Free(d) /\ call' = [call EXCEPT ![c] = x, ![d] = y]
    BY DEF Login
<1>2. /\ user = NoUser /\ user' = u /\ organizations' = Nobody /\ currentOrg' = Nothing
      /\ foreign' = FALSE /\ page' = "dashboard"
      /\ UNCHANGED <<member, changes, board, shown, loading, overlapped, failed, moved>>
    BY DEF Login, server
<1>3. /\ x \in Call /\ x # Idle /\ Placed(x, "dashboard", u) /\ Lawful(x, member, moved)
      /\ x.page = "none"
      /\ y \in Call /\ y # Idle /\ Placed(y, "dashboard", u) /\ Lawful(y, member, moved)
      /\ y.page = "none"
    BY StoreCallOK
<1>. HIDE DEF x, y
<1>4. page = "none" /\ call \in [Calls -> Call \cup {Idle}]
    BY <1>2 DEF PagesIInv, PagesTypeOK
<1>5. call'[c] = x /\ call'[d] = y /\ \A e \in Calls \ {c, d} : call'[e] = call[e]
    BY <1>1, <1>4
<1>6. \A e \in Calls : call'[e] # Idle =>
        /\ Placed(call'[e], "dashboard", u) /\ Lawful(call'[e], member, moved)
        /\ call'[e].page = "none"
    <2>. SUFFICES ASSUME NEW e \in Calls \ {c, d}, call[e] # Idle
                  PROVE  /\ Placed(call[e], "dashboard", u) /\ Lawful(call[e], member, moved)
                         /\ call[e].page = "none"
        BY <1>3, <1>5
    <2>1. Placed(call[e], page, user) /\ Lawful(call[e], member, moved)
        BY DEF PagesIInv, CallsOK
    <2>2. call[e].page = "none"
        BY <1>4, <2>1 DEF Placed
    <2>. QED
        BY <2>1, <2>2 DEF Placed
<1>7. PagesTypeOK'
    <2>1. call' \in [Calls -> Call \cup {Idle}]
        BY <1>1, <1>3, <1>4
    <2>2. "dashboard" \in Pages /\ u # NoUser /\ Nobody \in Listing
        BY PagesAssumption, NullAssumption, NobodyOK
    <2>. QED
        BY <1>2, <2>1, <2>2 DEF PagesIInv, PagesTypeOK
<1>8. CallsOK'
    BY <1>2, <1>6 DEF CallsOK
<1>9. StoreOK'
    BY <1>2, NobodyOK DEF StoreOK, Agrees
<1>10. WaitsForCurrent'
    BY <1>2, <1>6 DEF WaitsForCurrent, Waiting, Free
<1>11. ListIsCurrent'
    BY <1>2 DEF ListIsCurrent, Wants
<1>. QED
    BY <1>7, <1>8, <1>9, <1>10, <1>11 DEF PagesIInv

LEMMA LogoutOK ==
    ASSUME PagesIInv, Logout
    PROVE  PagesIInv'
PROOF
<1>1. /\ user' = NoUser /\ organizations' = Nobody /\ currentOrg' = Nothing
      /\ foreign' = FALSE /\ call' = Left /\ page' = "none" /\ board' = NoOrg
      /\ shown' = NoOrg /\ loading' = FALSE /\ overlapped' = FALSE /\ failed' = FALSE
      /\ UNCHANGED <<member, changes, moved>>
    BY DEF Logout, server
<1>2. /\ \A c \in Calls : Left[c] \in Call \cup {Idle}
      /\ \A c \in Calls : Left[c] # Idle =>
           Placed(Left[c], "none", NoUser) /\ Lawful(Left[c], member, moved)
    BY LeftOK DEF PagesIInv
<1>3. PagesTypeOK'
    <2>1. call' \in [Calls -> Call \cup {Idle}]
        BY <1>1, <1>2 DEF Left
    <2>. QED
        BY <1>1, <2>1, NobodyOK DEF PagesIInv, PagesTypeOK
<1>4. CallsOK'
    BY <1>1, <1>2 DEF CallsOK
<1>5. StoreOK'
    BY <1>1, NobodyOK DEF StoreOK, Agrees
<1>6. WaitsForCurrent' /\ ListIsCurrent'
    BY <1>1 DEF WaitsForCurrent, Waiting, ListIsCurrent, Wants
<1>. QED
    BY <1>3, <1>4, <1>5, <1>6 DEF PagesIInv
LEMMA RefreshOK ==
    ASSUME PagesIInv, Refresh
    PROVE  PagesIInv'
PROOF
<1>. DEFINE x == Started("orgs", user, NoOrg, NoOrg, "none", FALSE)
            y == Load(page, board, currentOrg.id, foreign)
<1>1. PICK c \in Calls, d \in Calls :
        /\ c # d
        /\ call' = [e \in Calls |->
                      CASE e = c -> x
                        [] e = d -> IF Wants(page, currentOrg) THEN y ELSE Idle
                        [] e \notin {c, d} -> Idle]
    BY DEF Refresh
<1>2. /\ user # NoUser /\ shown' = NoOrg /\ overlapped' = FALSE /\ failed' = FALSE
      /\ loading' = Wants(page, currentOrg)
      /\ UNCHANGED <<member, changes, user, organizations, currentOrg, foreign, page,
                     board, moved>>
    BY DEF Refresh, server, stores
<1>3. user \in Users /\ page \in Pages
    BY <1>2 DEF PagesIInv, PagesTypeOK
<1>4. /\ x \in Call /\ Placed(x, page, user) /\ Lawful(x, member, moved) /\ x.page = "none"
    BY <1>3, StoreCallOK
<1>5. Wants(page, currentOrg) =>
        /\ y \in Call /\ Placed(y, page, user) /\ Lawful(y, member, moved)
        /\ y.org = currentOrg.id
    <2>. SUFFICES ASSUME Wants(page, currentOrg)
                  PROVE  /\ y \in Call /\ Placed(y, page, user) /\ Lawful(y, member, moved)
                         /\ y.org = currentOrg.id
        OBVIOUS
    <2>1. /\ currentOrg \in Org /\ currentOrg = In(organizations, currentOrg.id)
          /\ page # "none" /\ (page = "payments" => currentOrg.role = "ADMIN")
        BY DEF Wants, PagesIInv, PagesTypeOK
    <2>2. foreign \in BOOLEAN /\ board \in Orgs \cup {NoOrg}
        BY DEF PagesIInv, PagesTypeOK
    <2>3. /\ y \in Call /\ y.kind = "load" /\ y.answer = "none" /\ y.page = page
          /\ y.user = user /\ y.org = currentOrg.id /\ y.foreign = foreign
        BY <1>3, <2>1, <2>2, OrgType, NobodyOK DEF Load, Started, Call
    <2>4. ~foreign => Agrees(organizations, user, member, moved)
        BY DEF PagesIInv, StoreOK
    <2>. HIDE DEF y
    <2>5. ~y.foreign => Agrees(organizations, y.user, member, moved)
        BY <2>3, <2>4
    <2>. QED
        BY <2>1, <2>3, <2>5, FetchOK
<1>. HIDE DEF x, y
<1>6. /\ call'[c] = x
      /\ call'[d] = Idle \/ (Wants(page, currentOrg) /\ call'[d] = y)
      /\ \A e \in Calls \ {c, d} : call'[e] = Idle
      /\ DOMAIN call' = Calls
    BY <1>1
<1>7. PagesTypeOK'
    <2>1. call' \in [Calls -> Call \cup {Idle}]
        BY <1>1, <1>4, <1>5
    <2>2. Wants(page, currentOrg) \in BOOLEAN
        BY DEF Wants
    <2>. QED
        BY <1>2, <2>1, <2>2 DEF PagesIInv, PagesTypeOK
<1>8. CallsOK'
    BY <1>2, <1>4, <1>5, <1>6 DEF CallsOK
<1>9. StoreOK'
    BY <1>2 DEF PagesIInv, StoreOK
<1>10. WaitsForCurrent'
    <2>. SUFFICES ASSUME NEW e \in Calls, Waiting(e)'
                  PROVE  call'[e].org = currentOrg.id
        BY <1>2 DEF WaitsForCurrent
    <2>1. call'[e] # Idle /\ call'[e].page # "none"
        BY <1>2 DEF Waiting, Free
    <2>. QED
        BY <1>4, <1>5, <1>6, <2>1
<1>11. ListIsCurrent'
    BY <1>2 DEF ListIsCurrent
<1>. QED
    BY <1>7, <1>8, <1>9, <1>10, <1>11 DEF PagesIInv

LEMMA NavigateOK ==
    ASSUME PagesIInv, NEW p \in Pages, Navigate(p)
    PROVE  PagesIInv'
PROOF
<1>. DEFINE b == IF p = "board" THEN shown ELSE NoOrg
<1>1. PICK c \in Calls : Mount(p, b, currentOrg, c, foreign)
    BY DEF Navigate
<1>2. /\ user # NoUser
      /\ UNCHANGED <<server, user, organizations, currentOrg, foreign, moved>>
    BY DEF Navigate, stores
<1>3. b \in Orgs \cup {NoOrg} /\ foreign \in BOOLEAN /\ organizations \in Listing
    BY DEF PagesIInv, PagesTypeOK
<1>4. Holds(currentOrg, organizations)
    BY DEF Holds, PagesIInv, PagesTypeOK
<1>5. StoreOK'
    BY <1>2 DEF PagesIInv, StoreOK, server
<1>. HIDE DEF b
<1>. QED
    BY <1>1, <1>2, <1>3, <1>4, <1>5, MountOK

LEMMA SelectOK ==
    ASSUME PagesIInv, NEW o \in Orgs, Select(o)
    PROVE  PagesIInv'
PROOF
<1>. DEFINE new == [id |-> o, role |-> organizations[o]]
<1>1. PICK c \in Calls : Turn(new, c, foreign)
    BY DEF Select
<1>2. /\ organizations[o] # NoRole
      /\ UNCHANGED <<server, user, organizations, foreign, moved>>
    BY DEF Select
<1>3. foreign \in BOOLEAN /\ organizations \in Listing
    BY DEF PagesIInv, PagesTypeOK
<1>4. Holds(new, organizations)
    BY <1>2, <1>3, OrgType DEF Holds, In, Org, Listing
<1>5. StoreOK'
    BY <1>2 DEF PagesIInv, StoreOK, server
<1>. HIDE DEF new
<1>. QED
    BY <1>1, <1>2, <1>3, <1>4, <1>5, TurnOK

LEMMA CreateOrgOK ==
    ASSUME PagesIInv, NEW c \in Calls, CreateOrg(c)
    PROVE  PagesIInv'
PROOF
<1>. DEFINE x == Started("create", user, NoOrg, NoOrg, "none", foreign)
<1>1. /\ user # NoUser /\ call' = [call EXCEPT ![c] = x]
      /\ UNCHANGED <<member, changes, moved>> /\ UNCHANGED <<stores, screen>>
      /\ page' = page /\ user' = user
    BY DEF CreateOrg, server, stores, screen
<1>2. user \in Users /\ foreign \in BOOLEAN
    BY <1>1 DEF PagesIInv, PagesTypeOK
<1>3. x \in Call /\ x.page = "none" /\ Placed(x, page, user) /\ Lawful(x, member, moved)
    BY <1>2, StoreCallOK
<1>. HIDE DEF x
<1>4. call' \in [Calls -> Call \cup {Idle}] /\ call'[c] = x
      /\ \A d \in Calls \ {c} : call'[d] = call[d]
    BY <1>1, <1>3 DEF PagesIInv, PagesTypeOK
<1>5. CallsOK'
    BY <1>1, <1>3, <1>4 DEF PagesIInv, CallsOK
<1>6. \A d \in Calls : Waiting(d)' => Waiting(d) /\ call'[d].org = call[d].org
    BY <1>1, <1>3, <1>4 DEF Waiting, Free
<1>7. /\ member \in [Users \X Orgs -> Roles \cup {NoRole}] /\ changes \in 0 .. MaxChanges
      /\ moved \subseteq Users \X Orgs
    BY DEF PagesIInv, PagesTypeOK
<1>. QED
    BY <1>1, <1>4, <1>5, <1>6, <1>7, QuietOK

LEMMA TargetsOK ==
    ASSUME PagesIInv, NEW a \in Actions, page # "none", currentOrg # Nothing,
           a \in Offers(page, currentOrg.role), NEW item \in Targets(a)
    PROVE  item \in Orgs
PROOF
<1>1. /\ page \in AllPages /\ board \in Orgs \cup {NoOrg} /\ shown \in Orgs \cup {NoOrg}
      /\ currentOrg.id \in Orgs
    BY PagesAssumption, OrgType DEF PagesIInv, PagesTypeOK
<1>2. CASE page = "board"
    BY <1>1, <1>2 DEF Targets, Offers, BoardOffers
<1>3. CASE page = "projects" /\ a = "deleteProject"
    BY <1>1, <1>3 DEF Targets
<1>4. CASE page = "projects" /\ a = "writeProject"
    BY <1>1, <1>4 DEF Targets
<1>5. CASE page = "dashboard" /\ a = "manageMembers"
    BY <1>1, <1>5 DEF Targets
<1>6. CASE page = "payments" /\ a = "payments"
    BY <1>1, <1>6 DEF Targets
<1>. QED
    BY <1>1, <1>2, <1>3, <1>4, <1>5, <1>6
       DEF AllPages, Offers, ProjectsOffer, DashboardOffers, PaymentsOffer

LEMMA OffersSuit ==
    ASSUME NEW p \in AllPages, NEW r \in Roles, NEW x, x.kind \in Offers(p, r)
    PROVE  Suits(x, r) /\ x.kind \in Actions /\ (p = "payments" => x.kind = "payments")
PROOF
    BY DEF AllPages, Roles, Offers, ProjectsOffer, BoardOffers, DashboardOffers,
           PaymentsOffer, Suits, CanEdit, Actions

LEMMA ActOK ==
    ASSUME PagesIInv, NEW c \in Calls, NEW a \in Actions, Act(c, a)
    PROVE  PagesIInv'
PROOF
<1>1. PICK item \in Targets(a) :
        call' = [call EXCEPT ![c] = Started(a, user, currentOrg.id, item, page, foreign)]
    BY DEF Act
<1>. DEFINE x == Started(a, user, currentOrg.id, item, page, foreign)
<1>2. /\ page # "none" /\ currentOrg # Nothing /\ a \in Offers(page, currentOrg.role)
      /\ UNCHANGED <<member, changes, moved>> /\ UNCHANGED <<stores, screen>>
      /\ page' = page /\ user' = user /\ currentOrg' = currentOrg
    BY DEF Act, server, stores, screen
<1>3. /\ user \in Users /\ page \in Pages /\ page \in AllPages /\ foreign \in BOOLEAN
      /\ currentOrg \in Org /\ currentOrg = In(organizations, currentOrg.id)
      /\ currentOrg.id \in Orgs /\ currentOrg.role \in Roles
    BY <1>2, PagesAssumption, OrgType DEF PagesIInv, PagesTypeOK
<1>4. item \in Orgs
    BY <1>2, TargetsOK
<1>5. /\ x \in Call /\ x.kind = a /\ x.user = user /\ x.org = currentOrg.id /\ x.page = page
      /\ x.foreign = foreign /\ x.answer = "none"
    BY <1>3, <1>4, NobodyOK DEF Started, Call
<1>. HIDE DEF x
<1>6. Suits(x, currentOrg.role) /\ (x.page = "payments" => x.kind = "payments")
    BY <1>2, <1>3, <1>5, OffersSuit
<1>7. ~x.foreign /\ ~x.late /\ Own(x) \notin moved => Suits(x, member[Own(x)])
    <2>. SUFFICES ASSUME ~foreign, <<user, currentOrg.id>> \notin moved
                  PROVE  member[<<user, currentOrg.id>>] = currentOrg.role
        BY <1>5, <1>6 DEF Own
    <2>1. Agrees(organizations, user, member, moved)
        BY DEF PagesIInv, StoreOK
    <2>. QED
        BY <1>3, <2>1, RoleIs
<1>8. Placed(x, page, user) /\ Lawful(x, member, moved)
    BY <1>2, <1>3, <1>5, <1>6, <1>7, PageCallOK DEF Asks
<1>9. call' \in [Calls -> Call \cup {Idle}] /\ call'[c] = x
      /\ \A d \in Calls \ {c} : call'[d] = call[d]
    BY <1>1, <1>5 DEF PagesIInv, PagesTypeOK, x
<1>10. CallsOK'
    BY <1>2, <1>8, <1>9 DEF PagesIInv, CallsOK
<1>11. \A d \in Calls : Waiting(d)' =>
         (Waiting(d) /\ call'[d].org = call[d].org) \/ call'[d].org = currentOrg.id
    BY <1>2, <1>5, <1>9 DEF Waiting, Free
<1>12. /\ member \in [Users \X Orgs -> Roles \cup {NoRole}] /\ changes \in 0 .. MaxChanges
       /\ moved \subseteq Users \X Orgs
    BY DEF PagesIInv, PagesTypeOK
<1>. QED
    BY <1>2, <1>9, <1>10, <1>11, <1>12, QuietOK
(***************************************************************************)
(* of the backend,                                                         *)
(***************************************************************************)

LEMMA ServeOrgsOK ==
    ASSUME PagesIInv, NEW c \in Calls, Serve(c), ServeOrgs(c)
    PROVE  PagesIInv'
PROOF
<1>. DEFINE x == call[c]
            y == [x EXCEPT !.answer = "ok", !.list = [o \in Orgs |-> member[<<x.user, o>>]]]
<1>1. /\ x # Idle /\ x.kind \in {"login", "orgs"}
      /\ UNCHANGED <<member, changes, moved>> /\ UNCHANGED <<stores, screen>>
      /\ page' = page /\ user' = user
    BY DEF Serve, ServeOrgs, Free, server, stores, screen
<1>2. /\ x \in Call /\ Placed(x, page, user)
      /\ member \in [Users \X Orgs -> Roles \cup {NoRole}] /\ changes \in 0 .. MaxChanges
      /\ moved \subseteq Users \X Orgs /\ call \in [Calls -> Call \cup {Idle}]
    BY <1>1 DEF PagesIInv, PagesTypeOK, CallsOK
<1>3. call' = [call EXCEPT ![c] = y]
    BY <1>2 DEF ServeOrgs
<1>. HIDE DEF x
<1>4. [o \in Orgs |-> member[<<x.user, o>>]] \in Listing
    BY <1>2, CallType DEF Listing
<1>5. y \in Call /\ y.page = x.page /\ y.org = x.org
    BY <1>2, <1>4 DEF Call
<1>6. Placed(y, page, user) /\ Lawful(y, member, moved)
    BY <1>1, <1>2, <1>5, ListsOK
<1>. HIDE DEF y
<1>7. call' \in [Calls -> Call \cup {Idle}] /\ call'[c] = y
      /\ \A d \in Calls \ {c} : call'[d] = call[d]
    BY <1>2, <1>3, <1>5
<1>8. CallsOK'
    BY <1>1, <1>6, <1>7 DEF PagesIInv, CallsOK
<1>9. \A d \in Calls : Waiting(d)' => Waiting(d) /\ call'[d].org = call[d].org
    BY <1>1, <1>5, <1>7 DEF Waiting, Free, x
<1>. QED
    BY <1>1, <1>2, <1>7, <1>8, <1>9, QuietOK

LEMMA ServeCreateOK ==
    ASSUME PagesIInv, NEW c \in Calls, Serve(c), ServeCreate(c)
    PROVE  PagesIInv'
PROOF
<1>. DEFINE x == call[c]
<1>1. /\ x # Idle /\ x.kind = "create" /\ UNCHANGED changes
      /\ UNCHANGED <<stores, screen>> /\ page' = page /\ user' = user
    BY DEF Serve, ServeCreate, Free, stores, screen
<1>. DEFINE listed == \E d \in Calls : /\ ~Free(d)
                                       /\ call[d].kind \in {"login", "orgs"}
                                       /\ call[d].user = call[c].user
                                       /\ call[d].answer = "ok"
<1>2. PICK o \in Orgs :
        /\ Fresh(o)
        /\ member' = [member EXCEPT ![<<x.user, o>>] = "ADMIN"]
        /\ call' = [call EXCEPT ![c].answer = "ok", ![c].org = o]
        /\ moved' = IF listed THEN moved \cup {<<x.user, o>>} ELSE moved
    BY DEF ServeCreate
<1>. DEFINE own == <<x.user, o>>
            y == [x EXCEPT !.answer = "ok", !.org = o]
<1>3. /\ x \in Call /\ Placed(x, page, user) /\ Lawful(x, member, moved)
      /\ member \in [Users \X Orgs -> Roles \cup {NoRole}] /\ changes \in 0 .. MaxChanges
      /\ moved \subseteq Users \X Orgs /\ call \in [Calls -> Call \cup {Idle}]
    BY <1>1 DEF PagesIInv, PagesTypeOK, CallsOK
<1>4. call' = [call EXCEPT ![c] = y]
    BY <1>2, <1>3
<1>5. x.user \in Users /\ own \in Users \X Orgs /\ x.page = "none"
    BY <1>1, <1>3, CallType DEF Placed
<1>6. member[own] = NoRole /\ own \notin moved
    BY <1>2, <1>5 DEF Fresh
<1>7. /\ member' \in [Users \X Orgs -> Roles \cup {NoRole}] /\ member'[own] = "ADMIN"
      /\ \A q \in Users \X Orgs : member'[q] # member[q] => q = own
      /\ moved \subseteq moved' /\ moved' \subseteq Users \X Orgs
    BY <1>2, <1>3, <1>5 DEF Roles
<1>8. /\ y \in Call /\ y.kind = "create" /\ y.page = "none" /\ y.answer = "ok"
      /\ y.user = x.user /\ y.org = o
    BY <1>1, <1>3, <1>5 DEF Call
<1>. HIDE DEF y
<1>9. Placed(y, page, user) /\ Lawful(y, member', moved')
    <2>1. ~Asks(y) /\ y.kind \notin Actions /\ Own(y) = own
        BY <1>8 DEF Asks, Actions, Own
    <2>. QED
        BY <1>7, <1>8, <2>1 DEF Placed, Lawful, Allowed, GrantsAction, GrantsOrg, Lists,
                                IsExplained
<1>10. call' \in [Calls -> Call \cup {Idle}] /\ call'[c] = y
       /\ \A d \in Calls \ {c} : call'[d] = call[d]
    BY <1>3, <1>4, <1>8
<1>11. \A q \in Users \X Orgs :
         member'[q] # member[q] => q \in moved' \/ (q \notin moved /\ member[q] = NoRole)
    BY <1>6, <1>7
<1>12. ASSUME NEW d \in Calls \ {c}, call[d] # Idle
       PROVE  Placed(call[d], page, user) /\ Lawful(call[d], member', moved')
    <2>. DEFINE z == call[d]
    <2>1. z \in Call /\ Placed(z, page, user) /\ Lawful(z, member, moved)
        BY <1>3, <1>12 DEF PagesIInv, CallsOK
    <2>2. ASSUME z.answer = "ok", z.kind \in {"login", "orgs"}, NEW v \in Orgs,
                 member'[<<z.user, v>>] # member[<<z.user, v>>]
          PROVE  <<z.user, v>> \in moved'
        <3>1. <<z.user, v>> = own
            BY <1>7, <2>1, <2>2, CallType
        <3>2. listed
            BY <1>12, <2>2, <3>1 DEF Free
        <3>. QED
            BY <1>2, <3>1, <3>2
    <2>. HIDE DEF z
    <2>. QED
        BY <1>7, <1>11, <2>1, <2>2, LawfulLater DEF z
<1>13. CallsOK'
    BY <1>1, <1>9, <1>10, <1>12 DEF CallsOK
<1>14. \A d \in Calls : Waiting(d)' => Waiting(d) /\ call'[d].org = call[d].org
    BY <1>1, <1>8, <1>10 DEF Waiting, Free
<1>. QED
    BY <1>1, <1>3, <1>7, <1>10, <1>11, <1>13, <1>14, QuietOK

\* An answer to a page.
LEMMA VerdictOK ==
    ASSUME NEW x \in Call, NEW y \in Call, NEW p, NEW u, NEW m, NEW ch,
           m \in [Users \X Orgs -> Roles \cup {NoRole}],
           Placed(x, p, u), Lawful(x, m, ch), Asks(x), x.answer = "none",
           y = [x EXCEPT !.answer = y.answer],
           LET r == m[Own(x)]
               endpoints == IF x.kind = "load" THEN Loads[x.page] ELSE {x.kind} IN
           y.answer = IF r = NoRole \/ \E e \in endpoints : ~Passes(e, r) THEN "403"
                      ELSE IF x.item # x.org THEN "404" ELSE "ok"
    PROVE  Placed(y, p, u) /\ Lawful(y, m, ch)
PROOF
<1>. DEFINE r == m[Own(x)]
            endpoints == IF x.kind = "load" THEN Loads[x.page] ELSE {x.kind}
<1>1. /\ y.kind = x.kind /\ y.user = x.user /\ y.org = x.org /\ y.page = x.page
      /\ y.foreign = x.foreign /\ y.late = x.late /\ y.list = x.list
    BY DEF Call
<1>2. Own(y) = Own(x) /\ Asks(y) /\ y.kind \notin {"login", "orgs", "create"}
    BY <1>1 DEF Own, Asks, Actions
<1>3. Placed(y, p, u)
    BY <1>1, <1>2 DEF Placed
<1>4. y.answer # "none"
    OBVIOUS
<1>5. ASSUME y.answer = "403", ~x.foreign, ~x.late, Own(x) \notin ch
      PROVE  x.kind = "deleteProject" /\ r = "EDITOR"
    <2>1. Suits(x, r)
        BY <1>5 DEF Lawful, Allowed
    <2>2. PICK e \in endpoints : ~Passes(e, r)
        BY <1>5, <2>1, NullAssumption DEF Suits
    <2>3. x.kind # "load"
        <3>. SUFFICES ASSUME x.kind = "load"
                      PROVE  FALSE
            OBVIOUS
        <3>1. x.page \in AllPages /\ (x.page = "payments" => r = "ADMIN") /\ r \in Roles
            BY <2>1, CallType, PagesAssumption DEF Placed, Suits
        <3>. QED
            BY <2>2, <3>1, LoadsPass
    <2>4. x.kind \in Actions /\ ~Passes(x.kind, r)
        BY <2>2, <2>3 DEF Asks
    <2>. QED
        BY <2>1, <2>4, OffersPass
<1>6. IsExplained(y, m, ch)
    BY <1>1, <1>2, <1>5 DEF IsExplained
<1>7. GrantsAction(y, m, ch)
    <2>. SUFFICES ASSUME y.answer = "ok", y.kind \in Actions
                  PROVE  r \in Roles /\ Passes(y.kind, r)
        BY <1>2 DEF GrantsAction
    <2>1. r # NoRole /\ \A e \in endpoints : Passes(e, r)
        OBVIOUS
    <2>2. x.kind \in endpoints
        BY <1>1 DEF Actions
    <2>3. Own(x) \in Users \X Orgs
        BY CallType DEF Placed, Own
    <2>. QED
        BY <1>1, <2>1, <2>2, <2>3
<1>. QED
    BY <1>2, <1>3, <1>4, <1>6, <1>7 DEF Lawful, Allowed, GrantsOrg, Lists

LEMMA ServePageOK ==
    ASSUME PagesIInv, NEW c \in Calls, Serve(c), ServePage(c)
    PROVE  PagesIInv'
PROOF
<1>. DEFINE x == call[c]
            answer == Verdict(x, IF x.kind = "load" THEN Loads[x.page] ELSE {x.kind})
            y == [x EXCEPT !.answer = answer]
<1>1. /\ x # Idle /\ Asks(x) /\ x.answer = "none"
      /\ UNCHANGED <<member, changes, moved>> /\ UNCHANGED <<stores, screen>>
      /\ page' = page /\ user' = user
    BY DEF Serve, ServePage, Free, server, stores, screen, Asks
<1>2. /\ x \in Call /\ Placed(x, page, user) /\ Lawful(x, member, moved)
      /\ member \in [Users \X Orgs -> Roles \cup {NoRole}] /\ changes \in 0 .. MaxChanges
      /\ moved \subseteq Users \X Orgs /\ call \in [Calls -> Call \cup {Idle}]
    BY <1>1 DEF PagesIInv, PagesTypeOK, CallsOK
<1>3. call' = [call EXCEPT ![c] = y]
    BY <1>2 DEF ServePage, Answered
<1>4. answer = IF \/ member[Own(x)] = NoRole
                  \/ \E e \in (IF x.kind = "load" THEN Loads[x.page] ELSE {x.kind}) :
                       ~Passes(e, member[Own(x)])
               THEN "403" ELSE IF x.item # x.org THEN "404" ELSE "ok"
    BY DEF Verdict, Own
<1>. HIDE DEF x, answer
<1>5. y \in Call /\ y.page = x.page /\ y.org = x.org /\ y.answer = answer
    BY <1>2, <1>4 DEF Call
<1>6. y = [x EXCEPT !.answer = y.answer]
    BY <1>5
<1>. HIDE DEF y
<1>7. Placed(y, page, user) /\ Lawful(y, member, moved)
    BY <1>1, <1>2, <1>4, <1>5, <1>6, VerdictOK
<1>8. call' \in [Calls -> Call \cup {Idle}] /\ call'[c] = y
      /\ \A d \in Calls \ {c} : call'[d] = call[d]
    BY <1>2, <1>3, <1>5
<1>9. CallsOK'
    BY <1>1, <1>7, <1>8 DEF PagesIInv, CallsOK
<1>10. \A d \in Calls : Waiting(d)' => Waiting(d) /\ call'[d].org = call[d].org
    BY <1>1, <1>5, <1>8 DEF Waiting, Free, x
<1>. QED
    BY <1>1, <1>2, <1>8, <1>9, <1>10, QuietOK

LEMMA MembershipsChangeOK ==
    ASSUME PagesIInv, NEW u \in Users, NEW o \in Orgs, MembershipsChange(u, o)
    PROVE  PagesIInv'
PROOF
<1>1. /\ changes < MaxChanges /\ changes' = changes + 1 /\ moved' = moved \cup {<<u, o>>}
      /\ UNCHANGED <<stores, screen>> /\ call' = call /\ page' = page /\ user' = user
    BY DEF MembershipsChange, stores, screen
<1>2. PICK new \in Roles \cup {NoRole} : member' = [member EXCEPT ![<<u, o>>] = new]
    BY DEF MembershipsChange
<1>3. /\ member \in [Users \X Orgs -> Roles \cup {NoRole}] /\ changes \in 0 .. MaxChanges
      /\ moved \subseteq Users \X Orgs /\ call \in [Calls -> Call \cup {Idle}]
    BY DEF PagesIInv, PagesTypeOK
<1>4. /\ member' \in [Users \X Orgs -> Roles \cup {NoRole}]
      /\ \A q \in Users \X Orgs : member'[q] # member[q] => q \in moved'
      /\ moved \subseteq moved' /\ moved' \subseteq Users \X Orgs
    BY <1>1, <1>2, <1>3
<1>5. changes' \in 0 .. MaxChanges
    BY <1>1, <1>3, ChangesAssumption
<1>6. ASSUME NEW d \in Calls, call[d] # Idle
      PROVE  Placed(call[d], page, user) /\ Lawful(call[d], member', moved')
    <2>. DEFINE z == call[d]
    <2>1. z \in Call /\ Placed(z, page, user) /\ Lawful(z, member, moved)
        BY <1>3, <1>6 DEF PagesIInv, CallsOK
    <2>. HIDE DEF z
    <2>2. \A v \in Orgs : member'[<<z.user, v>>] # member[<<z.user, v>>]
                            => <<z.user, v>> \in moved'
        BY <1>4, <2>1, CallType
    <2>. QED
        BY <1>4, <2>1, <2>2, LawfulLater DEF z
<1>7. CallsOK'
    BY <1>1, <1>6 DEF CallsOK
<1>8. \A d \in Calls : Waiting(d)' => Waiting(d) /\ call'[d].org = call[d].org
    BY <1>1 DEF Waiting, Free
<1>. QED
    BY <1>1, <1>3, <1>4, <1>5, <1>7, <1>8, QuietOK
(***************************************************************************)
(* and of the answers that arrive.                                         *)
(***************************************************************************)

LEMMA ReceiveOrgsOK ==
    ASSUME PagesIInv, NEW c \in Calls, Receive(c), ReceiveOrgs(c)
    PROVE  PagesIInv'
PROOF
<1>. DEFINE x == call[c]
<1>1. /\ x \in Call /\ Placed(x, page, user) /\ Lawful(x, member, moved)
      /\ x.kind \in {"login", "orgs"} /\ x.answer = "ok"
      /\ organizations' = x.list /\ foreign' = (x.user # user)
      /\ UNCHANGED <<server, user, moved>>
    BY DEF Receive, ReceiveOrgs, Free, PagesIInv, PagesTypeOK, CallsOK
<1>2. x.list \in Listing /\ x.user # NoUser /\ foreign' \in BOOLEAN
    BY <1>1, CallType
<1>3. PICK new \in Chosen(x.list) :
        \/ /\ page \notin {"none", "dashboard"}
           /\ currentOrg' = new
           /\ Mount("dashboard", NoOrg, new, c, foreign')
        \/ Turn(new, c, foreign')
    BY DEF ReceiveOrgs
<1>4. Holds(new, x.list)
    BY <1>2, ChosenOK DEF Holds, PagesIInv
<1>5. StoreOK'
    <2>. SUFFICES ASSUME ~foreign'
                  PROVE  Agrees(x.list, user, member, moved)
        BY <1>1 DEF StoreOK, server
    <2>1. x.user = user
        BY <1>1
    <2>2. Lists(x, member, moved)
        BY <1>1 DEF Lawful
    <2>. QED
        BY <1>1, <1>2, <2>1, <2>2 DEF Agrees, Lists
<1>. HIDE DEF x
<1>6. CASE page \notin {"none", "dashboard"} /\ currentOrg' = new
           /\ Mount("dashboard", NoOrg, new, c, foreign')
    <2>1. user # NoUser /\ "dashboard" \in Pages
        BY <1>6, PagesAssumption DEF PagesIInv, PagesTypeOK
    <2>. QED
        BY <1>1, <1>2, <1>4, <1>5, <1>6, <2>1, MountOK
<1>7. CASE Turn(new, c, foreign')
    BY <1>1, <1>2, <1>4, <1>5, <1>7, TurnOK
<1>. QED
    BY <1>3, <1>6, <1>7

LEMMA ReceiveCreateOK ==
    ASSUME PagesIInv, NEW c \in Calls, Receive(c), ReceiveCreate(c)
    PROVE  PagesIInv'
PROOF
<1>. DEFINE x == call[c]
            new == IF currentOrg = Nothing THEN [id |-> x.org, role |-> "ADMIN"]
                   ELSE currentOrg
<1>1. /\ x \in Call /\ Placed(x, page, user) /\ Lawful(x, member, moved)
      /\ x.kind = "create" /\ x.answer = "ok"
      /\ organizations' =
           [organizations EXCEPT ![x.org] = IF @ = NoRole THEN "ADMIN" ELSE @]
      /\ foreign' = (foreign \/ x.user # user)
      /\ Turn(new, c, foreign')
      /\ UNCHANGED <<server, user, moved>>
    BY DEF Receive, ReceiveCreate, Free, PagesIInv, PagesTypeOK, CallsOK
<1>2. /\ x.org \in Orgs /\ x.user # NoUser /\ foreign' \in BOOLEAN
      /\ organizations \in Listing /\ "ADMIN" \in Roles /\ "ADMIN" # NoRole
    BY <1>1, CallType, NullAssumption DEF Placed, Roles, PagesIInv, PagesTypeOK
<1>. HIDE DEF x
<1>3. /\ organizations' \in Listing
      /\ \A o \in Orgs \ {x.org} : organizations'[o] = organizations[o]
      /\ organizations'[x.org] =
           IF organizations[x.org] = NoRole THEN "ADMIN" ELSE organizations[x.org]
    BY <1>1, <1>2 DEF Listing
<1>4. Holds(new, organizations')
    <2>1. CASE currentOrg = Nothing
        <3>1. organizations[x.org] = NoRole
            BY <1>2, <2>1, NobodyOK DEF PagesIInv, PagesTypeOK
        <3>. QED
            BY <1>2, <1>3, <2>1, <3>1, OrgType DEF Holds, In, Org
    <2>2. CASE currentOrg # Nothing
        <3>1. /\ currentOrg \in Org /\ currentOrg = In(organizations, currentOrg.id)
              /\ currentOrg.id \in Orgs /\ currentOrg.role # NoRole
            BY <2>2, OrgType DEF PagesIInv, PagesTypeOK
        <3>2. organizations[currentOrg.id] # NoRole
            BY <3>1 DEF In
        <3>3. organizations'[currentOrg.id] = organizations[currentOrg.id]
            BY <1>3, <3>1, <3>2
        <3>. QED
            BY <2>2, <3>1, <3>3 DEF Holds, In
    <2>. QED
        BY <2>1, <2>2
<1>5. StoreOK'
    <2>. SUFFICES ASSUME ~foreign'
                  PROVE  Agrees(organizations', user, member, moved)
        BY <1>1 DEF StoreOK, server
    <2>1. x.user = user
        BY <1>1
    <2>2. ~foreign
        BY <1>1
    <2>3. Agrees(organizations, user, member, moved)
        BY <2>2 DEF PagesIInv, StoreOK
    <2>4. <<user, x.org>> \notin moved => member[<<user, x.org>>] = "ADMIN"
        BY <1>1, <2>1 DEF Lawful, GrantsOrg, Own
    <2>. QED
        BY <1>2, <1>3, <2>1, <2>3, <2>4 DEF Agrees
<1>. HIDE DEF new
<1>. QED
    BY <1>1, <1>2, <1>3, <1>4, <1>5, TurnOK

\* A call that ends, or is followed by a fetch for an organization that the
\* page waited for.
LEMMA EndOK ==
    ASSUME PagesIInv, NEW c \in Calls, NEW x \in Call \cup {Idle},
           call' = [call EXCEPT ![c] = x],
           x # Idle => /\ Placed(x, page, user) /\ Lawful(x, member, moved)
                       /\ Waiting(c) /\ x.org = call[c].org,
           UNCHANGED <<server, user, moved, organizations, currentOrg, foreign, page, board,
                       overlapped>>,
           loading' \in BOOLEAN, failed' \in BOOLEAN, shown' \in Orgs \cup {NoOrg},
           ListIsCurrent'
    PROVE  PagesIInv'
PROOF
<1>1. PagesTypeOK'
    <2>1. call' \in [Calls -> Call \cup {Idle}]
        BY DEF PagesIInv, PagesTypeOK
    <2>. QED
        BY <2>1 DEF PagesIInv, PagesTypeOK, server
<1>2. call'[c] = x /\ \A d \in Calls \ {c} : call'[d] = call[d]
    BY DEF PagesIInv, PagesTypeOK
<1>3. CallsOK'
    BY <1>2 DEF PagesIInv, CallsOK, server
<1>4. StoreOK'
    BY DEF PagesIInv, StoreOK, server
<1>5. WaitsForCurrent'
    <2>1. \A d \in Calls : Waiting(d)' => Waiting(d) /\ call'[d].org = call[d].org
        BY <1>2 DEF Waiting, Free
    <2>. QED
        BY <2>1 DEF PagesIInv, WaitsForCurrent
<1>. QED
    BY <1>1, <1>3, <1>4, <1>5 DEF PagesIInv

LEMMA ReceiveLoadOK ==
    ASSUME PagesIInv, NEW c \in Calls, Receive(c), ReceiveLoad(c)
    PROVE  PagesIInv'
PROOF
<1>. DEFINE x == call[c]
<1>1. /\ x \in Call /\ Placed(x, page, user) /\ x # Idle /\ x.kind = "load"
      /\ loading' = FALSE /\ failed' = (x.answer # "ok")
      /\ shown' = IF x.answer = "ok" THEN x.org ELSE shown
      /\ call' = [call EXCEPT ![c] = Idle]
      /\ UNCHANGED <<server, user, moved, organizations, currentOrg, foreign, page, board,
                     overlapped>>
    BY DEF Receive, ReceiveLoad, Free, PagesIInv, PagesTypeOK, CallsOK
<1>2. Waiting(c)
    BY <1>1, CallType DEF Waiting, Free, Placed
<1>3. /\ loading' \in BOOLEAN /\ failed' \in BOOLEAN /\ shown' \in Orgs \cup {NoOrg}
    BY <1>1, CallType DEF PagesIInv, PagesTypeOK
<1>4. ListIsCurrent'
    <2>. SUFFICES ASSUME ~overlapped, ~failed'
                  PROVE  shown' = currentOrg.id
        BY <1>1 DEF ListIsCurrent
    <2>1. x.answer = "ok"
        BY <1>1
    <2>2. x.org = currentOrg.id
        BY <1>2 DEF PagesIInv, WaitsForCurrent
    <2>. QED
        BY <1>1, <2>1, <2>2
<1>. HIDE DEF x
<1>. QED
    BY <1>1, <1>3, <1>4, EndOK

LEMMA ReceiveActionOK ==
    ASSUME PagesIInv, NEW c \in Calls, Receive(c), ReceiveAction(c)
    PROVE  PagesIInv'
PROOF
<1>. DEFINE x == call[c]
            y == Load(page, board, x.org, foreign)
<1>1. /\ x \in Call /\ Placed(x, page, user) /\ Lawful(x, member, moved) /\ x # Idle
      /\ x.kind \in Actions /\ x.answer = "ok" /\ x.page # "none"
      /\ call' = [call EXCEPT ![c] = y] /\ loading' = TRUE
      /\ UNCHANGED <<server, user, moved, organizations, currentOrg, foreign, page, board,
                     overlapped>>
      /\ UNCHANGED <<shown, failed>>
    BY DEF Receive, ReceiveAction, Free, PagesIInv, PagesTypeOK, CallsOK
<1>2. Waiting(c) /\ x.page = page /\ x.user = user /\ x.org \in Orgs
    BY <1>1 DEF Waiting, Free, Placed, Asks
<1>3. /\ page \in Pages /\ user \in Users /\ board \in Orgs \cup {NoOrg}
      /\ foreign \in BOOLEAN
    BY <1>1, <1>2, CallType DEF PagesIInv, PagesTypeOK
<1>4. /\ y \in Call /\ y.kind = "load" /\ y.user = user /\ y.org = x.org /\ y.page = page
      /\ y.answer = "none"
    BY <1>2, <1>3, NobodyOK DEF Load, Started, Call
<1>. HIDE DEF y, x
<1>5. Own(y) \notin moved => Suits(y, member[Own(y)])
    <2>. SUFFICES ASSUME Own(y) \notin moved
                  PROVE  Suits(y, member[Own(y)])
        OBVIOUS
    <2>1. Own(y) = Own(x)
        BY <1>2, <1>4 DEF Own
    <2>2. member[Own(x)] \in Roles /\ Passes(x.kind, member[Own(x)])
        BY <1>1, <2>1 DEF Lawful, GrantsAction
    <2>3. page = "payments" => x.kind = "payments"
        BY <1>1, <1>2 DEF Placed
    <2>. QED
        BY <1>4, <2>1, <2>2, <2>3, PaymentsPass DEF Suits
<1>6. Placed(y, page, user) /\ Lawful(y, member, moved)
    BY <1>1, <1>2, <1>4, <1>5, PageCallOK DEF Asks
<1>7. ListIsCurrent'
    BY <1>1 DEF ListIsCurrent
<1>8. /\ failed' \in BOOLEAN /\ loading' \in BOOLEAN /\ shown' \in Orgs \cup {NoOrg}
    BY <1>1 DEF PagesIInv, PagesTypeOK
<1>. QED
    BY <1>1, <1>2, <1>4, <1>6, <1>7, <1>8, EndOK DEF x

LEMMA ReceiveRestOK ==
    ASSUME PagesIInv, NEW c \in Calls, Receive(c), ReceiveRest(c)
    PROVE  PagesIInv'
PROOF
<1>1. /\ call' = [call EXCEPT ![c] = Idle]
      /\ UNCHANGED <<server, user, moved, organizations, currentOrg, foreign, page, board,
                     overlapped>>
      /\ UNCHANGED <<shown, loading, failed>>
    BY DEF Receive, ReceiveRest, screen
<1>2. ListIsCurrent'
    BY <1>1 DEF PagesIInv, ListIsCurrent, Wants
<1>3. /\ failed' \in BOOLEAN /\ loading' \in BOOLEAN /\ shown' \in Orgs \cup {NoOrg}
    BY <1>1 DEF PagesIInv, PagesTypeOK
<1>. QED
    BY <1>1, <1>2, <1>3, EndOK

LEMMA FailOK ==
    ASSUME PagesIInv, NEW c \in Calls, Fail(c)
    PROVE  PagesIInv'
PROOF
<1>1. /\ call' = [call EXCEPT ![c] = Idle]
      /\ \/ loading' = FALSE /\ failed' = TRUE
         \/ UNCHANGED <<loading, failed>>
      /\ UNCHANGED <<server, user, moved, organizations, currentOrg, foreign, page, board,
                     overlapped>>
      /\ UNCHANGED shown
    BY DEF Fail, stores
<1>2. ListIsCurrent'
    BY <1>1 DEF PagesIInv, ListIsCurrent, Wants
<1>3. /\ failed' \in BOOLEAN /\ loading' \in BOOLEAN /\ shown' \in Orgs \cup {NoOrg}
    BY <1>1 DEF PagesIInv, PagesTypeOK
<1>. QED
    BY <1>1, <1>2, <1>3, EndOK

(***************************************************************************)
(* The theorems.                                                           *)
(***************************************************************************)

LEMMA PagesInitOK == PagesInit => PagesIInv
PROOF
<1>. SUFFICES ASSUME PagesInit
              PROVE  PagesIInv
    OBVIOUS
<1>1. \A c \in Calls : call[c] = Idle
    BY DEF PagesInit
<1>2. PagesTypeOK
    <2>1. call \in [Calls -> Call \cup {Idle}] /\ changes \in 0 .. MaxChanges
        BY ChangesAssumption DEF PagesInit
    <2>2. user = NoUser /\ page = "none" /\ currentOrg = Nothing /\ organizations = Nobody
        BY DEF PagesInit
    <2>. QED
        BY <2>1, <2>2, NobodyOK DEF PagesInit, PagesTypeOK
<1>3. CallsOK
    BY <1>1 DEF CallsOK
<1>4. StoreOK
    BY NobodyOK DEF PagesInit, StoreOK, Agrees
<1>5. WaitsForCurrent /\ ListIsCurrent
    BY DEF PagesInit, WaitsForCurrent, Waiting, ListIsCurrent, Wants
<1>. QED
    BY <1>2, <1>3, <1>4, <1>5 DEF PagesIInv

LEMMA PagesNextOK == PagesIInv /\ [PagesNext]_pagesVars => PagesIInv'
PROOF
<1>. SUFFICES ASSUME PagesIInv, [PagesNext]_pagesVars
              PROVE  PagesIInv'
    OBVIOUS
<1>1. CASE UNCHANGED pagesVars
    <2>1. /\ UNCHANGED <<member, changes, user, organizations, currentOrg, foreign, moved>>
          /\ UNCHANGED <<page, board, shown, loading, call, overlapped, failed>>
        BY <1>1 DEF pagesVars
    <2>. QED
        BY <2>1 DEF PagesIInv, PagesTypeOK, CallsOK, StoreOK, WaitsForCurrent, Waiting, Free,
                    ListIsCurrent, Wants
<1>2. ASSUME NEW u \in Users, Login(u)
      PROVE  PagesIInv'
    BY <1>2, LoginOK
<1>3. CASE Logout
    BY <1>3, LogoutOK
<1>4. CASE Refresh
    BY <1>4, RefreshOK
<1>5. ASSUME NEW p \in Pages, Navigate(p)
      PROVE  PagesIInv'
    BY <1>5, NavigateOK
<1>6. ASSUME NEW o \in Orgs, Select(o)
      PROVE  PagesIInv'
    BY <1>6, SelectOK
<1>7. ASSUME NEW c \in Calls, CreateOrg(c)
      PROVE  PagesIInv'
    BY <1>7, CreateOrgOK
<1>8. ASSUME NEW c \in Calls, Serve(c)
      PROVE  PagesIInv'
    BY <1>8, ServeOrgsOK, ServeCreateOK, ServePageOK DEF Serve
<1>9. ASSUME NEW c \in Calls, Fail(c)
      PROVE  PagesIInv'
    BY <1>9, FailOK
<1>10. ASSUME NEW c \in Calls, Receive(c)
       PROVE  PagesIInv'
    BY <1>10, ReceiveOrgsOK, ReceiveCreateOK, ReceiveLoadOK, ReceiveActionOK, ReceiveRestOK
       DEF Receive
<1>11. ASSUME NEW c \in Calls, NEW a \in Actions, Act(c, a)
       PROVE  PagesIInv'
    BY <1>11, ActOK
<1>12. ASSUME NEW u \in Users, NEW o \in Orgs, MembershipsChange(u, o)
       PROVE  PagesIInv'
    BY <1>12, MembershipsChangeOK
<1>. QED
    BY <1>1, <1>2, <1>3, <1>4, <1>5, <1>6, <1>7, <1>8, <1>9, <1>10, <1>11, <1>12
       DEF PagesNext

LEMMA PagesInductive == PagesSpec => []PagesIInv
PROOF
    BY PagesInitOK, PagesNextOK, PTL DEF PagesSpec

\* Stores, pages and calls keep their types; the user works in an
\* organization of the list, with the role it has there.
THEOREM PagesTypeCorrect == PagesSpec => []PagesTypeOK
PROOF
<1>1. PagesIInv => PagesTypeOK
    BY DEF PagesIInv
<1>. QED
    BY <1>1, PagesInductive, PTL

\* Whatever answers overtake one another: a page neither fetches nor offers
\* what the backend refuses the user, but for the exceptions named.
THEOREM RefusalsAreExplained == PagesSpec => []RefusalsExplained
PROOF
<1>1. PagesIInv => RefusalsExplained
    BY DEF PagesIInv, CallsOK, Lawful, IsExplained, Own, RefusalsExplained, Free
<1>. QED
    BY <1>1, PagesInductive, PTL

\* A page shows the items of the organization the user works in, unless he
\* switched while it waited or its last fetch failed.
THEOREM ListsAreCurrent == PagesSpec => []ListIsCurrent
PROOF
<1>1. PagesIInv => ListIsCurrent
    BY DEF PagesIInv
<1>. QED
    BY <1>1, PagesInductive, PTL

\* No answer takes a user who stays a member to another organization.
THEOREM SelectionIsRespected == PagesSpec => SelectionRespected
PROOF
<1>. DEFINE Respected ==
              \A c \in Calls :
                Receive(c) /\ currentOrg # Nothing /\ currentOrg'.id # currentOrg.id =>
                  \/ foreign \/ foreign'
                  \/ <<user, currentOrg.id>> \in moved
<1>1. PagesIInv => Respected
    <2>. SUFFICES ASSUME PagesIInv, NEW c \in Calls, Receive(c), currentOrg # Nothing,
                         currentOrg'.id # currentOrg.id, ~foreign, ~foreign',
                         <<user, currentOrg.id>> \notin moved
                  PROVE  FALSE
        OBVIOUS
    <2>. DEFINE x == call[c]
    <2>1. x \in Call /\ Lawful(x, member, moved)
        BY DEF Receive, Free, PagesIInv, PagesTypeOK, CallsOK
    <2>2. /\ currentOrg \in Org /\ currentOrg.id \in Orgs /\ currentOrg.role # NoRole
          /\ currentOrg = In(organizations, currentOrg.id)
        BY OrgType DEF PagesIInv, PagesTypeOK
    <2>3. member[<<user, currentOrg.id>>] = currentOrg.role
        BY <2>2, RoleIs DEF PagesIInv, StoreOK
    <2>4. CASE ReceiveOrgs(c)
        <3>1. x.user = user /\ x.answer = "ok" /\ x.kind \in {"login", "orgs"}
            BY <2>4 DEF ReceiveOrgs
        <3>2. x.list[currentOrg.id] = currentOrg.role
            BY <2>1, <2>2, <2>3, <3>1 DEF Lawful, Lists
        <3>3. Chosen(x.list) = {In(x.list, currentOrg.id)}
            BY <2>2, <3>2 DEF Chosen
        <3>4. PICK new \in Chosen(x.list) : currentOrg' = new
            BY <2>4 DEF ReceiveOrgs, Turn
        <3>. QED
            BY <3>3, <3>4 DEF In
    <2>5. CASE ReceiveCreate(c)
        BY <2>5 DEF ReceiveCreate, Turn
    <2>. QED
        BY <2>4, <2>5 DEF Receive, ReceiveLoad, ReceiveAction, ReceiveRest
<1>2. PagesIInv /\ [PagesNext]_pagesVars => [Respected]_pagesVars
    BY <1>1
<1>. QED
    BY <1>2, PagesInductive, PTL DEF PagesSpec, SelectionRespected

-----------------------------------------------------------------------------
(* ClientSession.                                                          *)

(***************************************************************************)
(* The inductive invariant.                                                *)
(***************************************************************************)

ServiceShape ==
    /\ status \in [Tokens -> {"none", "live", "expired", "spent"}]
    /\ owner \in [Tokens -> UserIds \cup {NoToken}]
    /\ parent \in [Tokens -> Tokens \cup {NoToken}]

SessionShape ==
    /\ ServiceShape
    /\ aged \subseteq Tokens
    /\ store \in Tokens \cup {NoToken}
    /\ leaving \in BOOLEAN
    /\ trouble \in BOOLEAN
    /\ calling \in [Flows -> FlowCall \cup {NoCall}]
    /\ chain \in [Flows -> Seq(Exchange)]
    /\ phase \in [Flows -> Phases]
    /\ fresh \in [Flows -> Tokens \cup {NoToken}]

\* The exchanges s are of different tokens that were issued, by ss; the last
\* one only may be of the token in the store, st.
ExchangesOK(s, st, ss) ==
    /\ \A i \in 1 .. Len(s) : ss[s[i].token] # "none"
    /\ \A i \in 1 .. Len(s) : \A j \in 1 .. Len(s) : i # j => s[i].token # s[j].token
    /\ \A i \in 1 .. Len(s) : i < Len(s) => s[i].token # st

\* A token that a call got and the store did not, r, is neither spent nor in
\* the store.
AnswerOK(x, s, p, r, st, ss) ==
    /\ r # NoToken => p = "ok" /\ ss[r] \in {"live", "expired"} /\ r # st
    /\ p = "ok" /\ (s # <<>> \/ x.kind = "login") => r # NoToken

\* A call x, the exchanges s it waits for, how far it got, p, and its answer.
FlowOK(x, s, p, r, st, ss) ==
    /\ x = NoCall => s = <<>> /\ p = "none"
    /\ x # NoCall =>
         /\ p # "none"
         /\ x.kind = "login" => x.body \in UserIds
         /\ x.kind = "logout" => x.body \in Tokens /\ ss[x.body] # "none" /\ x.body # st
    /\ ExchangesOK(s, st, ss)
    /\ AnswerOK(x, s, p, r, st, ss)

FlowsOK ==
    \A f \in Flows : FlowOK(calling[f], chain[f], phase[f], fresh[f], store, status)

KnownOK == \A t \in aged \cup ({store} \ {NoToken}) : status[t] # "none"

\* Call x, and the exchanges s it waits for, are not about token t.
Avoids(t, x, s) ==
    /\ x # NoCall /\ x.kind = "logout" => x.body # t
    /\ \A i \in 1 .. Len(s) : s[i].token # t

\* A token that a call got is nobody else's until it is stored.
FreshOK ==
    \A f \in Flows : fresh[f] # NoToken =>
        \A g \in Flows :
            /\ Avoids(fresh[f], calling[g], chain[g])
            /\ g # f => fresh[g] # fresh[f]

\* What an untroubled call may wait for: an exchange of the token in the
\* store, if there is one, that has not failed.
CalmExchange(s, p, r, st, ss) ==
    s # <<>> =>
        /\ Len(s) = 1
        /\ p # "error"
        /\ r # NoToken => ss[r] = "live"
        /\ st # NoToken =>
             /\ s[1].token = st
             /\ p \in {"sent", "found", "revoked", "ok"}
             /\ p \in {"sent", "found"} => ss[st] = "live"

Calm ==
    ~trouble =>
        /\ \A f \in Flows, g \in Flows : chain[f] # <<>> /\ chain[g] # <<>> => f = g
        /\ \A f \in Flows : CalmExchange(chain[f], phase[f], fresh[f], store, status)
        /\ (\A f \in Flows : chain[f] = <<>>) /\ store # NoToken => status[store] = "live"

SessionIInv == SessionShape /\ KnownOK /\ FlowsOK /\ FreshOK /\ Calm

(***************************************************************************)
(* Calls and exchanges.                                                    *)
(***************************************************************************)

LEMMA FlowCallType ==
    ASSUME NEW x \in FlowCall
    PROVE  /\ x # NoCall
           /\ x.kind \in {"api", "logout", "login"}
           /\ x.body \in Tokens \cup UserIds \cup {NoToken}
           /\ x.header \in Tokens \cup {NoToken}
PROOF
    BY NoTokenAssumption DEF FlowCall

LEMMA ExchangeType ==
    ASSUME NEW s \in Seq(Exchange), NEW i \in 1 .. Len(s)
    PROVE  s[i] \in Exchange /\ s[i].token \in Tokens /\ s[i].token # NoToken
PROOF
<1>1. s[i] \in Exchange
    BY ElementOfSeq
<1>. QED
    BY <1>1, NoTokenAssumption DEF Exchange

LEMMA NoExchange ==
    /\ <<>> \in Seq(Exchange)
    /\ Len(<<>>) = 0
    /\ \A i \in 1 .. Len(<<>>) : FALSE
    /\ \A s \in Seq(Exchange) : s # <<>> => Len(s) \in 1 .. Len(s)
    /\ \A st, ss : ExchangesOK(<<>>, st, ss)
PROOF
<1>1. /\ <<>> \in Seq(Exchange)
      /\ Len(<<>>) = 0
      /\ \A s \in Seq(Exchange) : s # <<>> => Len(s) \in 1 .. Len(s)
    BY EmptySeq
<1>. QED
    BY <1>1 DEF ExchangesOK

\* Exchanges of different tokens are no more than there are tokens.
LEMMA ExchangesBounded ==
    ASSUME NEW s \in Seq(Exchange), NEW st, NEW ss, ExchangesOK(s, st, ss)
    PROVE  Len(s) <= MaxTokens
PROOF
<1>. DEFINE token == [i \in 1 .. Len(s) |-> s[i].token]
<1>1. Len(s) \in Nat
    BY LenProperties
<1>2. \A i \in 1 .. Len(s) : s[i].token \in Tokens
    BY ExchangeType
<1>3. token \in Injection(1 .. Len(s), Tokens)
    BY <1>2 DEF Injection, IsInjective, ExchangesOK
<1>. HIDE DEF token
<1>4. \A n \in Nat : IsFiniteSet(1 .. n) /\ Cardinality(1 .. n) = n
    <2>. TAKE n \in Nat
    <2>1. IsFiniteSet(1 .. n) /\ Cardinality(1 .. n) = IF 1 > n THEN 0 ELSE n - 1 + 1
        BY FS_Interval
    <2>. QED
        BY <2>1
<1>5. /\ IsFiniteSet(Tokens) /\ Cardinality(Tokens) = MaxTokens
      /\ Cardinality(1 .. Len(s)) = Len(s)
    BY <1>1, <1>4, TokensAssumption DEF Tokens
<1>. QED
    BY <1>3, <1>5, FS_Injection

(***************************************************************************)
(* A step of one call.                                                     *)
(***************************************************************************)

\* Issued tokens stay issued, and an answer, r, that is under way is not spent.
Outdates(ss, ss2) == \A t \in Tokens : ss[t] # "none" => ss2[t] # "none"

Spares(r, ss, ss2) == r \in Tokens /\ ss2[r] = "spent" => ss[r] = "spent"

\* What is said of a call stays so while tokens it does not wait for are
\* stored.
LEMMA FlowLater ==
    ASSUME NEW x \in FlowCall \cup {NoCall}, NEW s \in Seq(Exchange), NEW p,
           NEW r \in Tokens \cup {NoToken}, NEW st, NEW ss, NEW st2,
           NEW ss2 \in [Tokens -> {"none", "live", "expired", "spent"}],
           FlowOK(x, s, p, r, st, ss), Outdates(ss, ss2), Spares(r, ss, ss2),
           \/ st2 = st
           \/ st2 = NoToken
           \/ Avoids(st2, x, s) /\ st2 # r
    PROVE  FlowOK(x, s, p, r, st2, ss2)
PROOF
<1>1. \A i \in 1 .. Len(s) : s[i].token \in Tokens /\ s[i].token # NoToken
    BY ExchangeType
<1>2. NoToken \notin Tokens
    BY NoTokenAssumption
<1>3. ExchangesOK(s, st2, ss2)
    BY <1>1 DEF FlowOK, ExchangesOK, Outdates, Avoids
<1>4. AnswerOK(x, s, p, r, st2, ss2)
    BY <1>2 DEF FlowOK, AnswerOK, Outdates, Spares
<1>5. x # NoCall /\ x.kind = "logout" =>
          x.body \in Tokens /\ ss2[x.body] # "none" /\ x.body # st2
    BY <1>2 DEF FlowOK, Outdates, Avoids
<1>. QED
    BY <1>3, <1>4, <1>5 DEF FlowOK

ServiceGoesOn ==
    /\ ServiceShape'
    /\ Outdates(status, status')
    /\ \A f \in Flows : Spares(fresh[f], status, status')

LEMMA FlowStep ==
    ASSUME SessionIInv, NEW f \in Flows,
           NEW x \in FlowCall \cup {NoCall}, NEW s \in Seq(Exchange), NEW p \in Phases,
           NEW r \in Tokens \cup {NoToken},
           calling' = [calling EXCEPT ![f] = x],
           chain' = [chain EXCEPT ![f] = s],
           phase' = [phase EXCEPT ![f] = p],
           fresh' = [fresh EXCEPT ![f] = r],
           ServiceGoesOn, aged' = aged, leaving' \in BOOLEAN, trouble' \in BOOLEAN,
           \/ store' = store
           \/ store' = NoToken
           \/ store' = fresh[f] /\ r = NoToken,
           FlowOK(x, s, p, r, store', status'),
           \A i \in 1 .. Len(s) :
               \/ s[i].token = store
               \/ \E j \in 1 .. Len(chain[f]) : s[i].token = chain[f][j].token,
           x # NoCall /\ x.kind = "logout" =>
               \/ x.body = store
               \/ calling[f] # NoCall /\ calling[f].kind = "logout" /\ x.body = calling[f].body,
           r = NoToken \/ r = fresh[f] \/ (r \in Tokens /\ status[r] = "none")
    PROVE  SessionShape' /\ KnownOK' /\ FlowsOK' /\ FreshOK'
PROOF
<1>1. /\ calling \in [Flows -> FlowCall \cup {NoCall}]
      /\ chain \in [Flows -> Seq(Exchange)]
      /\ phase \in [Flows -> Phases]
      /\ fresh \in [Flows -> Tokens \cup {NoToken}]
      /\ store \in Tokens \cup {NoToken}
    BY DEF SessionIInv, SessionShape
<1>2. /\ calling'[f] = x /\ chain'[f] = s /\ phase'[f] = p /\ fresh'[f] = r
      /\ \A g \in Flows \ {f} : /\ calling'[g] = calling[g] /\ chain'[g] = chain[g]
                                /\ phase'[g] = phase[g] /\ fresh'[g] = fresh[g]
    BY <1>1
<1>3. NoToken \notin Tokens
    BY NoTokenAssumption
<1>4. \A g \in Flows : FlowOK(calling[g], chain[g], phase[g], fresh[g], store, status)
    BY DEF SessionIInv, FlowsOK
<1>5. \A g \in Flows : fresh[g] # NoToken =>
          fresh[g] \in Tokens /\ fresh[g] # store /\ status[fresh[g]] # "none"
    BY <1>1, <1>4 DEF FlowOK, AnswerOK
<1>6. \A g \in Flows, h \in Flows : fresh[g] # NoToken =>
          Avoids(fresh[g], calling[h], chain[h]) /\ (h # g => fresh[h] # fresh[g])
    BY DEF SessionIInv, FreshOK
<1>7. SessionShape'
    BY <1>1, <1>3 DEF SessionIInv, SessionShape, ServiceGoesOn
<1>8. KnownOK'
    <2>1. store' # NoToken => status'[store'] # "none"
        BY <1>1, <1>3, <1>5 DEF SessionIInv, KnownOK, Outdates, ServiceGoesOn
    <2>2. \A t \in aged : t \in Tokens /\ status[t] # "none"
        BY DEF SessionIInv, SessionShape, KnownOK
    <2>. QED
        BY <2>1, <2>2 DEF KnownOK, Outdates, ServiceGoesOn
<1>9. FlowsOK'
    <2>1. ASSUME NEW g \in Flows \ {f}
          PROVE  FlowOK(calling[g], chain[g], phase[g], fresh[g], store', status')
        <3>1. \/ store' = store
              \/ store' = NoToken
              \/ Avoids(store', calling[g], chain[g]) /\ store' # fresh[g]
            BY <1>6
        <3>2. /\ status' \in [Tokens -> {"none", "live", "expired", "spent"}]
              /\ Outdates(status, status') /\ Spares(fresh[g], status, status')
            BY DEF ServiceGoesOn, ServiceShape
        <3>. QED
            BY <1>1, <1>4, <3>1, <3>2, FlowLater
    <2>. QED
        BY <1>2, <2>1 DEF FlowsOK
<1>10. FreshOK'
    <2>1. ASSUME NEW t \in Tokens, NEW g \in Flows, Avoids(t, calling[f], chain[f]), t # store
          PROVE  Avoids(t, x, s)
        BY <2>1 DEF Avoids
    <2>2. ASSUME r \in Tokens, status[r] = "none"
          PROVE  /\ r # store
                 /\ \A h \in Flows : Avoids(r, calling[h], chain[h]) /\ fresh[h] # r
        <3>1. r # store
            BY <2>2, <1>3 DEF SessionIInv, KnownOK
        <3>2. \A h \in Flows : fresh[h] # r
            BY <2>2, <1>3, <1>5
        <3>3. \A h \in Flows : Avoids(r, calling[h], chain[h])
            BY <2>2, <1>4 DEF FlowOK, ExchangesOK, Avoids
        <3>. QED
            BY <3>1, <3>2, <3>3
    <2>3. ASSUME NEW g \in Flows, NEW h \in Flows, fresh'[g] # NoToken
          PROVE  Avoids(fresh'[g], calling'[h], chain'[h]) /\ (h # g => fresh'[h] # fresh'[g])
        <3>1. fresh'[g] \in Tokens /\ fresh'[g] # store
            BY <1>1, <1>2, <1>5, <2>2, <2>3
        <3>2. Avoids(fresh'[g], calling[h], chain[h]) /\ (h # g => fresh[h] # fresh'[g])
            BY <1>2, <1>6, <2>2, <2>3
        <3>3. Avoids(fresh'[g], calling[f], chain[f])
            BY <1>2, <1>6, <2>2, <2>3
        <3>4. Avoids(fresh'[g], calling'[h], chain'[h])
            BY <1>2, <2>1, <3>1, <3>2, <3>3
        <3>5. h # g => fresh'[h] # fresh'[g]
            BY <1>2, <1>6, <2>2, <2>3, <3>2
        <3>. QED
            BY <3>4, <3>5
    <2>. QED
        BY <2>3 DEF FreshOK
<1>. QED
    BY <1>7, <1>8, <1>9, <1>10
\* The call itself is over, as it is after Over.
LEMMA IdleOK ==
    ASSUME NEW st, NEW ss
    PROVE  FlowOK(NoCall, <<>>, "none", NoToken, st, ss)
PROOF
    BY NoExchange DEF FlowOK, AnswerOK

LEMMA FlowKnown ==
    ASSUME SessionIInv, NEW f \in Flows
    PROVE  /\ calling[f] \in FlowCall \cup {NoCall}
           /\ chain[f] \in Seq(Exchange)
           /\ phase[f] \in Phases
           /\ fresh[f] \in Tokens \cup {NoToken}
           /\ FlowOK(calling[f], chain[f], phase[f], fresh[f], store, status)
           /\ calling = [calling EXCEPT ![f] = calling[f]]
           /\ chain = [chain EXCEPT ![f] = chain[f]]
           /\ phase = [phase EXCEPT ![f] = phase[f]]
           /\ fresh = [fresh EXCEPT ![f] = fresh[f]]
           /\ store \in Tokens \cup {NoToken}
           /\ leaving \in BOOLEAN /\ trouble \in BOOLEAN
           /\ phase[f] # "none" => calling[f] \in FlowCall
PROOF
    BY DEF SessionIInv, SessionShape, FlowsOK, FlowOK

LEMMA ServiceSame ==
    ASSUME SessionIInv, UNCHANGED service
    PROVE  ServiceGoesOn /\ status' = status
PROOF
    BY DEF SessionIInv, SessionShape, ServiceShape, ServiceGoesOn, service, Outdates, Spares

LEMMA ServiceSpends ==
    ASSUME SessionIInv, NEW t \in Tokens, Service!Spend(t), \A f \in Flows : fresh[f] # t
    PROVE  /\ ServiceGoesOn
           /\ status[t] # "none" /\ status'[t] = "spent"
           /\ \A s \in Tokens \ {t} : status'[s] = status[s]
PROOF
<1>1. /\ status' = [status EXCEPT ![t] = "spent"] /\ UNCHANGED <<owner, parent>>
      /\ status[t] # "none"
    BY DEF Service!Spend
<1>2. /\ status'[t] = "spent" /\ \A s \in Tokens \ {t} : status'[s] = status[s]
      /\ ServiceShape'
    BY <1>1 DEF SessionIInv, SessionShape, ServiceShape
<1>. QED
    BY <1>1, <1>2 DEF ServiceGoesOn, Outdates, Spares

LEMMA ServiceIssues ==
    ASSUME SessionIInv, NEW t \in Tokens, Service!Issue(t)
    PROVE  /\ ServiceGoesOn
           /\ status[t] = "none" /\ status'[t] = "live"
           /\ \A s \in Tokens \ {t} : status'[s] = status[s]
PROOF
<1>1. PICK u \in UserIds, q \in Tokens \cup {NoToken} :
          /\ status[t] = "none"
          /\ status' = [status EXCEPT ![t] = "live"]
          /\ owner' = [owner EXCEPT ![t] = u]
          /\ parent' = [parent EXCEPT ![t] = q]
    BY DEF Service!Issue
<1>2. /\ status'[t] = "live" /\ \A s \in Tokens \ {t} : status'[s] = status[s]
      /\ ServiceShape'
    BY <1>1 DEF SessionIInv, SessionShape, ServiceShape
<1>. QED
    BY <1>1, <1>2 DEF ServiceGoesOn, Outdates, Spares

\* The backend answers call f, or takes a step for it.
LEMMA AnswerStep ==
    ASSUME SessionIInv, NEW f \in Flows, NEW p \in Phases \ {"none"},
           NEW r \in Tokens \cup {NoToken},
           phase[f] # "none", ServiceGoesOn, trouble' \in BOOLEAN,
           UNCHANGED <<aged, store, leaving, calling, chain>>,
           phase' = [phase EXCEPT ![f] = p],
           fresh' = [fresh EXCEPT ![f] = r],
           AnswerOK(calling[f], chain[f], p, r, store, status'),
           r = NoToken \/ r = fresh[f] \/ (r \in Tokens /\ status[r] = "none")
    PROVE  SessionShape' /\ KnownOK' /\ FlowsOK' /\ FreshOK'
PROOF
<1>. DEFINE x == calling[f]
            s == chain[f]
<1>1. /\ x \in FlowCall /\ s \in Seq(Exchange) /\ fresh[f] \in Tokens \cup {NoToken}
      /\ FlowOK(x, s, phase[f], fresh[f], store, status)
      /\ calling' = [calling EXCEPT ![f] = x] /\ chain' = [chain EXCEPT ![f] = s]
      /\ leaving' \in BOOLEAN
    BY FlowKnown
<1>2. /\ status' \in [Tokens -> {"none", "live", "expired", "spent"}]
      /\ Outdates(status, status') /\ Spares(fresh[f], status, status')
    BY DEF ServiceGoesOn, ServiceShape
<1>3. FlowOK(x, s, phase[f], fresh[f], store', status')
    BY <1>1, <1>2, FlowLater
<1>4. FlowOK(x, s, p, r, store', status')
    BY <1>1, <1>3, FlowCallType DEF FlowOK
<1>. QED
    BY <1>1, <1>4, FlowStep

\* Call f is over.
LEMMA OverStep ==
    ASSUME SessionIInv, NEW f \in Flows, Over(f), UNCHANGED <<service, aged>>,
           leaving' \in BOOLEAN, trouble' \in BOOLEAN, store' \in {store, NoToken, fresh[f]}
    PROVE  SessionShape' /\ KnownOK' /\ FlowsOK' /\ FreshOK'
PROOF
<1>1. /\ NoCall \in FlowCall \cup {NoCall} /\ <<>> \in Seq(Exchange)
      /\ \A i \in 1 .. Len(<<>>) : FALSE
      /\ "none" \in Phases /\ NoToken \in Tokens \cup {NoToken}
    BY NoExchange DEF Phases
<1>3. ServiceGoesOn
    BY ServiceSame
<1>2. FlowOK(NoCall, <<>>, "none", NoToken, store', status')
    BY IdleOK
<1>. QED
    BY <1>1, <1>2, <1>3, FlowStep DEF Over

\* Call f begins.
LEMMA StartStep ==
    ASSUME SessionIInv, NEW f \in Flows, NEW kind \in {"api", "login", "logout"}, NEW body,
           NEW header \in Tokens \cup {NoToken},
           Start(f, kind, body, header), UNCHANGED <<service, aged>>,
           leaving' \in BOOLEAN, trouble' \in BOOLEAN,
           \/ kind = "api" /\ body = NoToken /\ store' = store
           \/ kind = "login" /\ body \in UserIds /\ store' = store
           \/ kind = "logout" /\ store # NoToken /\ body = store /\ store' = NoToken
    PROVE  SessionShape' /\ KnownOK' /\ FlowsOK' /\ FreshOK'
PROOF
<1>. DEFINE x == [kind |-> kind, body |-> body, header |-> header, retried |-> FALSE]
<1>1. store \in Tokens \cup {NoToken} /\ NoToken \notin Tokens
    BY FlowKnown, NoTokenAssumption
<1>2. x \in FlowCall /\ x.kind = kind /\ x.body = body
    BY <1>1 DEF FlowCall
<1>3. calling' = [calling EXCEPT ![f] = x]
    BY DEF Start
<1>. HIDE DEF x
<1>4. x # NoCall
    BY <1>2, FlowCallType
<1>5. store # NoToken => status'[store] # "none"
    BY ServiceSame DEF SessionIInv, KnownOK
<1>6. FlowOK(x, <<>>, "sent", NoToken, store', status')
    BY <1>1, <1>2, <1>4, <1>5, NoExchange DEF FlowOK, AnswerOK
<1>7. /\ x \in FlowCall \cup {NoCall} /\ <<>> \in Seq(Exchange)
      /\ \A i \in 1 .. Len(<<>>) : FALSE
      /\ "sent" \in Phases /\ NoToken \in Tokens \cup {NoToken}
    BY <1>2, NoExchange DEF Phases
<1>8. ServiceGoesOn
    BY ServiceSame
<1>9. x.kind = "logout" => x.body = store
    BY <1>2
<1>10. /\ chain' = [chain EXCEPT ![f] = <<>>]
       /\ phase' = [phase EXCEPT ![f] = "sent"]
       /\ fresh' = [fresh EXCEPT ![f] = NoToken]
       /\ aged' = aged /\ store' \in {store, NoToken}
    BY DEF Start
<1>. QED
    BY <1>3, <1>6, <1>7, <1>8, <1>9, <1>10, FlowStep
(***************************************************************************)
(* Calm, and what the action properties say of a step.                     *)
(***************************************************************************)

\* KeepsUsableToken, of one step.
TokenKept == Sustainable /\ ~Sustainable' => leaving /\ ~leaving'

\* SessionsExplained, of one step.
EndsExplained ==
    /\ SignedIn /\ ~SignedIn' => trouble' \/ UserLogsOut
    /\ SignedOut /\ ~SignedOut' => LoginSucceeds

LEMMA CalmKept ==
    ASSUME SessionIInv, chain' = chain, store' \in {store, NoToken}, ~trouble' => ~trouble,
           \A f \in Flows : chain[f] # <<>> => phase'[f] = phase[f] /\ fresh'[f] = fresh[f],
           ~trouble' =>
               \A t \in Tokens : status[t] = "live" /\ status'[t] # "live" =>
                   t # store /\ \A f \in Flows : fresh[f] # t
    PROVE  Calm'
PROOF
<1>. SUFFICES ASSUME ~trouble'
              PROVE  /\ \A f \in Flows, g \in Flows :
                          chain[f] # <<>> /\ chain[g] # <<>> => f = g
                     /\ \A f \in Flows :
                          CalmExchange(chain[f], phase'[f], fresh'[f], store', status')
                     /\ (\A f \in Flows : chain[f] = <<>>) /\ store' # NoToken
                          => status'[store'] = "live"
    BY DEF Calm
<1>1. /\ \A f \in Flows, g \in Flows : chain[f] # <<>> /\ chain[g] # <<>> => f = g
      /\ \A f \in Flows : CalmExchange(chain[f], phase[f], fresh[f], store, status)
      /\ (\A f \in Flows : chain[f] = <<>>) /\ store # NoToken => status[store] = "live"
    BY DEF SessionIInv, Calm
<1>2. store # NoToken => store \in Tokens
    BY DEF SessionIInv, SessionShape
<1>3. \A f \in Flows : fresh[f] # NoToken => fresh[f] \in Tokens
    BY DEF SessionIInv, SessionShape
<1>4. ASSUME NEW f \in Flows
      PROVE  CalmExchange(chain[f], phase'[f], fresh'[f], store', status')
    BY <1>1, <1>2, <1>3 DEF CalmExchange
<1>. QED
    BY <1>1, <1>2, <1>4

\* Only call f waits for exchanges.
LEMMA CalmAlone ==
    ASSUME NEW f \in Flows,
           ~trouble' =>
               /\ \A g \in Flows \ {f} : chain'[g] = <<>>
               /\ CalmExchange(chain'[f], phase'[f], fresh'[f], store', status')
               /\ chain'[f] = <<>> /\ store' # NoToken => status'[store'] = "live"
    PROVE  Calm'
PROOF
    BY DEF Calm, CalmExchange

\* In calm, what is known of call f when it waits for an exchange.
LEMMA CalmFacts ==
    ASSUME SessionIInv, ~trouble, NEW f \in Flows, chain[f] # <<>>
    PROVE  /\ \A g \in Flows \ {f} : chain[g] = <<>>
           /\ CalmExchange(chain[f], phase[f], fresh[f], store, status)
           /\ Len(chain[f]) = 1 /\ Top(f) = chain[f][1]
PROOF
    BY DEF SessionIInv, Calm, CalmExchange, Top

\* Nothing is explained, or kept, where the store and the exchanges stay, but
\* for the token in the store.
LEMMA Quiet ==
    ASSUME chain' = chain, store' = store,
           store # NoToken /\ status'[store] # status[store] =>
               BeingReplaced(store) \/ (status'[store] # "spent" /\ trouble')
    PROVE  TokenKept /\ EndsExplained
PROOF
<1>1. \A t : BeingReplaced(t)' <=> BeingReplaced(t)
    BY DEF BeingReplaced
<1>2. Sustainable' <=> (store # NoToken => status'[store] # "spent" \/ BeingReplaced(store))
    BY DEF Sustainable, BeingReplaced
<1>3. SignedIn' <=> store # NoToken /\ (status'[store] = "live" \/ BeingReplaced(store))
    BY DEF SignedIn, BeingReplaced
<1>4. SignedOut' <=> SignedOut
    BY DEF SignedOut
<1>. QED
    BY <1>2, <1>3, <1>4 DEF TokenKept, EndsExplained, Sustainable, SignedIn

(***************************************************************************)
(* The actions.                                                            *)
(***************************************************************************)

\* What the user starts; the exchanges of call f are over.
LEMMA ReadyFacts ==
    ASSUME SessionIInv, NEW f \in Flows, Ready(f)
    PROVE  chain[f] = <<>> /\ [chain EXCEPT ![f] = <<>>] = chain
PROOF
    BY FlowKnown DEF Ready, FlowOK

LEMMA StartCalm ==
    ASSUME SessionIInv, NEW f \in Flows, NEW kind, NEW body, NEW header, Ready(f),
           Start(f, kind, body, header), UNCHANGED <<service, trouble>>,
           store' \in {store, NoToken}
    PROVE  Calm' /\ chain' = chain /\ status' = status
PROOF
<1>1. chain' = chain /\ chain[f] = <<>> /\ status' = status /\ trouble' = trouble
    BY ReadyFacts DEF Start, service
<1>2. \A g \in Flows \ {f} : phase'[g] = phase[g] /\ fresh'[g] = fresh[g]
    BY DEF SessionIInv, SessionShape, Start
<1>. QED
    BY <1>1, <1>2, CalmKept

LEMMA RequestOK ==
    ASSUME SessionIInv, NEW f \in Flows, Request(f)
    PROVE  SessionIInv' /\ TokenKept /\ EndsExplained
PROOF
<1>1. /\ Ready(f) /\ Start(f, "api", NoToken, store) /\ UNCHANGED <<service, aged>>
      /\ store' = store /\ leaving' = leaving /\ trouble' = trouble
    BY DEF Request
<1>2. /\ store \in Tokens \cup {NoToken} /\ leaving \in BOOLEAN /\ trouble \in BOOLEAN
    BY FlowKnown
<1>3. SessionShape' /\ KnownOK' /\ FlowsOK' /\ FreshOK'
    BY <1>1, <1>2, StartStep
<1>4. Calm' /\ chain' = chain /\ status' = status
    BY <1>1, StartCalm
<1>. QED
    BY <1>1, <1>3, <1>4, Quiet DEF SessionIInv

LEMMA SubmitLoginOK ==
    ASSUME SessionIInv, NEW f \in Flows, SubmitLogin(f)
    PROVE  SessionIInv' /\ TokenKept /\ EndsExplained
PROOF
<1>1. PICK u \in UserIds : Start(f, "login", u, NoToken)
    BY DEF SubmitLogin
<1>2. /\ Ready(f) /\ UNCHANGED <<service, aged>>
      /\ store' = store /\ leaving' = leaving /\ trouble' = trouble
    BY DEF SubmitLogin
<1>3. leaving \in BOOLEAN /\ trouble \in BOOLEAN
    BY FlowKnown
<1>4. SessionShape' /\ KnownOK' /\ FlowsOK' /\ FreshOK'
    BY <1>1, <1>2, <1>3, StartStep
<1>5. Calm' /\ chain' = chain /\ status' = status
    BY <1>1, <1>2, StartCalm
<1>. QED
    BY <1>2, <1>4, <1>5, Quiet DEF SessionIInv

LEMMA PressLogoutOK ==
    ASSUME SessionIInv, NEW f \in Flows, PressLogout(f)
    PROVE  SessionIInv' /\ TokenKept /\ EndsExplained
PROOF
<1>1. /\ Ready(f) /\ Start(f, "logout", store, NoToken) /\ UNCHANGED <<service, aged>>
      /\ store # NoToken /\ store' = NoToken /\ leaving' = leaving /\ trouble' = trouble
    BY DEF PressLogout, SendLogout, LogoutHeader
<1>2. /\ leaving \in BOOLEAN /\ trouble \in BOOLEAN
      /\ calling \in [Flows -> FlowCall \cup {NoCall}]
    BY FlowKnown DEF SessionIInv, SessionShape
<1>3. SessionShape' /\ KnownOK' /\ FlowsOK' /\ FreshOK'
    BY <1>1, <1>2, StartStep
<1>4. Calm' /\ chain' = chain /\ status' = status
    BY <1>1, StartCalm
<1>5. UserLogsOut
    <2>. DEFINE x == [kind |-> "logout", body |-> store, header |-> NoToken, retried |-> FALSE]
    <2>1. x \in FlowCall
        BY <1>1, FlowKnown DEF FlowCall
    <2>2. calling'[f] = x /\ calling[f] = NoCall
        BY <1>1, <1>2 DEF Start, Ready
    <2>3. x.kind = "logout"
        OBVIOUS
    <2>. HIDE DEF x
    <2>. QED
        BY <2>1, <2>2, <2>3, FlowCallType DEF UserLogsOut
<1>6. Sustainable'
    BY <1>1 DEF Sustainable
<1>7. ~SignedOut
    BY <1>1 DEF SignedOut
<1>. QED
    BY <1>3, <1>4, <1>5, <1>6, <1>7 DEF SessionIInv, TokenKept, EndsExplained
\* An answer to a call that is not an exchange: the token in the store, and
\* those on their way to it, are not spent.
LEMMA ServedCalm ==
    ASSUME SessionIInv, NEW f \in Flows, NEW p, NEW r, chain[f] = <<>>,
           UNCHANGED <<store, chain>>, ~trouble' => ~trouble,
           phase' = [phase EXCEPT ![f] = p], fresh' = [fresh EXCEPT ![f] = r],
           \A t \in Tokens : status[t] = "live" /\ status'[t] # "live" =>
               t # store /\ \A g \in Flows : fresh[g] # t
    PROVE  Calm'
PROOF
<1>1. \A g \in Flows \ {f} : phase'[g] = phase[g] /\ fresh'[g] = fresh[g]
    BY DEF SessionIInv, SessionShape
<1>. QED
    BY <1>1, CalmKept

LEMMA WaitingFacts ==
    ASSUME SessionIInv, NEW f \in Flows,
           phase[f] \in {"sent", "found", "revoked", "401", "error"}
    PROVE  calling[f] \in FlowCall /\ fresh[f] = NoToken
PROOF
    BY FlowKnown DEF FlowOK, AnswerOK

LEMMA ServeRequestOK ==
    ASSUME SessionIInv, NEW f \in Flows, ServeRequest(f)
    PROVE  SessionIInv' /\ TokenKept /\ EndsExplained
PROOF
<1>. DEFINE p == IF Authorized(f) THEN "ok" ELSE "401"
<1>1. /\ calling[f].kind = "api" /\ chain[f] = <<>> /\ phase[f] = "sent"
      /\ phase' = [phase EXCEPT ![f] = p] /\ fresh' = fresh
      /\ UNCHANGED <<service, aged, store, leaving, calling, chain, trouble>>
    BY DEF ServeRequest, Serving, Answer, browser
<1>2. p \in Phases \ {"none"} /\ phase[f] # "none"
    BY <1>1 DEF Phases
<1>. HIDE DEF p
<1>3. /\ fresh[f] = NoToken /\ fresh' = [fresh EXCEPT ![f] = NoToken]
      /\ NoToken \in Tokens \cup {NoToken} /\ trouble' \in BOOLEAN
    BY <1>1, WaitingFacts, FlowKnown
<1>4. AnswerOK(calling[f], chain[f], p, NoToken, store, status')
    BY <1>1 DEF AnswerOK
<1>5. ServiceGoesOn /\ status' = status
    BY <1>1, ServiceSame
<1>6. SessionShape' /\ KnownOK' /\ FlowsOK' /\ FreshOK'
    BY <1>1, <1>2, <1>3, <1>4, <1>5, AnswerStep
<1>7. Calm'
    BY <1>1, <1>3, <1>5, ServedCalm
<1>. QED
    BY <1>1, <1>5, <1>6, <1>7, Quiet DEF SessionIInv

LEMMA ServeLogoutOK ==
    ASSUME SessionIInv, NEW f \in Flows, ServeLogout(f)
    PROVE  SessionIInv' /\ TokenKept /\ EndsExplained
PROOF
<1>. DEFINE p == IF Authorized(f) THEN "ok" ELSE "401"
            b == calling[f].body
<1>1. /\ calling[f] # NoCall /\ calling[f].kind = "logout"
      /\ chain[f] = <<>> /\ phase[f] = "sent"
      /\ phase' = [phase EXCEPT ![f] = p] /\ fresh' = fresh
      /\ UNCHANGED <<aged, store, leaving, calling, chain, trouble>>
      /\ Service!Spend(b) \/ UNCHANGED service
    BY DEF ServeLogout, Serving, Answer, browser
<1>2. p \in Phases \ {"none"} /\ phase[f] # "none"
    BY <1>1 DEF Phases
<1>. HIDE DEF p
<1>3. /\ fresh[f] = NoToken /\ fresh' = [fresh EXCEPT ![f] = NoToken]
      /\ NoToken \in Tokens \cup {NoToken} /\ trouble' \in BOOLEAN
    BY <1>1, WaitingFacts, FlowKnown
<1>4. AnswerOK(calling[f], chain[f], p, NoToken, store, status')
    BY <1>1 DEF AnswerOK
<1>5. b \in Tokens /\ b # store
    BY <1>1, FlowKnown DEF FlowOK
<1>6. \A g \in Flows : fresh[g] # b
    BY <1>1, <1>5, NoTokenAssumption DEF SessionIInv, FreshOK, Avoids
<1>7. /\ ServiceGoesOn
      /\ \A t \in Tokens \ {b} : status'[t] = status[t]
    BY <1>1, <1>5, <1>6, ServiceSame, ServiceSpends
<1>8. SessionShape' /\ KnownOK' /\ FlowsOK' /\ FreshOK'
    BY <1>1, <1>2, <1>3, <1>4, <1>7, AnswerStep
<1>9. Calm'
    <2>1. \A t \in Tokens : status[t] = "live" /\ status'[t] # "live" =>
              t # store /\ \A g \in Flows : fresh[g] # t
        BY <1>5, <1>6, <1>7
    <2>. QED
        BY <1>1, <1>3, <2>1, ServedCalm
<1>10. store # NoToken => status'[store] = status[store]
    BY <1>5, <1>7, FlowKnown
<1>. QED
    BY <1>1, <1>8, <1>9, <1>10, Quiet DEF SessionIInv

\* A token that is issued was unknown.
LEMMA IssueFacts ==
    ASSUME SessionIInv, NEW f \in Flows, NEW u, NEW q, Issue(f, u, q), fresh[f] = NoToken,
           phase[f] \in {"sent", "revoked"}, chain[f] # <<>> \/ calling[f].kind = "login",
           UNCHANGED <<aged, store, leaving, calling, chain>>
    PROVE  /\ SessionShape' /\ KnownOK' /\ FlowsOK' /\ FreshOK'
           /\ store # NoToken => status'[store] = status[store]
           /\ ~trouble' =>
                /\ ~trouble
                /\ phase'[f] = "ok"
                /\ status'[fresh'[f]] = "live"
           /\ \A t \in Tokens : status[t] = "live" => status'[t] = "live"
           /\ \A g \in Flows \ {f} : phase'[g] = phase[g] /\ fresh'[g] = fresh[g]
PROOF
<1>1. /\ phase \in [Flows -> Phases] /\ fresh \in [Flows -> Tokens \cup {NoToken}]
      /\ trouble \in BOOLEAN /\ store \in Tokens \cup {NoToken}
      /\ store # NoToken => status[store] # "none"
    BY DEF SessionIInv, SessionShape, KnownOK
<1>2. {"ok", "error"} \subseteq Phases \ {"none"} /\ phase[f] # "none"
    BY DEF Phases
<1>3. CASE \E t \in Tokens :
             /\ Service!Issue(t)
             /\ fresh' = [fresh EXCEPT ![f] = t]
             /\ phase' = [phase EXCEPT ![f] = "ok"]
             /\ UNCHANGED trouble
    <2>1. PICK t \in Tokens :
             /\ Service!Issue(t)
             /\ fresh' = [fresh EXCEPT ![f] = t]
             /\ phase' = [phase EXCEPT ![f] = "ok"]
             /\ UNCHANGED trouble
        BY <1>3
    <2>2. /\ ServiceGoesOn
          /\ status[t] = "none" /\ status'[t] = "live"
          /\ \A s \in Tokens \ {t} : status'[s] = status[s]
        BY <2>1, ServiceIssues
    <2>3. t # store /\ t # NoToken
        BY <1>1, <2>2, NoTokenAssumption
    <2>4. AnswerOK(calling[f], chain[f], "ok", t, store, status')
        BY <2>2, <2>3 DEF AnswerOK
    <2>5. SessionShape' /\ KnownOK' /\ FlowsOK' /\ FreshOK'
        BY <1>1, <1>2, <2>1, <2>2, <2>4, AnswerStep
    <2>. QED
        BY <1>1, <2>1, <2>2, <2>3, <2>5
<1>4. CASE /\ phase' = [phase EXCEPT ![f] = "error"]
           /\ trouble' = TRUE
           /\ UNCHANGED <<service, fresh>>
    <2>1. ServiceGoesOn /\ status' = status
        BY <1>4, ServiceSame
    <2>2. /\ fresh' = [fresh EXCEPT ![f] = NoToken] /\ NoToken \in Tokens \cup {NoToken}
          /\ trouble' \in BOOLEAN
        BY <1>1, <1>4
    <2>3. AnswerOK(calling[f], chain[f], "error", NoToken, store, status')
        BY DEF AnswerOK
    <2>4. SessionShape' /\ KnownOK' /\ FlowsOK' /\ FreshOK'
        BY <1>2, <1>4, <2>1, <2>2, <2>3, AnswerStep
    <2>. QED
        BY <1>1, <1>4, <2>1, <2>4
<1>. QED
    BY <1>3, <1>4 DEF Issue, Answer

LEMMA ServeLoginOK ==
    ASSUME SessionIInv, NEW f \in Flows, ServeLogin(f)
    PROVE  SessionIInv' /\ TokenKept /\ EndsExplained
PROOF
<1>1. /\ calling[f].kind = "login" /\ chain[f] = <<>> /\ phase[f] = "sent"
      /\ Issue(f, calling[f].body, NoToken)
      /\ UNCHANGED <<aged, store, leaving, calling, chain>>
    BY DEF ServeLogin, Serving
<1>2. /\ SessionShape' /\ KnownOK' /\ FlowsOK' /\ FreshOK'
      /\ store # NoToken => status'[store] = status[store]
      /\ ~trouble' => ~trouble
      /\ \A t \in Tokens : status[t] = "live" => status'[t] = "live"
      /\ \A g \in Flows \ {f} : phase'[g] = phase[g] /\ fresh'[g] = fresh[g]
    BY <1>1, WaitingFacts, IssueFacts
<1>3. Calm'
    BY <1>1, <1>2, CalmKept
<1>. QED
    BY <1>1, <1>2, <1>3, Quiet DEF SessionIInv
(***************************************************************************)
(* The exchanges.                                                          *)
(***************************************************************************)

LEMMA TopFacts ==
    ASSUME SessionIInv, NEW f \in Flows, chain[f] # <<>>
    PROVE  /\ Len(chain[f]) \in 1 .. Len(chain[f])
           /\ Top(f) \in Exchange /\ Top(f).token \in Tokens
           /\ status[Top(f).token] # "none"
           /\ \A g \in Flows : fresh[g] # Top(f).token
           /\ BeingReplaced(Top(f).token)
PROOF
<1>. DEFINE n == Len(chain[f])
<1>1. chain[f] \in Seq(Exchange) /\ n \in 1 .. n /\ DOMAIN chain[f] = 1 .. n
    BY FlowKnown, NoExchange, LenProperties
<1>2. Top(f) \in Exchange /\ Top(f).token \in Tokens /\ Top(f).token # NoToken
    BY <1>1, ExchangeType DEF Top
<1>3. status[Top(f).token] # "none"
    BY <1>1, FlowKnown DEF FlowOK, ExchangesOK, Top
<1>4. \A g \in Flows : fresh[g] # Top(f).token
    BY <1>1, <1>2 DEF SessionIInv, FreshOK, Avoids, Top
<1>5. BeingReplaced(Top(f).token)
    BY <1>1 DEF BeingReplaced, Top
<1>. QED
    BY <1>1, <1>2, <1>3, <1>4, <1>5

\* A step of the exchange that call f waits for.
LEMMA ExchangeCalm ==
    ASSUME SessionIInv, NEW f \in Flows, chain[f] # <<>>, chain' = chain,
           ~trouble' =>
               ~trouble /\ CalmExchange(chain[f], phase'[f], fresh'[f], store', status')
    PROVE  Calm'
PROOF
    BY CalmFacts, CalmAlone

LEMMA FindTokenOK ==
    ASSUME SessionIInv, NEW f \in Flows, FindToken(f)
    PROVE  SessionIInv' /\ TokenKept /\ EndsExplained
PROOF
<1>. DEFINE p == IF status[Top(f).token] = "live" THEN "found" ELSE "401"
<1>1. /\ chain[f] # <<>> /\ phase[f] = "sent"
      /\ phase' = [phase EXCEPT ![f] = p] /\ fresh' = fresh
      /\ UNCHANGED <<service, aged, store, leaving, calling, chain, trouble>>
    BY DEF FindToken, Exchanging, Answer, browser
<1>2. p \in Phases \ {"none"} /\ phase[f] # "none" /\ p # "ok" /\ phase'[f] = p
    BY <1>1 DEF Phases, SessionIInv, SessionShape
<1>3. p # "error" /\ (status[Top(f).token] = "live" => p = "found")
    OBVIOUS
<1>4. p = "found" => status[Top(f).token] = "live"
    OBVIOUS
<1>. HIDE DEF p
<1>5. /\ fresh[f] = NoToken /\ fresh' = [fresh EXCEPT ![f] = NoToken]
      /\ NoToken \in Tokens \cup {NoToken} /\ trouble' \in BOOLEAN
    BY <1>1, WaitingFacts, FlowKnown
<1>6. AnswerOK(calling[f], chain[f], p, NoToken, store, status')
    BY <1>2 DEF AnswerOK
<1>7. ServiceGoesOn /\ status' = status
    BY <1>1, ServiceSame
<1>8. SessionShape' /\ KnownOK' /\ FlowsOK' /\ FreshOK'
    BY <1>1, <1>2, <1>5, <1>6, <1>7, AnswerStep
<1>9. ASSUME ~trouble
      PROVE  CalmExchange(chain[f], p, NoToken, store, status)
    BY <1>1, <1>3, <1>4, <1>9, CalmFacts DEF CalmExchange
<1>10. Calm'
    BY <1>1, <1>2, <1>5, <1>7, <1>9, ExchangeCalm
<1>. QED
    BY <1>1, <1>7, <1>8, <1>10, Quiet DEF SessionIInv

LEMMA RevokeFoundOK ==
    ASSUME SessionIInv, NEW f \in Flows, RevokeFound(f)
    PROVE  SessionIInv' /\ TokenKept /\ EndsExplained
PROOF
<1>. DEFINE t == Top(f).token
<1>1. /\ chain[f] # <<>> /\ phase[f] = "found"
      /\ phase' = [phase EXCEPT ![f] = "revoked"] /\ fresh' = fresh
      /\ UNCHANGED <<aged, store, leaving, calling, chain, trouble>>
      /\ Service!Spend(t) \/ UNCHANGED service
    BY DEF RevokeFound, Exchanging, Answer, browser
<1>2. "revoked" \in Phases \ {"none"} /\ phase[f] # "none" /\ phase'[f] = "revoked"
    BY <1>1 DEF Phases, SessionIInv, SessionShape
<1>3. t \in Tokens /\ BeingReplaced(t) /\ \A g \in Flows : fresh[g] # t
    BY <1>1, TopFacts
<1>4. /\ fresh[f] = NoToken /\ fresh' = [fresh EXCEPT ![f] = NoToken]
      /\ NoToken \in Tokens \cup {NoToken} /\ trouble' \in BOOLEAN
    BY <1>1, WaitingFacts, FlowKnown
<1>5. AnswerOK(calling[f], chain[f], "revoked", NoToken, store, status')
    BY DEF AnswerOK
<1>6. ServiceGoesOn /\ \A s \in Tokens \ {t} : status'[s] = status[s]
    BY <1>1, <1>3, ServiceSame, ServiceSpends
<1>7. SessionShape' /\ KnownOK' /\ FlowsOK' /\ FreshOK'
    BY <1>1, <1>2, <1>4, <1>5, <1>6, AnswerStep
<1>8. ASSUME ~trouble
      PROVE  CalmExchange(chain[f], "revoked", NoToken, store, status')
    BY <1>1, <1>8, CalmFacts DEF CalmExchange
<1>9. Calm'
    BY <1>1, <1>2, <1>4, <1>8, ExchangeCalm
<1>10. store # NoToken /\ status'[store] # status[store] => BeingReplaced(store)
    BY <1>3, <1>6, FlowKnown
<1>. QED
    BY <1>1, <1>7, <1>9, <1>10, Quiet DEF SessionIInv

LEMMA IssueNextOK ==
    ASSUME SessionIInv, NEW f \in Flows, IssueNext(f)
    PROVE  SessionIInv' /\ TokenKept /\ EndsExplained
PROOF
<1>1. /\ chain[f] # <<>> /\ phase[f] = "revoked"
      /\ Issue(f, owner[Top(f).token], Top(f).token)
      /\ UNCHANGED <<aged, store, leaving, calling, chain>>
    BY DEF IssueNext, Exchanging
<1>2. /\ SessionShape' /\ KnownOK' /\ FlowsOK' /\ FreshOK'
      /\ store # NoToken => status'[store] = status[store]
      /\ ~trouble' => ~trouble /\ phase'[f] = "ok" /\ status'[fresh'[f]] = "live"
    BY <1>1, WaitingFacts, IssueFacts
<1>3. ASSUME ~trouble'
      PROVE  CalmExchange(chain[f], phase'[f], fresh'[f], store', status')
    BY <1>1, <1>2, <1>3, CalmFacts DEF CalmExchange
<1>4. Calm'
    BY <1>1, <1>2, <1>3, ExchangeCalm
<1>. QED
    BY <1>1, <1>2, <1>4, Quiet DEF SessionIInv

LEMMA CallFailsOK ==
    ASSUME SessionIInv, NEW f \in Flows, CallFails(f)
    PROVE  SessionIInv' /\ TokenKept /\ EndsExplained
PROOF
<1>1. /\ phase[f] \in {"sent", "found", "revoked"} /\ phase' = [phase EXCEPT ![f] = "error"]
      /\ UNCHANGED <<service, aged, store, leaving, calling, chain, fresh>> /\ trouble' = TRUE
    BY DEF CallFails, Answer
<1>2. "error" \in Phases \ {"none"} /\ phase[f] # "none"
    BY <1>1 DEF Phases
<1>3. /\ fresh' = [fresh EXCEPT ![f] = NoToken]
      /\ NoToken \in Tokens \cup {NoToken} /\ trouble' \in BOOLEAN
    BY <1>1, WaitingFacts, FlowKnown
<1>4. AnswerOK(calling[f], chain[f], "error", NoToken, store, status')
    BY DEF AnswerOK
<1>5. ServiceGoesOn /\ status' = status
    BY <1>1, ServiceSame
<1>6. SessionShape' /\ KnownOK' /\ FlowsOK' /\ FreshOK'
    BY <1>1, <1>2, <1>3, <1>4, <1>5, AnswerStep
<1>7. Calm'
    BY <1>1 DEF Calm
<1>. QED
    BY <1>1, <1>5, <1>6, <1>7, Quiet DEF SessionIInv

(***************************************************************************)
(* Time.                                                                   *)
(***************************************************************************)

LEMMA AgeOK ==
    ASSUME SessionIInv, NEW t \in Tokens, Age(t)
    PROVE  SessionIInv' /\ TokenKept /\ EndsExplained
PROOF
<1>1. /\ status[t] # "none" /\ aged' = aged \cup {t}
      /\ UNCHANGED <<status, owner, parent, store, leaving, calling, chain, phase, fresh>>
      /\ trouble' = trouble
    BY DEF Age, service, browser
<1>2. SessionShape' /\ KnownOK'
    BY <1>1 DEF SessionIInv, SessionShape, ServiceShape, KnownOK
<1>3. FlowsOK' /\ FreshOK' /\ Calm'
    BY <1>1 DEF SessionIInv, FlowsOK, FreshOK, Calm
<1>. QED
    BY <1>1, <1>2, <1>3, Quiet DEF SessionIInv

LEMMA ExpireOK ==
    ASSUME SessionIInv, NEW t \in Tokens, Expire(t)
    PROVE  SessionIInv' /\ TokenKept /\ EndsExplained
PROOF
<1>1. /\ status' = [status EXCEPT ![t] = "expired"] /\ UNCHANGED <<owner, parent>>
      /\ UNCHANGED <<aged, store, leaving, calling, chain, phase, fresh>> /\ trouble' = TRUE
    BY DEF Expire, Service!Expire
<1>2. /\ status' \in [Tokens -> {"none", "live", "expired", "spent"}]
      /\ status'[t] = "expired" /\ \A s \in Tokens \ {t} : status'[s] = status[s]
    BY <1>1 DEF SessionIInv, SessionShape, ServiceShape
<1>3. Outdates(status, status') /\ \A r : Spares(r, status, status')
    BY <1>2 DEF Outdates, Spares
<1>4. SessionShape'
    BY <1>1, <1>2 DEF SessionIInv, SessionShape, ServiceShape
<1>5. KnownOK'
    BY <1>1, <1>3 DEF SessionIInv, SessionShape, KnownOK, Outdates
<1>6. FlowsOK'
    <2>1. ASSUME NEW f \in Flows
          PROVE  FlowOK(calling[f], chain[f], phase[f], fresh[f], store, status')
        BY <1>2, <1>3, FlowKnown, FlowLater
    <2>. QED
        BY <1>1, <2>1 DEF FlowsOK
<1>7. FreshOK' /\ Calm'
    BY <1>1 DEF SessionIInv, FreshOK, Calm
<1>8. store # NoToken /\ status'[store] # status[store] => status'[store] # "spent"
    BY <1>2 DEF SessionIInv, SessionShape
<1>. QED
    BY <1>1, <1>4, <1>5, <1>6, <1>7, <1>8, Quiet DEF SessionIInv
(***************************************************************************)
(* The page.                                                               *)
(***************************************************************************)

LEMMA OverFacts ==
    ASSUME SessionIInv, NEW f \in Flows, Over(f), chain[f] = <<>>, UNCHANGED <<service, store>>,
           trouble' = trouble
    PROVE  Calm' /\ TokenKept /\ EndsExplained
PROOF
<1>1. chain' = chain /\ status' = status
    BY FlowKnown DEF Over, service
<1>2. \A g \in Flows \ {f} : phase'[g] = phase[g] /\ fresh'[g] = fresh[g]
    BY DEF SessionIInv, SessionShape, Over
<1>3. Calm'
    BY <1>1, <1>2, CalmKept
<1>. QED
    BY <1>1, <1>3, Quiet

LEMMA CallSucceedsOK ==
    ASSUME SessionIInv, NEW f \in Flows, CallSucceeds(f)
    PROVE  SessionIInv' /\ TokenKept /\ EndsExplained
PROOF
<1>1. /\ phase[f] = "ok" /\ chain[f] = <<>> /\ Over(f)
      /\ UNCHANGED <<service, aged>> /\ leaving' = leaving /\ leaving' \in BOOLEAN
    BY FlowKnown DEF CallSucceeds
<1>2. CASE calling[f].kind # "login"
    <2>1. store' = store /\ trouble' = trouble /\ trouble' \in BOOLEAN
        BY <1>2, FlowKnown DEF CallSucceeds
    <2>. QED
        BY <1>1, <2>1, OverStep, OverFacts DEF SessionIInv
<1>3. CASE calling[f].kind = "login"
    <2>1. store' = fresh[f]
        BY <1>3 DEF CallSucceeds
    <2>2. trouble' = (leaving \/ Elsewhere(f) \/ status[fresh[f]] # "live")
        BY <1>3 DEF CallSucceeds
    <2>3. trouble' \in BOOLEAN
        BY <2>2
    <2>4. ~trouble' => ~Elsewhere(f) /\ status[fresh[f]] = "live"
        BY <2>2
    <2>5. /\ chain' = chain /\ status' = status
        BY <1>1, FlowKnown DEF Over, service
    <2>6. fresh[f] # NoToken /\ status[fresh[f]] \in {"live", "expired"} /\ calling[f] # NoCall
        BY <1>1, <1>3, FlowKnown DEF FlowOK, AnswerOK
    <2>7. SessionShape' /\ KnownOK' /\ FlowsOK' /\ FreshOK'
        BY <1>1, <2>1, <2>3, OverStep
    <2>8. Calm'
        <3>1. ASSUME ~Elsewhere(f)
              PROVE  \A g \in Flows \ {f} : chain'[g] = <<>>
            BY <2>5, <3>1 DEF Elsewhere
        <3>2. CalmExchange(chain'[f], phase'[f], fresh'[f], store', status')
            BY <1>1, <2>5 DEF CalmExchange
        <3>. QED
            BY <2>1, <2>4, <2>5, <3>1, <3>2, CalmAlone
    <2>9. Sustainable' /\ (~trouble' => SignedIn')
        BY <2>1, <2>4, <2>5, <2>6 DEF Sustainable, SignedIn
    <2>10. LoginSucceeds
        BY <1>3, <2>6 DEF LoginSucceeds
    <2>. QED
        BY <2>7, <2>8, <2>9, <2>10 DEF SessionIInv, TokenKept, EndsExplained
<1>. QED
    BY <1>2, <1>3

LEMMA RejectOK ==
    ASSUME SessionIInv, NEW f \in Flows, Reject(f)
    PROVE  SessionIInv' /\ TokenKept /\ EndsExplained
PROOF
<1>1. /\ chain[f] = <<>> /\ Over(f) /\ UNCHANGED <<service, aged>>
      /\ leaving' \in BOOLEAN /\ store' = store
      /\ trouble' = trouble /\ trouble' \in BOOLEAN
    BY FlowKnown DEF Reject
<1>. QED
    BY <1>1, OverStep, OverFacts DEF SessionIInv

\* The exchange of the token in the store, after those of other tokens.
LEMMA AppendedOK ==
    ASSUME NEW s \in Seq(Exchange), NEW st \in Tokens, NEW ss, s # <<>>,
           ExchangesOK(s, st, ss), s[Len(s)].token # st, ss[st] # "none"
    PROVE  LET s2 == Append([s EXCEPT ![Len(s)].retried = TRUE],
                            [token |-> st, retried |-> FALSE]) IN
           /\ s2 \in Seq(Exchange) /\ s2 # <<>>
           /\ Len(s2) = Len(s) + 1
           /\ s2[Len(s2)].token = st
           /\ \A i \in 1 .. Len(s) : s2[i].token = s[i].token
           /\ ExchangesOK(s2, st, ss)
PROOF
<1>. DEFINE n  == Len(s)
            d  == [s[n] EXCEPT !.retried = TRUE]
            s1 == [s EXCEPT ![n] = d]
            e  == [token |-> st, retried |-> FALSE]
            s2 == Append(s1, e)
<1>1. n \in Nat /\ n \in 1 .. n
    BY NoExchange, LenProperties
<1>2. s[n] \in Exchange
    BY <1>1, ExchangeType
<1>3. d \in Exchange /\ d.token = s[n].token
    BY <1>2 DEF Exchange
<1>4. e \in Exchange /\ e.token = st
    BY DEF Exchange
<1>5. [s EXCEPT ![n].retried = TRUE] = s1
    OBVIOUS
<1>. HIDE DEF d, e
<1>6. /\ s1 \in Seq(Exchange) /\ Len(s1) = n
      /\ \A i \in 1 .. n : s1[i] = IF i = n THEN d ELSE s[i]
    BY <1>1, <1>3, ExceptSeq
<1>7. \A i \in 1 .. n : s1[i].token = s[i].token
    BY <1>3, <1>6
<1>. HIDE DEF s1, n
<1>8. /\ s2 \in Seq(Exchange) /\ s2 # <<>> /\ Len(s2) = n + 1
      /\ \A i \in 1 .. n : s2[i] = s1[i]
      /\ s2[n + 1] = e
    BY <1>4, <1>6, AppendProperties
<1>. HIDE DEF s2
<1>9. \A i \in 1 .. n : s2[i].token = s[i].token /\ s2[i].token # st /\ ss[s2[i].token] # "none"
    BY <1>1, <1>7, <1>8 DEF ExchangesOK, n
<1>10. s2[n + 1].token = st
    BY <1>4, <1>8
<1>11. \A i \in 1 .. n + 1 : i \in 1 .. n \/ i = n + 1
    BY <1>1
<1>12. \A i \in 1 .. n : \A j \in 1 .. n : i # j => s2[i].token # s2[j].token
    BY <1>9 DEF ExchangesOK, n
<1>13. ExchangesOK(s2, st, ss)
    BY <1>1, <1>8, <1>9, <1>10, <1>11, <1>12 DEF ExchangesOK
<1>. QED
    BY <1>5, <1>8, <1>9, <1>10, <1>13 DEF s2, e, n

LEMMA FirstOK ==
    ASSUME NEW st \in Tokens, NEW ss, ss[st] # "none"
    PROVE  LET s == <<[token |-> st, retried |-> FALSE]>> IN
           s \in Seq(Exchange) /\ Len(s) = 1 /\ s[1].token = st /\ ExchangesOK(s, st, ss)
PROOF
    BY DEF Exchange, ExchangesOK

\* The exchange that is over is forgotten; those that waited for it wait on.
LEMMA PoppedOK ==
    ASSUME NEW s \in Seq(Exchange), NEW st, NEW ss, NEW st2, s # <<>>,
           ExchangesOK(s, st, ss), \A i \in 1 .. Len(s) : s[i].token # st2
    PROVE  LET s2 == SubSeq(s, 1, Len(s) - 1) IN
           /\ s2 \in Seq(Exchange)
           /\ Len(s2) = Len(s) - 1
           /\ \A i \in 1 .. Len(s2) : i \in 1 .. Len(s) /\ s2[i] = s[i]
           /\ Len(s) = 1 => s2 = <<>>
           /\ ExchangesOK(s2, st2, ss)
PROOF
<1>. DEFINE n  == Len(s)
            s2 == SubSeq(s, 1, n - 1)
<1>1. n \in Nat /\ n \in 1 .. n
    BY NoExchange, LenProperties
<1>2. \A i \in 1 .. n - 1 : i \in 1 .. n /\ s[i] \in Exchange
    BY <1>1, ExchangeType
<1>. HIDE DEF n
<1>3. /\ s2 \in Seq(Exchange)
      /\ Len(s2) = IF 1 <= n - 1 THEN n - 1 - 1 + 1 ELSE 0
      /\ \A i \in 1 .. n - 1 - 1 + 1 : s2[i] = s[1 + i - 1]
    BY <1>1, <1>2, SubSeqProperties
<1>4. Len(s2) = n - 1 /\ \A i \in 1 .. n - 1 : s2[i] = s[i]
    BY <1>1, <1>3
<1>5. n = 1 => s2 = <<>>
    BY <1>1, SubSeqEmpty
<1>. HIDE DEF s2
<1>6. ExchangesOK(s2, st2, ss)
    BY <1>1, <1>2, <1>4 DEF ExchangesOK, n
<1>. QED
    BY <1>2, <1>3, <1>4, <1>5, <1>6 DEF s2, n
\* Of a call that is sent again, with another header or none.
LEMMA AgainOK ==
    ASSUME NEW x \in FlowCall, NEW t \in Tokens \cup {NoToken}
    PROVE  /\ LET y == [x EXCEPT !.retried = TRUE] IN
              y \in FlowCall /\ y.kind = x.kind /\ y.body = x.body
           /\ LET y == [x EXCEPT !.header = t] IN
              y \in FlowCall /\ y.kind = x.kind /\ y.body = x.body
PROOF
    BY DEF FlowCall

\* Call f, x from now on, is sent after the exchanges s.
LEMMA SendStep ==
    ASSUME SessionIInv, NEW f \in Flows, NEW x \in FlowCall, NEW s \in Seq(Exchange),
           phase[f] # "none", x.kind = calling[f].kind, x.body = calling[f].body,
           calling' = [calling EXCEPT ![f] = x],
           chain' = [chain EXCEPT ![f] = s],
           phase' = [phase EXCEPT ![f] = "sent"],
           fresh' = [fresh EXCEPT ![f] = NoToken],
           UNCHANGED <<service, aged, leaving>>, trouble' \in BOOLEAN,
           store' \in {store, fresh[f]}, ExchangesOK(s, store', status),
           \A i \in 1 .. Len(s) :
               \/ s[i].token = store
               \/ \E j \in 1 .. Len(chain[f]) : s[i].token = chain[f][j].token
    PROVE  SessionShape' /\ KnownOK' /\ FlowsOK' /\ FreshOK'
PROOF
<1>1. /\ calling[f] \in FlowCall /\ fresh[f] \in Tokens \cup {NoToken}
      /\ FlowOK(calling[f], chain[f], phase[f], fresh[f], store, status)
      /\ leaving' \in BOOLEAN /\ NoToken \notin Tokens
    BY FlowKnown, NoTokenAssumption
<1>2. ServiceGoesOn /\ status' = status
    BY ServiceSame
<1>3. "sent" \in Phases /\ NoToken \in Tokens \cup {NoToken} /\ x # NoCall
    BY FlowCallType DEF Phases
<1>4. x.kind = "logout" => x.body # store'
    BY <1>1, <1>3, FlowCallType DEF FlowOK, SessionIInv, FreshOK, Avoids
<1>5. AnswerOK(x, s, "sent", NoToken, store', status')
    BY DEF AnswerOK
<1>6. FlowOK(x, s, "sent", NoToken, store', status')
    BY <1>1, <1>2, <1>3, <1>4, <1>5, FlowCallType DEF FlowOK
<1>7. /\ x \in FlowCall \cup {NoCall}
      /\ x.kind = "logout" =>
           calling[f] # NoCall /\ calling[f].kind = "logout" /\ x.body = calling[f].body
      /\ aged' = aged /\ leaving' \in BOOLEAN
    BY <1>1, FlowCallType
<1>8. \/ NoToken = NoToken
      \/ NoToken = fresh[f]
      \/ NoToken \in Tokens /\ status[NoToken] = "none"
    OBVIOUS
<1>. QED
    BY <1>2, <1>3, <1>6, <1>7, <1>8, FlowStep

LEMMA RenewOK ==
    ASSUME SessionIInv, NEW f \in Flows, Renew(f)
    PROVE  SessionIInv' /\ TokenKept /\ EndsExplained
PROOF
<1>. DEFINE e == [token |-> store, retried |-> FALSE]
<1>1. /\ phase[f] = "401" /\ store # NoToken
      /\ phase' = [phase EXCEPT ![f] = "sent"] /\ fresh' = fresh
      /\ UNCHANGED <<service, aged, leaving, store>>
    BY DEF Renew, Refused, Answer
<1>2. trouble' = (trouble \/ Elsewhere(f))
    BY DEF Renew
<1>3. trouble' \in BOOLEAN
    BY <1>2
<1>4. ~trouble' => ~trouble /\ ~Elsewhere(f)
    BY <1>2
<1>5. /\ calling[f] \in FlowCall /\ chain[f] \in Seq(Exchange) /\ fresh[f] = NoToken
      /\ ExchangesOK(chain[f], store, status) /\ phase[f] # "none"
      /\ store \in Tokens /\ status[store] # "none"
      /\ fresh' = [fresh EXCEPT ![f] = NoToken]
    BY <1>1, WaitingFacts, FlowKnown DEF FlowOK, SessionIInv, KnownOK
<1>6. calling \in [Flows -> FlowCall \cup {NoCall}] /\ chain \in [Flows -> Seq(Exchange)]
      /\ phase \in [Flows -> Phases]
    BY DEF SessionIInv, SessionShape
<1>7. \E x \in FlowCall, s \in Seq(Exchange) :
          /\ calling' = [calling EXCEPT ![f] = x] /\ chain' = [chain EXCEPT ![f] = s]
          /\ x.kind = calling[f].kind /\ x.body = calling[f].body
          /\ ExchangesOK(s, store, status)
          /\ \A i \in 1 .. Len(chain[f]) :
               i \in 1 .. Len(s) /\ s[i].token = chain[f][i].token
          /\ \A i \in 1 .. Len(s) : s[i].token = store \/ i \in 1 .. Len(chain[f])
          /\ chain[f] = <<>> => Len(s) = 1 /\ s[1].token = store
    <2>1. CASE /\ chain[f] = <<>>
               /\ calling' = [calling EXCEPT ![f].retried = TRUE]
               /\ chain' = [chain EXCEPT ![f] = <<e>>]
        <3>. DEFINE x == [calling[f] EXCEPT !.retried = TRUE]
        <3>1. calling' = [calling EXCEPT ![f] = x]
            BY <2>1
        <3>2. x \in FlowCall /\ x.kind = calling[f].kind /\ x.body = calling[f].body
            BY <1>5, AgainOK
        <3>3. /\ <<e>> \in Seq(Exchange) /\ Len(<<e>>) = 1 /\ <<e>>[1].token = store
              /\ ExchangesOK(<<e>>, store, status)
            BY <1>5, FirstOK
        <3>4. \A i \in 1 .. Len(chain[f]) : FALSE
            BY <2>1, NoExchange
        <3>. HIDE DEF x, e
        <3>5. \A i \in 1 .. Len(<<e>>) : <<e>>[i].token = store
            BY <3>3
        <3>. QED
            BY <2>1, <3>1, <3>2, <3>3, <3>4, <3>5
    <2>2. CASE /\ chain[f] # <<>>
               /\ Top(f).token # store
               /\ chain' = [chain EXCEPT ![f] = Append([@ EXCEPT ![Len(@)].retried = TRUE], e)]
               /\ UNCHANGED calling
        <3>. DEFINE s == Append([chain[f] EXCEPT ![Len(chain[f])].retried = TRUE], e)
        <3>1. chain' = [chain EXCEPT ![f] = s]
            BY <2>2
        <3>2. /\ chain[f] \in Seq(Exchange) /\ chain[f] # <<>> /\ store \in Tokens
              /\ ExchangesOK(chain[f], store, status) /\ status[store] # "none"
              /\ chain[f][Len(chain[f])].token # store
            BY <1>5, <2>2 DEF Top
        <3>3. /\ s \in Seq(Exchange) /\ Len(s) = Len(chain[f]) + 1 /\ s[Len(s)].token = store
              /\ \A i \in 1 .. Len(chain[f]) : s[i].token = chain[f][i].token
              /\ ExchangesOK(s, store, status)
            BY <3>2, AppendedOK
        <3>. HIDE DEF s
        <3>4. Len(chain[f]) \in Nat
            BY <1>5, LenProperties
        <3>5. /\ \A i \in 1 .. Len(chain[f]) : i \in 1 .. Len(s)
              /\ \A i \in 1 .. Len(s) : s[i].token = store \/ i \in 1 .. Len(chain[f])
            BY <3>3, <3>4
        <3>6. calling' = [calling EXCEPT ![f] = calling[f]]
            BY <2>2, FlowKnown
        <3>. QED
            BY <1>5, <2>2, <3>1, <3>3, <3>5, <3>6
    <2>3. CASE chain[f] # <<>> /\ UNCHANGED <<calling, chain>>
        <3>1. /\ calling' = [calling EXCEPT ![f] = calling[f]]
              /\ chain' = [chain EXCEPT ![f] = chain[f]]
            BY <2>3, FlowKnown
        <3>. QED
            BY <1>5, <2>3, <3>1
    <2>. QED
        BY <2>1, <2>2, <2>3 DEF Renew
<1>8. PICK x \in FlowCall, s \in Seq(Exchange) :
          /\ calling' = [calling EXCEPT ![f] = x] /\ chain' = [chain EXCEPT ![f] = s]
          /\ x.kind = calling[f].kind /\ x.body = calling[f].body
          /\ ExchangesOK(s, store, status)
          /\ \A i \in 1 .. Len(chain[f]) :
               i \in 1 .. Len(s) /\ s[i].token = chain[f][i].token
          /\ \A i \in 1 .. Len(s) : s[i].token = store \/ i \in 1 .. Len(chain[f])
          /\ chain[f] = <<>> => Len(s) = 1 /\ s[1].token = store
    BY <1>7
<1>9. SessionShape' /\ KnownOK' /\ FlowsOK' /\ FreshOK'
    <2>1. \A i \in 1 .. Len(s) :
              \/ s[i].token = store
              \/ \E j \in 1 .. Len(chain[f]) : s[i].token = chain[f][j].token
        BY <1>8
    <2>2. store' \in {store, fresh[f]} /\ ExchangesOK(s, store', status)
        BY <1>1, <1>8
    <2>. QED
        BY <1>1, <1>3, <1>5, <1>8, <2>1, <2>2, SendStep
<1>10. /\ chain'[f] = s /\ phase'[f] = "sent" /\ fresh'[f] = NoToken
       /\ \A g \in Flows \ {f} : chain'[g] = chain[g]
       /\ status' = status
    BY <1>1, <1>5, <1>6, <1>8 DEF service
<1>11. Calm'
    <2>. SUFFICES ASSUME ~trouble'
                  PROVE  Calm'
        BY DEF Calm
    <2>1. ~trouble /\ \A g \in Flows \ {f} : chain[g] = <<>>
        BY <1>4 DEF Elsewhere
    <2>2. chain[f] = <<>>
        BY <1>1, <2>1, CalmFacts DEF CalmExchange
    <2>3. status[store] = "live"
        BY <1>1, <2>1, <2>2 DEF SessionIInv, Calm
    <2>4. CalmExchange(s, "sent", NoToken, store, status)
        BY <1>8, <2>2, <2>3 DEF CalmExchange
    <2>5. s # <<>>
        <3>1. Len(s) = 1
            BY <1>8, <2>2
        <3>2. s = <<>> => Len(s) = 0
            BY NoExchange
        <3>. QED
            BY <3>1, <3>2
    <2>. QED
        BY <1>1, <1>10, <2>1, <2>4, <2>5, CalmAlone
<1>12. BeingReplaced(store) => BeingReplaced(store)'
    <2>. SUFFICES ASSUME NEW g \in Flows, NEW i \in DOMAIN chain[g], chain[g][i].token = store
                  PROVE  \E h \in Flows : \E j \in DOMAIN chain'[h] : chain'[h][j].token = store
        BY <1>1 DEF BeingReplaced
    <2>1. CASE g # f
        BY <1>10, <2>1
    <2>2. CASE g = f
        <3>1. i \in 1 .. Len(chain[f]) /\ DOMAIN s = 1 .. Len(s)
            BY <1>5, <1>8, <2>2, LenProperties
        <3>. QED
            BY <1>8, <1>10, <2>2, <3>1
    <2>. QED
        BY <2>1, <2>2
<1>13. Sustainable => Sustainable'
    BY <1>1, <1>10, <1>12 DEF Sustainable, BeingReplaced
<1>14. SignedIn => SignedIn'
    BY <1>1, <1>10, <1>12 DEF SignedIn, BeingReplaced
<1>15. ~SignedOut
    BY <1>1 DEF SignedOut
<1>. QED
    BY <1>9, <1>11, <1>13, <1>14, <1>15 DEF SessionIInv, TokenKept, EndsExplained

LEMMA RenewedOK ==
    ASSUME SessionIInv, NEW f \in Flows, Renewed(f)
    PROVE  SessionIInv' /\ TokenKept /\ EndsExplained
PROOF
<1>. DEFINE c == chain[f]
            s == SubSeq(c, 1, Len(c) - 1)
            y == [calling[f] EXCEPT !.header = fresh[f]]
            x == IF Len(c) = 1 THEN y ELSE calling[f]
<1>1. /\ c # <<>> /\ phase[f] = "ok" /\ store' = fresh[f]
      /\ chain' = [chain EXCEPT ![f] = s]
      /\ fresh' = [fresh EXCEPT ![f] = NoToken]
      /\ phase' = [phase EXCEPT ![f] = "sent"]
      /\ UNCHANGED <<service, aged, leaving>> /\ trouble' = trouble
    BY DEF Renewed, Exchanging, Stored, Answer
<1>2. /\ calling[f] \in FlowCall /\ c \in Seq(Exchange) /\ fresh[f] \in Tokens
      /\ ExchangesOK(c, store, status) /\ status[fresh[f]] \in {"live", "expired"}
      /\ fresh[f] # NoToken /\ trouble' \in BOOLEAN
    BY <1>1, FlowKnown DEF FlowOK, AnswerOK
<1>3. calling' = [calling EXCEPT ![f] = x]
    <2>1. CASE Len(c) = 1
        BY <1>1, <2>1 DEF Renewed
    <2>2. CASE Len(c) # 1
        BY <1>1, <2>2, FlowKnown DEF Renewed
    <2>. QED
        BY <2>1, <2>2
<1>4. x \in FlowCall /\ x.kind = calling[f].kind /\ x.body = calling[f].body
    BY <1>2, AgainOK
<1>. HIDE DEF x
<1>5. \A i \in 1 .. Len(c) : c[i].token # fresh[f]
    BY <1>2 DEF SessionIInv, FreshOK, Avoids
<1>6. /\ s \in Seq(Exchange)
      /\ \A i \in 1 .. Len(s) : i \in 1 .. Len(c) /\ s[i] = c[i]
      /\ Len(c) = 1 => s = <<>>
      /\ ExchangesOK(s, fresh[f], status)
    BY <1>1, <1>2, <1>5, PoppedOK
<1>. HIDE DEF s
<1>7. SessionShape' /\ KnownOK' /\ FlowsOK' /\ FreshOK'
    <2>1. \A i \in 1 .. Len(s) :
              \/ s[i].token = store
              \/ \E j \in 1 .. Len(chain[f]) : s[i].token = chain[f][j].token
        BY <1>6
    <2>2. store' \in {store, fresh[f]} /\ ExchangesOK(s, store', status) /\ phase[f] # "none"
        BY <1>1, <1>6
    <2>. QED
        BY <1>1, <1>2, <1>3, <1>4, <1>6, <2>1, <2>2, SendStep
<1>8. /\ chain'[f] = s /\ \A g \in Flows \ {f} : chain'[g] = chain[g]
      /\ status' = status
    BY <1>1 DEF service, SessionIInv, SessionShape
<1>9. ASSUME ~trouble
      PROVE  /\ s = <<>> /\ status[fresh[f]] = "live"
             /\ \A g \in Flows \ {f} : chain[g] = <<>>
    BY <1>1, <1>2, <1>6, <1>9, CalmFacts DEF CalmExchange
<1>10. Calm'
    <2>1. ~trouble => CalmExchange(s, phase'[f], fresh'[f], store', status')
        BY <1>9 DEF CalmExchange
    <2>. QED
        BY <1>1, <1>8, <1>9, <2>1, CalmAlone
<1>11. Sustainable' /\ (~trouble' => SignedIn')
    BY <1>1, <1>2, <1>8, <1>9 DEF Sustainable, SignedIn
<1>12. ~SignedOut
    BY <1>1 DEF SignedOut
<1>. QED
    BY <1>7, <1>10, <1>11, <1>12 DEF SessionIInv, TokenKept, EndsExplained

LEMMA SignOutOK ==
    ASSUME SessionIInv, NEW f \in Flows, SignOut(f)
    PROVE  SessionIInv' /\ TokenKept /\ EndsExplained
PROOF
<1>1. /\ CannotRenew(f) /\ leaving' = TRUE /\ UNCHANGED <<service, aged>>
      /\ trouble' = trouble /\ store' = NoToken
      /\ \/ store # NoToken /\ Start(f, "logout", store, NoToken)
         \/ store = NoToken /\ Over(f)
    BY DEF SignOut, SendLogout, LogoutHeader
<1>2. trouble' \in BOOLEAN /\ leaving' \in BOOLEAN /\ store \in Tokens \cup {NoToken}
    BY <1>1, FlowKnown
<1>3. SessionShape' /\ KnownOK' /\ FlowsOK' /\ FreshOK'
    BY <1>1, <1>2, OverStep, StartStep
<1>4. chain' = [chain EXCEPT ![f] = <<>>] /\ status' = status
    BY <1>1 DEF Over, Start, service
<1>5. /\ chain'[f] = <<>>
      /\ \A g \in Flows \ {f} :
           chain'[g] = chain[g] /\ phase'[g] = phase[g] /\ fresh'[g] = fresh[g]
    BY <1>1, <1>4 DEF Over, Start, SessionIInv, SessionShape
<1>6. Calm'
    <2>1. CASE chain[f] = <<>>
        <3>1. chain' = chain
            BY <1>4, <2>1, FlowKnown
        <3>. QED
            BY <1>1, <1>4, <1>5, <2>1, <3>1, CalmKept
    <2>2. CASE chain[f] # <<>>
        <3>1. CalmExchange(chain'[f], phase'[f], fresh'[f], store', status')
            BY <1>5 DEF CalmExchange
        <3>. QED
            BY <1>1, <1>5, <2>2, <3>1, CalmFacts, CalmAlone
    <2>. QED
        BY <2>1, <2>2
<1>7. Sustainable'
    BY <1>1 DEF Sustainable
<1>8. store # NoToken => trouble
    <2>. SUFFICES ASSUME store # NoToken, ~trouble
                  PROVE  FALSE
        OBVIOUS
    <2>1. chain[f] # <<>> /\ phase[f] \in {"401", "error"}
        BY <1>1 DEF CannotRenew, Exchanging
    <2>. QED
        BY <2>1, CalmFacts DEF CalmExchange
<1>9. SignedIn => trouble'
    BY <1>1, <1>8 DEF SignedIn
<1>10. SignedOut => SignedOut'
    BY <1>1, <1>5 DEF SignedOut
<1>. QED
    BY <1>3, <1>6, <1>7, <1>9, <1>10 DEF SessionIInv, TokenKept, EndsExplained

LEMMA UnloadOK ==
    ASSUME SessionIInv, Unload
    PROVE  SessionIInv' /\ TokenKept /\ EndsExplained
PROOF
<1>1. /\ leaving /\ leaving' = FALSE
      /\ calling' = [f \in Flows |-> NoCall]
      /\ chain' = [f \in Flows |-> <<>>]
      /\ phase' = [f \in Flows |-> "none"]
      /\ fresh' = [f \in Flows |-> NoToken]
      /\ trouble' = TRUE
      /\ UNCHANGED <<status, owner, parent, aged, store>>
    BY DEF Unload, service
<1>2. SessionShape' /\ KnownOK'
    BY <1>1, NoExchange DEF SessionIInv, SessionShape, ServiceShape, KnownOK, Phases
<1>3. FlowsOK'
    BY <1>1, IdleOK DEF FlowsOK
<1>4. FreshOK' /\ Calm'
    BY <1>1 DEF FreshOK, Calm
<1>5. SignedOut => SignedOut'
    BY <1>1 DEF SignedOut
<1>. QED
    BY <1>1, <1>2, <1>3, <1>4, <1>5 DEF SessionIInv, TokenKept, EndsExplained
(***************************************************************************)
(* The theorems.                                                           *)
(***************************************************************************)

LEMMA SessionInitOK ==
    SessionInit => SessionIInv
PROOF
<1>. SUFFICES ASSUME SessionInit
              PROVE  SessionIInv
    OBVIOUS
<1>1. /\ status = [t \in Tokens |-> "none"]
      /\ owner = [t \in Tokens |-> NoToken]
      /\ parent = [t \in Tokens |-> NoToken]
      /\ aged = {} /\ store = NoToken /\ leaving = FALSE /\ trouble = FALSE
      /\ calling = [f \in Flows |-> NoCall]
      /\ chain = [f \in Flows |-> <<>>]
      /\ phase = [f \in Flows |-> "none"]
      /\ fresh = [f \in Flows |-> NoToken]
    BY DEF SessionInit, Service!Init
<1>2. SessionShape /\ KnownOK
    BY <1>1, NoExchange DEF SessionShape, ServiceShape, KnownOK, Phases
<1>3. FlowsOK
    BY <1>1, IdleOK DEF FlowsOK
<1>4. FreshOK /\ Calm
    BY <1>1 DEF FreshOK, Calm, CalmExchange
<1>. QED
    BY <1>2, <1>3, <1>4 DEF SessionIInv

LEMMA SessionNextOK ==
    ASSUME SessionIInv, SessionNext
    PROVE  SessionIInv' /\ TokenKept /\ EndsExplained
PROOF
<1>1. CASE \E f \in Flows : UserCalls(f)
    BY <1>1, RequestOK, SubmitLoginOK, PressLogoutOK DEF UserCalls
<1>2. CASE \E f \in Flows : BackendStep(f)
    BY <1>2, ServeRequestOK, ServeLogoutOK, ServeLoginOK, FindTokenOK, RevokeFoundOK,
       IssueNextOK DEF BackendStep
<1>3. CASE \E f \in Flows : CallFails(f)
    BY <1>3, CallFailsOK
<1>4. CASE \E f \in Flows : PageStep(f)
    BY <1>4, CallSucceedsOK, RejectOK, RenewOK, RenewedOK, SignOutOK DEF PageStep
<1>5. CASE \E t \in Tokens : Age(t) \/ Expire(t)
    BY <1>5, AgeOK, ExpireOK
<1>6. CASE Unload
    BY <1>6, UnloadOK
<1>. QED
    BY <1>1, <1>2, <1>3, <1>4, <1>5, <1>6 DEF SessionNext

LEMMA SessionStutterOK ==
    ASSUME SessionIInv, UNCHANGED sessionVars
    PROVE  SessionIInv' /\ TokenKept /\ EndsExplained
PROOF
<1>1. /\ UNCHANGED <<status, owner, parent, aged, store, leaving, calling, chain, phase,
                      fresh, trouble>>
    BY DEF sessionVars
<1>2. SessionIInv'
    BY <1>1 DEF SessionIInv, SessionShape, ServiceShape, KnownOK, FlowsOK, FreshOK, Calm
<1>3. TokenKept /\ EndsExplained
    BY <1>1, Quiet
<1>. QED
    BY <1>2, <1>3

LEMMA SessionInductive ==
    SessionSpec => []SessionIInv
PROOF
<1>1. SessionIInv /\ [SessionNext]_sessionVars => SessionIInv'
    BY SessionNextOK, SessionStutterOK
<1>. QED
    BY <1>1, SessionInitOK, PTL DEF SessionSpec

\* Type correctness, which bounds the exchanges a call waits for: they are of
\* different tokens.
THEOREM SessionTypeCorrect ==
    SessionSpec => []SessionTypeOK
PROOF
<1>1. SessionIInv => SessionTypeOK
    <2>. SUFFICES ASSUME SessionIInv
                  PROVE  SessionTypeOK
        OBVIOUS
    <2>1. /\ Service!vars \in [Tokens -> {"none", "live", "expired", "spent"}]
                              \X [Tokens -> UserIds \cup {NoToken}]
                              \X [Tokens -> Tokens \cup {NoToken}]
          /\ aged \subseteq Tokens
          /\ store \in Tokens \cup {NoToken}
          /\ \A t \in aged \cup ({store} \ {NoToken}) : status[t] # "none"
        BY DEF SessionIInv, SessionShape, ServiceShape, KnownOK, Service!vars
    <2>2. ASSUME NEW f \in Flows
          PROVE  /\ calling[f] \in FlowCall \cup {NoCall}
                 /\ chain[f] \in Seq(Exchange)
                 /\ Len(chain[f]) <= MaxTokens
                 /\ phase[f] \in Phases
                 /\ calling[f] = NoCall => chain[f] = <<>> /\ phase[f] = "none"
                 /\ fresh[f] # NoToken => phase[f] = "ok" /\ status[fresh[f]] # "none"
        <3>1. FlowOK(calling[f], chain[f], phase[f], fresh[f], store, status)
            BY FlowKnown
        <3>2. Len(chain[f]) <= MaxTokens
            BY <3>1, FlowKnown, ExchangesBounded DEF FlowOK
        <3>. QED
            BY <3>1, <3>2, FlowKnown DEF FlowOK, AnswerOK
    <2>. QED
        BY <2>1, <2>2 DEF SessionTypeOK
<1>. QED
    BY <1>1, SessionInductive, PTL

\* Whatever exchanges of the one refresh token race, and whatever fails, the
\* page is left with a spent token only when it is unloaded.
THEOREM TokenIsKept ==
    SessionSpec => KeepsUsableToken
PROOF
<1>1. SessionIInv /\ [SessionNext]_sessionVars
          => [Sustainable /\ ~Sustainable' => leaving /\ ~leaving']_sessionVars
    BY SessionNextOK DEF TokenKept
<1>. QED
    BY <1>1, SessionInductive, PTL DEF SessionSpec, KeepsUsableToken

\* A session ends for a reason a user would name, and begins by a login.
THEOREM SessionsAreExplained ==
    SessionSpec => SessionsExplained
PROOF
<1>1. SessionIInv /\ [SessionNext]_sessionVars
          => [/\ SignedIn /\ ~SignedIn' => trouble' \/ UserLogsOut
              /\ SignedOut /\ ~SignedOut' => LoginSucceeds]_sessionVars
    BY SessionNextOK DEF EndsExplained
<1>. QED
    BY <1>1, SessionInductive, PTL DEF SessionSpec, SessionsExplained
(***************************************************************************)
(* The page and the abstract authentication service.                       *)
(***************************************************************************)

LEMMA ServiceStepOK ==
    ASSUME SessionIInv, SessionNext
    PROVE  Service!Next \/ UNCHANGED <<status, owner, parent>>
PROOF
<1>1. ASSUME NEW f \in Flows, UserCalls(f) \/ CallFails(f) \/ PageStep(f)
      PROVE  UNCHANGED <<status, owner, parent>>
    <2>1. CASE UserCalls(f)
        BY <2>1 DEF UserCalls, Request, SubmitLogin, PressLogout, service
    <2>2. CASE CallFails(f)
        BY <2>2 DEF CallFails, service
    <2>3. CASE PageStep(f)
        BY <2>3 DEF PageStep, CallSucceeds, Reject, Renew, Renewed, SignOut, service
    <2>. QED
        BY <1>1, <2>1, <2>2, <2>3
<1>2. ASSUME NEW f \in Flows, ServeLogout(f)
      PROVE  Service!Next \/ UNCHANGED <<status, owner, parent>>
    <2>1. calling[f].body \in Tokens
        BY <1>2, FlowKnown DEF ServeLogout, Serving, FlowOK
    <2>. QED
        BY <1>2, <2>1 DEF ServeLogout, Service!Next, service
<1>3. ASSUME NEW f \in Flows, NEW u, NEW q, Issue(f, u, q)
      PROVE  Service!Next \/ UNCHANGED <<status, owner, parent>>
    BY <1>3 DEF Issue, Service!Next, service
<1>4. ASSUME NEW f \in Flows, RevokeFound(f)
      PROVE  Service!Next \/ UNCHANGED <<status, owner, parent>>
    <2>1. Top(f).token \in Tokens
        BY <1>4, TopFacts DEF RevokeFound, Exchanging
    <2>. QED
        BY <1>4, <2>1 DEF RevokeFound, Service!Next, service
<1>5. ASSUME NEW f \in Flows, BackendStep(f)
      PROVE  Service!Next \/ UNCHANGED <<status, owner, parent>>
    BY <1>2, <1>3, <1>4, <1>5
       DEF BackendStep, ServeRequest, ServeLogin, FindToken, IssueNext, service
<1>6. ASSUME NEW t \in Tokens, Age(t) \/ Expire(t)
      PROVE  Service!Next \/ UNCHANGED <<status, owner, parent>>
    BY <1>6 DEF Age, Expire, Service!Next, service
<1>7. CASE Unload
    BY <1>7 DEF Unload, service
<1>. QED
    BY <1>1, <1>5, <1>6, <1>7 DEF SessionNext

\* Every step of the page and the backend is one that the authentication
\* service promises, or none of its: whatever calls race, they need nothing of
\* it beyond TokenLifecycle, which Auth is shown to implement.
THEOREM UsesTheLifecycle ==
    SessionSpec => Service!Spec
PROOF
<1>1. SessionInit => Service!Init
    BY DEF SessionInit
<1>2. SessionIInv /\ [SessionNext]_sessionVars => [Service!Next]_Service!vars
    BY ServiceStepOK DEF sessionVars, Service!vars
<1>. QED
    BY <1>1, <1>2, SessionInductive, PTL DEF SessionSpec, Service!Spec

\* A token that was issued is of a user; spent once, it stays spent.
Owned == \A t \in Tokens : status[t] # "none" => owner[t] \in UserIds

\* The token whose exchange has come to the issue of the next one is spent.
RevokedFirst ==
    \A f \in Flows : Exchanging(f, "revoked") => status[Top(f).token] = "spent"

LEMMA OwnedOK ==
    ASSUME SessionIInv, Owned, Service!Next
    PROVE  /\ Owned'
           /\ \A t \in Tokens : status[t] = "spent" => status'[t] = "spent"
PROOF
<1>1. status \in [Tokens -> {"none", "live", "expired", "spent"}]
      /\ owner \in [Tokens -> UserIds \cup {NoToken}]
    BY DEF SessionIInv, SessionShape, ServiceShape
<1>2. ASSUME NEW t \in Tokens, Service!Issue(t)
      PROVE  /\ Owned'
             /\ \A s \in Tokens : status[s] = "spent" => status'[s] = "spent"
    <2>1. PICK u \in UserIds :
              /\ status[t] = "none"
              /\ status' = [status EXCEPT ![t] = "live"]
              /\ owner' = [owner EXCEPT ![t] = u]
        BY <1>2 DEF Service!Issue
    <2>. QED
        BY <1>1, <2>1 DEF Owned
<1>3. ASSUME NEW t \in Tokens, Service!Expire(t) \/ Service!Spend(t)
      PROVE  /\ Owned'
             /\ \A s \in Tokens : status[s] = "spent" => status'[s] = "spent"
    <2>1. /\ status[t] \in {"live", "expired"} /\ owner' = owner
          /\ \/ status[t] = "live" /\ status' = [status EXCEPT ![t] = "expired"]
             \/ status' = [status EXCEPT ![t] = "spent"]
        BY <1>3 DEF Service!Expire, Service!Spend
    <2>. QED
        BY <1>1, <2>1 DEF Owned
<1>. QED
    BY <1>2, <1>3 DEF Service!Next

\* A call comes to the point "revoked" by the step of that name only.
LEMMA RevokedBefore ==
    ASSUME SessionIInv, SessionNext, NEW f \in Flows, phase'[f] = "revoked"
    PROVE  RevokeFound(f) \/ (phase[f] = "revoked" /\ chain'[f] = chain[f])
PROOF
<1>. DEFINE Moves(g, p) ==
              /\ phase' = [phase EXCEPT ![g] = p]
              /\ \E s : chain' = [chain EXCEPT ![g] = s]
<1>1. phase \in [Flows -> Phases] /\ chain \in [Flows -> Seq(Exchange)]
    BY DEF SessionIInv, SessionShape
<1>2. ASSUME NEW g \in Flows, NEW p, p # "revoked" \/ g # f, Moves(g, p)
      PROVE  phase[f] = "revoked" /\ chain'[f] = chain[f]
    BY <1>1, <1>2
<1>3. \A g \in Flows : UNCHANGED chain => \E s : chain' = [chain EXCEPT ![g] = s]
    BY FlowKnown
<1>4. ASSUME NEW g \in Flows, UserCalls(g)
      PROVE  Moves(g, "sent")
    BY <1>4 DEF UserCalls, Request, SubmitLogin, PressLogout, SendLogout, Start
<1>5. ASSUME NEW g \in Flows, BackendStep(g)
      PROVE  \/ \E p \in {"ok", "401", "found", "error"} : Moves(g, p)
             \/ RevokeFound(g) /\ Moves(g, "revoked")
    <2>1. CASE ServeRequest(g)
        BY <1>3, <2>1 DEF ServeRequest, Answer, browser
    <2>2. CASE ServeLogout(g)
        BY <1>3, <2>2 DEF ServeLogout, Answer, browser
    <2>3. CASE ServeLogin(g)
        BY <1>3, <2>3 DEF ServeLogin, Issue, Answer
    <2>4. CASE FindToken(g)
        BY <1>3, <2>4 DEF FindToken, Answer, browser
    <2>5. CASE RevokeFound(g)
        BY <1>3, <2>5 DEF RevokeFound, Answer, browser
    <2>6. CASE IssueNext(g)
        BY <1>3, <2>6 DEF IssueNext, Issue, Answer
    <2>. QED
        BY <1>5, <2>1, <2>2, <2>3, <2>4, <2>5, <2>6 DEF BackendStep
<1>6. ASSUME NEW g \in Flows, CallFails(g)
      PROVE  Moves(g, "error")
    BY <1>3, <1>6 DEF CallFails, Answer
<1>7. ASSUME NEW g \in Flows, PageStep(g)
      PROVE  Moves(g, "sent") \/ Moves(g, "none")
    <2>1. CASE CallSucceeds(g) \/ Reject(g)
        BY <2>1 DEF CallSucceeds, Reject, Over
    <2>2. CASE Renew(g)
        BY <1>3, <2>2 DEF Renew, Answer
    <2>3. CASE Renewed(g)
        BY <2>3 DEF Renewed, Answer
    <2>4. CASE SignOut(g)
        BY <2>4 DEF SignOut, SendLogout, Start, Over
    <2>. QED
        BY <1>7, <2>1, <2>2, <2>3, <2>4 DEF PageStep
<1>8. ASSUME NEW t \in Tokens, Age(t) \/ Expire(t)
      PROVE  phase[f] = "revoked" /\ chain'[f] = chain[f]
    BY <1>8 DEF Age, Expire, browser
<1>9. ~Unload
    BY DEF Unload
<1>. HIDE DEF Moves
<1>. QED
    BY <1>2, <1>4, <1>5, <1>6, <1>7, <1>8, <1>9 DEF SessionNext

\* When it issues the token that replaces another one, the backend has spent
\* the other one, and knows whose it was: what IssueNext asks of Service!Issue
\* withholds no step of the code, which does not ask.
THEOREM NothingIsWithheld ==
    SessionSpec => [](\A f \in Flows : Exchanging(f, "revoked") =>
                         status[Top(f).token] = "spent" /\ owner[Top(f).token] \in UserIds)
PROOF
<1>1. SessionInit => Owned /\ RevokedFirst
    BY DEF SessionInit, Service!Init, Owned, RevokedFirst, Exchanging
<1>2. ASSUME SessionIInv, Owned, RevokedFirst, SessionNext
      PROVE  Owned' /\ RevokedFirst'
    <2>1. Owned' /\ \A t \in Tokens : status[t] = "spent" => status'[t] = "spent"
        BY <1>2, ServiceStepOK, OwnedOK DEF Owned
    <2>2. ASSUME NEW f \in Flows, chain'[f] # <<>>, phase'[f] = "revoked"
          PROVE  status'[chain'[f][Len(chain'[f])].token] = "spent"
        <3>1. CASE phase[f] = "revoked" /\ chain'[f] = chain[f]
            BY <1>2, <2>1, <2>2, <3>1, TopFacts DEF RevokedFirst, Exchanging, Top
        <3>2. CASE RevokeFound(f)
            <4>1. chain' = chain /\ Top(f).token \in Tokens
                BY <1>2, <3>2, TopFacts DEF RevokeFound, Exchanging, browser
            <4>2. status'[Top(f).token] = "spent"
                BY <1>2, <3>2, <4>1
                   DEF RevokeFound, Service!Spend, service, SessionIInv, SessionShape,
                       ServiceShape
            <4>. QED
                BY <4>1, <4>2 DEF Top
        <3>. QED
            BY <1>2, <2>2, <3>1, <3>2, RevokedBefore
    <2>. QED
        BY <2>1, <2>2 DEF RevokedFirst, Exchanging, Top
<1>3. Owned /\ RevokedFirst /\ UNCHANGED sessionVars => Owned' /\ RevokedFirst'
    BY DEF sessionVars, Owned, RevokedFirst, Exchanging, Top
<1>4. SessionIInv /\ Owned /\ RevokedFirst =>
          \A f \in Flows : Exchanging(f, "revoked") =>
              status[Top(f).token] = "spent" /\ owner[Top(f).token] \in UserIds
    BY TopFacts DEF Owned, RevokedFirst, Exchanging
<1>5. SessionIInv /\ Owned /\ RevokedFirst /\ [SessionNext]_sessionVars
          => Owned' /\ RevokedFirst'
    BY <1>2, <1>3
<1>. QED
    BY <1>1, <1>4, <1>5, SessionInductive, PTL DEF SessionSpec
=============================================================================
