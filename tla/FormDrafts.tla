----------------------------- MODULE FormDrafts -----------------------------
(***************************************************************************)
(* The dialog in which the user creates or edits a project                 *)
(* (frontend/src/pages/ProjectsPage.tsx) or a task (TaskBoardPage.tsx),    *)
(* and the draft of a new one that hooks/useFormDraft.ts keeps in          *)
(* IndexedDB (utils/form-draft.ts), while saves of the draft, its loading, *)
(* its deletion and the answers of the backend overtake what the user does.*)
(*                                                                         *)
(* The fields of the form are one value: a text that the user types, the   *)
(* values of an item as they are stored, Empty, which has no name (no      *)
(* title), or Blank, whose name is nothing but spaces.  hasDraftContent    *)
(* trims the name and refuses both, whatever else they have; the schema    *)
(* of the form asks for one character and refuses Empty only.              *)
(* IndexedDB runs the transactions on a store in the order in which they   *)
(* were created: queue.  What runs between two awaits is one step.  reset  *)
(* of react-hook-form tells the subscription of watch, and ends            *)
(* isSubmitting; a form that is submitting is not submitted.               *)
(***************************************************************************)
EXTENDS Naturals, Sequences

CONSTANTS
    Texts,    \* values with a name that the user may type
    Items,    \* items that may be edited; each stands for its values, too
    Saves,    \* saves under way at one time (bound)
    MaxQueue, \* transactions under way at one time (bound)
    Empty,    \* a form without a name
    Blank,    \* a form with a name of spaces
    None      \* no draft, no item, no save

\* What the form of a new item may hold.
Typed == Texts \cup {Empty, Blank}

Values == Typed \cup Items

\* hasDraftContent.
HasContent(v) == v \notin {Empty, Blank, None}

\* z.string().min(1).
Valid(v) == v # Empty

\* source: where the values of the form came from.  here: the page that sent
\* or began it is still there.
Sources == {"item", "draft", "user", "crossed"}

Save == [text: Values, item: Items \cup {None}, source: Sources, here: BOOLEAN,
         state: {"sent", "clearing"}]

Transaction ==
         [op: {"put"}, text: Texts]
    \cup [op: {"get"}, here: BOOLEAN]
    \cup [op: {"delete"}, save: Saves]

ASSUME NoneAssumption ==
    /\ Empty \notin Texts \cup Items \cup {Blank}
    /\ Blank \notin Texts \cup Items
    /\ None \notin Texts \cup Items \cup Save \cup {Empty, Blank}
    /\ Texts \cap Items = {}

ASSUME BoundAssumption == MaxQueue \in Nat

VARIABLES
    stored,   \* the draft in IndexedDB, or None
    queue,    \* transactions under way, first in first out
    form,     \* the values of the fields
    latest,   \* latestValuesRef
    open,     \* dialogOpen
    editing,  \* editProject, editTask
    busy,     \* isSubmitting
    save,     \* saves under way, or None
    source,   \* history: where form came from
    owed,     \* history: the text of a new item that must not get lost
    spent     \* history: texts that were saved as new items

dialog == <<form, latest, open, editing, busy, source>>
vars   == <<stored, queue, form, latest, open, editing, busy, save, source, owed, spent>>

Init ==
    /\ stored = None
    /\ queue = <<>>
    /\ form = Empty
    /\ latest = Empty
    /\ open = FALSE
    /\ editing = None
    /\ busy = FALSE
    /\ save = [s \in Saves |-> None]
    /\ source = "draft"
    /\ owed = None
    /\ spent = {}

-----------------------------------------------------------------------------
(* Transactions and fields.                                                *)

Put(v) == [op |-> "put", text |-> v]

\* db.transaction; the values are copied when it is created.
Begin(transaction) ==
    /\ Len(queue) < MaxQueue
    /\ queue' = Append(queue, transaction)

\* A mutant: a form without a name is saved, too.
SaveDraft_Always(v) == Begin(Put(v))

\* saveDraft, if there is something to save.
SaveDraft(v) == IF HasContent(v) THEN Begin(Put(v)) ELSE UNCHANGED queue

Fill(v, from) ==
    /\ form' = v
    /\ latest' = v
    /\ source' = from

-----------------------------------------------------------------------------
(* What the user does.  The dialog is modal.                               *)

\* New Project, Add Task: the dialog opens when the draft is loaded.
OpenCreate ==
    /\ ~open
    /\ editing' = None
    /\ Begin([op |-> "get", here |-> TRUE])
    /\ UNCHANGED <<stored, form, latest, open, busy, save, source, owed, spent>>

\* A mutant: the form is not reset for the item.
OpenEdit_FormKept(i) ==
    /\ ~open
    /\ editing' = i
    /\ open' = TRUE
    /\ source' = "item"
    /\ UNCHANGED <<stored, queue, form, latest, busy, save, owed, spent>>

OpenEdit(i) ==
    /\ ~open
    /\ editing' = i
    /\ Fill(i, "item")
    /\ open' = TRUE
    /\ busy' = FALSE
    /\ UNCHANGED <<stored, queue, save, owed, spent>>

\* A keystroke: in the dialog of a new item it is saved.  From now on this
\* text is the one to keep.
Type(v) ==
    /\ open
    /\ v # form
    /\ Fill(v, "user")
    /\ \/ /\ editing = None
          /\ SaveDraft(v)
          /\ owed' = IF HasContent(v) THEN v ELSE None
          /\ spent' = spent \ {v}
       \/ /\ editing # None
          /\ UNCHANGED <<queue, owed, spent>>
    /\ UNCHANGED <<stored, open, editing, busy, save>>

\* persistFormDraft.
ToPersist == IF HasContent(form) THEN form ELSE latest

\* Cancel, Escape, a click beside the dialog: nothing keeps it open while a
\* save is under way.  A text that was saved meanwhile is a draft again.
Cancel ==
    /\ open
    /\ open' = FALSE
    /\ \/ /\ editing = None
          /\ SaveDraft(ToPersist)
          /\ spent' = spent \ {ToPersist}
       \/ /\ editing # None
          /\ UNCHANGED <<queue, spent>>
    /\ UNCHANGED <<stored, form, latest, editing, busy, save, source, owed>>

\* A mutant: the draft is cleared before the answer.
Submit_ClearsFirst(s) ==
    /\ open
    /\ ~busy
    /\ Valid(form)
    /\ save[s] = None
    /\ save' = [save EXCEPT ![s] = [text |-> form, item |-> editing, source |-> source,
                                    here |-> TRUE, state |-> "sent"]]
    /\ stored' = None
    /\ busy' = TRUE
    /\ UNCHANGED <<queue, form, latest, open, editing, source, owed, spent>>

\* onSubmit up to the answer.
Submit(s) ==
    /\ open
    /\ ~busy
    /\ Valid(form)
    /\ save[s] = None
    /\ save' = [save EXCEPT ![s] = [text |-> form, item |-> editing, source |-> source,
                                    here |-> TRUE, state |-> "sent"]]
    /\ busy' = TRUE
    /\ UNCHANGED <<stored, queue, form, latest, open, editing, source, owed, spent>>

-----------------------------------------------------------------------------
(* The answers of the backend.                                             *)

Here(s) == save[s].here

\* A mutant: only the ref is cleared, not what is stored.
Clear_RefOnly(s) == UNCHANGED queue

\* clearDraft of clearFormDraft.
Clear(s) == Begin([op |-> "delete", save |-> s])

\* The item is saved.  clearFormDraft clears the draft of the new item, even
\* if the answer is to an edit, or the user has typed another text since: a
\* text that was not saved is lost.
Succeed(s) ==
    /\ save[s] # None
    /\ save[s].state = "sent"
    /\ save' = [save EXCEPT ![s].state = "clearing"]
    /\ latest' = IF Here(s) THEN Empty ELSE latest
    /\ Clear(s)
    /\ owed' = None
    /\ spent' = IF save[s].item = None THEN spent \cup ({save[s].text} \cap Texts) ELSE spent
    /\ UNCHANGED <<stored, form, open, editing, busy, source>>

\* The save fails, or was refused: the dialog stays, with an error.
Refuse(s) ==
    /\ save[s] # None
    /\ save[s].state = "sent"
    /\ save' = [save EXCEPT ![s] = None]
    /\ busy' = IF Here(s) THEN FALSE ELSE busy
    /\ UNCHANGED <<stored, queue, form, latest, open, editing, source, owed, spent>>

-----------------------------------------------------------------------------
(* IndexedDB.  Each transaction may fail, which is logged and no more.     *)

First(op) == queue # <<>> /\ Head(queue).op = op

RunPut ==
    /\ First("put")
    /\ queue' = Tail(queue)
    /\ \/ /\ stored' = Head(queue).text
          /\ UNCHANGED owed
       \/ /\ owed' = IF owed = Head(queue).text THEN None ELSE owed
          /\ UNCHANGED stored
    /\ UNCHANGED <<dialog, save, spent>>

\* restoreFormDraft of OpenCreate, and the rest of it.  The item that is edited
\* is not looked at again: it may have been chosen since.  If the dialog of a
\* new item is open, by another click, the subscription saves what was loaded.
\* A text that was typed since the click is lost: the form shows the old one.
RunGet ==
    /\ First("get")
    /\ Head(queue).here
    /\ \E found \in {stored, None} :
         LET v == IF HasContent(found) THEN found ELSE Empty IN
         /\ Fill(v, IF editing = None THEN "draft" ELSE "crossed")
         /\ \/ /\ open /\ editing = None /\ HasContent(v)
               /\ queue' = Append(Tail(queue), Put(v))
               /\ spent' = spent \ {v}
            \/ /\ ~(open /\ editing = None /\ HasContent(v))
               /\ queue' = Tail(queue)
               /\ UNCHANGED spent
         /\ owed' = IF v \in {owed, Empty} THEN owed ELSE None
    /\ open' = TRUE
    /\ busy' = FALSE
    /\ UNCHANGED <<stored, editing, save>>

RunStaleGet ==
    /\ First("get")
    /\ ~Head(queue).here
    /\ queue' = Tail(queue)
    /\ UNCHANGED <<dialog, stored, save, owed, spent>>

\* The rest of onSubmit closes whatever dialog is open now.
RunDelete ==
    LET s == Head(queue).save IN
    /\ First("delete")
    /\ queue' = Tail(queue)
    /\ \/ /\ stored' = None
          /\ UNCHANGED spent
       \/ /\ spent' = spent \ {stored}
          /\ UNCHANGED stored
    /\ \/ /\ Here(s)
          /\ open' = FALSE
          /\ busy' = FALSE
       \/ /\ ~Here(s)
          /\ UNCHANGED <<open, busy>>
    /\ save' = [save EXCEPT ![s] = None]
    /\ UNCHANGED <<form, latest, editing, source, owed>>

-----------------------------------------------------------------------------
(* The page is left.                                                       *)

Mounted ==
    /\ form' = Empty
    /\ latest' = Empty
    /\ open' = FALSE
    /\ editing' = None
    /\ busy' = FALSE
    /\ source' = "draft"

Deserted(x) == IF x.op = "get" THEN [x EXCEPT !.here = FALSE] ELSE x

Reads(x) == x.op = "get"

\* For another page of the application and back: its transactions and saves
\* go on, but the continuations find no form and no dialog.
Leave ==
    /\ Mounted
    /\ queue' = [k \in DOMAIN queue |-> Deserted(queue[k])]
    /\ save' = [s \in Saves |-> IF save[s] = None THEN None
                                ELSE [save[s] EXCEPT !.here = FALSE]]
    /\ UNCHANGED <<stored, owed, spent>>

\* The browser loads the page again, or is closed: transactions that were not
\* run are cut off.
Reload ==
    /\ Mounted
    /\ queue' = <<>>
    /\ save' = [s \in Saves |-> None]
    /\ \/ /\ \A k \in DOMAIN queue : Reads(queue[k])
          /\ UNCHANGED <<owed, spent>>
       \/ /\ \E k \in DOMAIN queue : ~Reads(queue[k])
          /\ owed' = None
          /\ spent' = {}
    /\ UNCHANGED stored

-----------------------------------------------------------------------------

UserStep ==
    \/ OpenCreate \/ Cancel \/ Leave \/ Reload
    \/ \E i \in Items : OpenEdit(i)
    \/ \E v \in Typed : Type(v)

Next ==
    \/ UserStep
    \/ \E s \in Saves : Submit(s) \/ Succeed(s) \/ Refuse(s)
    \/ RunPut \/ RunGet \/ RunStaleGet \/ RunDelete

Spec == Init /\ [][Next]_vars

-----------------------------------------------------------------------------
(* Properties.                                                             *)

\* Dialog, queue and store hold what they are declared to hold.
TypeOK ==
    /\ stored \in Texts \cup {None}
    /\ queue \in Seq(Transaction) /\ Len(queue) <= MaxQueue
    /\ form \in Values
    /\ latest \in Values
    /\ open \in BOOLEAN
    /\ editing \in Items \cup {None}
    /\ busy \in BOOLEAN
    /\ save \in [Saves -> Save \cup {None}]
    /\ source \in Sources
    /\ owed \in Texts \cup {None}
    /\ spent \subseteq Texts

\* What the user types for a new item is there when he comes back: however he
\* leaves the dialog or the page, whatever is refused and however the dialog
\* is opened again.  It gets lost when a transaction fails or is cut off, when
\* any item is saved in the meantime, and when a draft that was loaded twice
\* is filled in over it.
TypedIsKept == queue = <<>> /\ owed # None => stored = owed

\* What was saved as a new item is not offered as a draft again, unless the
\* user types or cancels it again after the answer, the draft is loaded twice,
\* or its deletion fails or is cut off.
SavedIsNotOffered == queue = <<>> => stored \notin spent

\* An item is only ever overwritten with what it was, or with what the user
\* typed into its own dialog, and a new item is never made of the values of an
\* existing one, unless Edit was pressed while the draft was loading.
SavesAreOfTheDialog ==
    \A s \in Saves : save[s] # None =>
        /\ save[s].item # None =>
              save[s].text = save[s].item \/ save[s].source \in {"user", "crossed"}
        /\ save[s].item = None => save[s].text \in Texts \cup {Blank}
-----------------------------------------------------------------------------
(* The inductive invariant behind the theorems of FormDrafts_proofs.       *)

\* The dialog of a new item shows a text, the one that is owed or nothing if
\* one is owed; that of an item shows the item, or what came over it.
DialogOK ==
    /\ open /\ editing = None => {form, latest} \subseteq Typed
    /\ open /\ editing = None /\ owed # None => {form, latest} \subseteq {owed, Empty}
    /\ open /\ editing # None => form = editing \/ source \in {"user", "crossed"}

\* When the transactions under way have run, text t is the draft.
Kept(t) ==
    \/ \E k \in DOMAIN queue :
         /\ queue[k] = Put(t)
         /\ \A j \in DOMAIN queue : j > k => Reads(queue[j])
    \/ stored = t /\ \A k \in DOMAIN queue : Reads(queue[k])

Deletes(x) == x.op = "delete"

\* When the transactions under way have run, text t is not the draft.
Dropped(t) ==
    /\ stored = t => \E j \in DOMAIN queue : Deletes(queue[j])
    /\ \A k \in DOMAIN queue : queue[k] = Put(t) =>
          \E j \in DOMAIN queue : j > k /\ Deletes(queue[j])

IInv ==
    /\ TypeOK
    /\ DialogOK
    /\ SavesAreOfTheDialog
    /\ owed # None => Kept(owed)
    /\ \A t \in spent : Dropped(t)
=============================================================================
