------------------------------- MODULE PoolPage -------------------------------
(* The candidate pool of the administrators: a text of candidates is pasted, its plan *)
(* is shown, and it is registered.  The plan is of the text that was sent; the text    *)
(* that is registered is the one that stands in the field by then.  Others register    *)
(* candidates too.                                                                     *)
EXTENDS Naturals

CONSTANTS
  Candidates,
  None

VARIABLES
  csv,       \* the text: the candidates of its rows
  preview,   \* the plan that is shown: its text, and the rows it will insert
  busy,
  wire,      \* the one request in flight
  promised,  \* the rows on the button that was pressed last
  result,    \* the rows the last registration inserted, as the page tells
  pool,      \* creator_pool
  mine,      \* history: what this page registered
  edited     \* history: the text was changed while its plan was on its way

ivars == <<csv, preview, busy, wire, promised, result, pool, mine, edited>>

Texts == SUBSET Candidates
Plan == [rows : Texts, insert : Texts]
Request == [kind : {"preview", "import"}, rows : Texts,
            reply : {"open", "done", "failed"}, insert : Texts]

TypeOK ==
  /\ csv \in Texts /\ preview \in Plan \cup {None} /\ busy \in BOOLEAN
  /\ wire \in Request \cup {None}
  /\ promised \in Texts /\ result \in Texts \cup {None} /\ pool \in Texts /\ mine \in Texts
  /\ edited \in BOOLEAN

Sent(kind) == [kind |-> kind, rows |-> csv, reply |-> "open", insert |-> {}]

-------------------------------------------------------------------------------
\* The field is never disabled.
Edit(t) ==
  /\ t # csv /\ csv' = t /\ preview' = None
  /\ edited' = (edited \/ (busy /\ wire.kind = "preview"))
  /\ UNCHANGED <<busy, wire, promised, result, pool, mine>>

DoPreview ==
  /\ ~busy /\ csv # {}
  /\ busy' = TRUE /\ result' = None /\ wire' = Sent("preview") /\ edited' = FALSE
  /\ UNCHANGED <<csv, preview, promised, pool, mine>>

DoImport ==
  /\ ~busy /\ preview # None /\ preview.insert # {}
  /\ busy' = TRUE /\ wire' = Sent("import") /\ promised' = preview.insert
  /\ UNCHANGED <<csv, preview, result, pool, mine, edited>>

-------------------------------------------------------------------------------
Replied(inserted) == wire' = [wire EXCEPT !.reply = "done", !.insert = inserted]

\* _plan, without a change.
PreviewCandidates ==
  /\ wire # None /\ wire.kind = "preview" /\ wire.reply = "open"
  /\ Replied(wire.rows \ pool)
  /\ UNCHANGED <<csv, preview, busy, promised, result, pool, mine, edited>>

\* The plan is made again under the lock, and a row that is there by now is skipped.
ImportCandidates ==
  /\ wire # None /\ wire.kind = "import" /\ wire.reply = "open"
  /\ pool' = pool \cup wire.rows /\ mine' = mine \cup (wire.rows \ pool)
  /\ Replied(wire.rows \ pool)
  /\ UNCHANGED <<csv, preview, busy, promised, result, edited>>

OthersImport(c) ==
  /\ c \notin pool /\ pool' = pool \cup {c}
  /\ UNCHANGED <<csv, preview, busy, wire, promised, result, mine, edited>>

\* Refused, or lost on its way: before or after it was done.
LoseRequest ==
  /\ wire # None /\ wire.reply # "failed"
  /\ wire' = [wire EXCEPT !.reply = "failed"]
  /\ UNCHANGED <<csv, preview, busy, promised, result, pool, mine, edited>>

-------------------------------------------------------------------------------
OnPreview ==
  /\ wire # None /\ wire.kind = "preview" /\ wire.reply # "open"
  /\ preview' = IF wire.reply = "done" THEN [rows |-> wire.rows, insert |-> wire.insert] ELSE None
  /\ busy' = FALSE /\ wire' = None
  /\ UNCHANGED <<csv, promised, result, pool, mine, edited>>

\* A success empties the field, whatever stands in it by now.
OnImport ==
  /\ wire # None /\ wire.kind = "import" /\ wire.reply # "open"
  /\ busy' = FALSE /\ wire' = None
  /\ IF wire.reply = "done"
       THEN /\ result' = wire.insert /\ preview' = None /\ csv' = {}
       ELSE UNCHANGED <<csv, preview, result>>
  /\ UNCHANGED <<promised, pool, mine, edited>>

-------------------------------------------------------------------------------
IInit ==
  /\ csv = {} /\ preview = None /\ busy = FALSE /\ wire = None /\ promised = {}
  /\ result = None /\ pool \in Texts /\ mine = {} /\ edited = FALSE

INext ==
  \/ \E t \in Texts : Edit(t)
  \/ DoPreview \/ DoImport \/ PreviewCandidates \/ ImportCandidates \/ LoseRequest
  \/ \E c \in Candidates : OthersImport(c)
  \/ OnPreview \/ OnImport

ISpec == IInit /\ [][INext]_ivars

-------------------------------------------------------------------------------
(* Properties *)

\* Who presses the button sees the plan of the text that will be registered, unless the
\* text was changed while its plan was on its way: the late plan is shown over it.
PlanIsOfTheText == preview # None /\ ~busy /\ ~edited => preview.rows = csv

\* A registration inserts no row that was not promised, unless the text was changed so;
\* fewer when others registered them first.
InsertsPromisedRows == ~edited /\ mine' # mine => mine' \ mine \subseteq promised
InsertsWhatWasPromised == [][InsertsPromisedRows]_ivars

\* What the page tells as registered is registered.
ToldIsRegistered == result # None => result \subseteq mine

\* Why they hold.  A request blocks both buttons.  The plan that is on its way is of the text
\* that stands in the field, and so is the one that is shown, unless the text was changed in
\* between; a plan names every row that is not there yet, and so does the button.
Shown == preview # None /\ (wire # None => wire.kind = "import")
WireInv ==
  /\ wire # None => busy
  /\ Shown /\ ~edited => preview.rows = csv
  /\ preview # None => preview.rows \ pool \subseteq preview.insert
  /\ wire # None /\ wire.kind = "preview" =>
       /\ ~edited => wire.rows = csv
       /\ wire.reply = "done" => wire.rows \ pool \subseteq wire.insert
  /\ wire # None /\ wire.kind = "import" =>
       /\ ~edited => wire.rows \ pool \subseteq promised
       /\ wire.reply = "done" => wire.insert \subseteq mine
===============================================================================
