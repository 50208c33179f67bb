------------------------------ MODULE ConsoleForms ------------------------------
(* The cards of the console that change what they show: the identity of the brand,    *)
(* the profile of a product and the Gmail account.  A click sends what the fields of  *)
(* the card hold, success asks for the card again, and every answer on the page draws *)
(* it anew: the fields of these cards are not among those a redraw puts back.  No     *)
(* button waits for its answer.  The brand stays the same here, for its changes see   *)
(* BrandPanels; texts and settings are numbered in the order they are made, and the   *)
(* behaviour follows one card.                                                        *)
EXTENDS Naturals, FiniteSets

CONSTANTS
  MaxTexts,  \* bound: texts typed, settings changed
  MaxLoads,  \* bound: how often the card is asked for
  MaxAsked,  \* bound: requests at a time
  None

VARIABLES
  card,     \* the card this behaviour follows
  made,     \* the last number given
  stored,   \* what the server has
  version,  \* how often the card was asked for
  latest,   \* the last load whose answer is shown
  shown,    \* __BID, productsData or __GMAIL: what the card is drawn from
  field,    \* what stands in its fields
  wire,     \* requests on their way to the server and back
  raced     \* history: why the card may be behind

fvars == <<card, made, stored, version, latest, shown, field, wire, raced>>

Cards == {"identity", "product", "gmail"}
\* Gmail alone counts its loads, and shows nothing while one is under way.
Counts == card = "gmail"

Values == 0..MaxTexts
Request == [what : {"load", "save"}, n : Nat, value : Values \cup {None}, at : {"sent", "ok", "no"}]
Reasons == {"overtaken", "failed", "redrawn", "crossed", "lost", "outside"}

TypeOK ==
  /\ card \in Cards /\ made \in Values /\ stored \in Values
  /\ version \in 0..MaxLoads /\ latest \in 0..version
  /\ shown \in Values \cup {None} /\ field \in Values \cup {None}
  /\ wire \subseteq Request
  /\ raced \subseteq Reasons

-------------------------------------------------------------------------------
Loads == {r \in wire : r.what = "load"}
Saves == {r \in wire : r.what = "save"}

\* loadIdentity, loadProducts, loadGmail.
Ask(others) ==
  /\ version' = version + 1
  /\ wire' = others \cup {[what |-> "load", n |-> version + 1, value |-> None, at |-> "sent"]}
  /\ IF Counts THEN shown' = None /\ field' = None ELSE UNCHANGED <<shown, field>>

\* The brand was chosen, the user asks again.
Load ==
  /\ Cardinality(wire) < MaxAsked /\ version + Cardinality(Saves) < MaxLoads
  /\ Ask(wire)
  /\ UNCHANGED <<card, made, stored, latest, raced>>

\* Into a field of the card.
Type ==
  /\ card # "gmail" /\ field # None /\ made < MaxTexts
  /\ made' = made + 1 /\ field' = made + 1
  /\ UNCHANGED <<card, stored, version, latest, shown, wire, raced>>

\* identitySave, prodSaveProfile; gmailSending, gmailDisconnect and, in a demo,
\* gmailConnect make a setting of their own.
Click ==
  /\ shown # None /\ Cardinality(wire) < MaxAsked
  /\ version + Cardinality(Saves) < MaxLoads
  /\ IF card = "gmail" THEN made < MaxTexts /\ made' = made + 1 ELSE made' = made
  /\ wire' = wire \cup {[what |-> "save", n |-> version, at |-> "sent",
                         value |-> IF card = "gmail" THEN made' ELSE field]}
  /\ raced' = raced \cup IF Saves # {} THEN {"crossed"} ELSE {}
  /\ UNCHANGED <<card, stored, version, latest, shown, field>>

\* gmailConnect opens Google in a window of its own; the account is connected there.
GmailConnect ==
  /\ card = "gmail" /\ shown # None /\ made < MaxTexts
  /\ made' = made + 1 /\ stored' = made + 1
  /\ raced' = raced \cup {"outside"}
  /\ UNCHANGED <<card, version, latest, shown, field, wire>>

\* Any answer of the page, an edit opened, a tab chosen: what was typed is gone.
Render ==
  /\ shown # None /\ field # shown
  /\ field' = shown
  /\ raced' = raced \cup IF wire # {} THEN {"redrawn"} ELSE {}
  /\ UNCHANGED <<card, made, stored, version, latest, shown, wire>>

-------------------------------------------------------------------------------
Becomes(r, at, value) == wire' = (wire \ {r}) \cup {[r EXCEPT !.at = at, !.value = value]}

\* A request may fail on its way, and the answer to one that was served may be lost.
Serve(r) ==
  /\ r.at = "sent"
  /\ \/ r.what = "load" /\ Becomes(r, "ok", stored) /\ UNCHANGED <<stored, raced>>
     \/ /\ r.what = "save" /\ stored' = r.value
        /\ \/ Becomes(r, "ok", r.value) /\ UNCHANGED raced
           \/ Becomes(r, "no", r.value) /\ raced' = raced \cup {"lost"}
     \/ Becomes(r, "no", r.value) /\ UNCHANGED <<stored, raced>>
  /\ UNCHANGED <<card, made, version, latest, shown, field>>

\* Of the identity and the products the brand is compared, which stays here.
Wanted(r) == Counts => r.n = version

\* The card is drawn from the answer, and its fields with it.
OnLoad(r) ==
  /\ r.what = "load" /\ r.at \in {"ok", "no"}
  /\ wire' = wire \ {r}
  /\ IF r.at = "ok" /\ Wanted(r)
       THEN /\ shown' = r.value /\ field' = r.value /\ latest' = r.n
            /\ raced' = IF wire = {r} /\ r.value = stored THEN {}
                        ELSE raced \cup (IF r.n < latest THEN {"overtaken"} ELSE {})
                                   \cup IF field # shown THEN {"redrawn"} ELSE {}
       ELSE /\ raced' = raced \cup IF r.at = "no" THEN {"failed"} ELSE {}
            /\ UNCHANGED <<latest, shown, field>>
  /\ UNCHANGED <<card, made, stored, version>>

\* Success is told and the card asked for again; a failure is told.
OnSave(r) ==
  /\ r.what = "save" /\ r.at \in {"ok", "no"}
  /\ IF r.at = "ok" THEN Ask(wire \ {r})
     ELSE wire' = wire \ {r} /\ UNCHANGED <<version, shown, field>>
  /\ UNCHANGED <<card, made, stored, latest, raced>>

-------------------------------------------------------------------------------
FInit ==
  /\ card \in Cards /\ made = 0 /\ stored = 0 /\ version = 0 /\ latest = 0
  /\ shown = None /\ field = None /\ wire = {} /\ raced = {}

FNext ==
  \/ Load \/ Type \/ Click \/ GmailConnect \/ Render
  \/ \E r \in wire : Serve(r) \/ OnLoad(r) \/ OnSave(r)

FSpec == FInit /\ [][FNext]_fvars

-------------------------------------------------------------------------------
(* Properties *)

\* Why a card may be behind for good: Gmail is counted and emptied.
Behind == {"lost", "outside"} \cup IF Counts THEN {} ELSE {"overtaken", "failed"}

\* When nothing is under way a card tells what is stored, but for an answer that came
\* before an older one or not at all, and an account connected in another window.  Gmail
\* is counted and emptied: neither a failed nor an overtaken load leaves it behind.
CardTellsStored == wire = {} /\ shown # None => shown = stored \/ raced \cap Behind # {}

\* A save never puts an older text back over a newer one, but where the card was behind,
\* was drawn anew from what it had while a request was under way, or two saves crossed.
NoOlderTextReturns == stored' < stored => raced # {}

\* Why they hold.  Every save that was answered may ask for the card once more.
CountInv == IsFiniteSet(wire) /\ version + Cardinality(Saves) <= MaxLoads
ValueInv ==
  /\ stored <= made /\ (shown = None <=> field = None)
  /\ \A x \in {shown, field} : x # None => x <= made
  /\ \A r \in wire : r.value # None => r.value <= made
  /\ \A r \in wire : r.what = "save" \/ r.at = "ok" => r.value # None
  /\ ~Counts /\ Saves # {} => field # None
LoadInv ==
  /\ \A r \in Loads : r.n <= version
  /\ \A r, s \in Loads : r.n = s.n => r = s

\* A card that is not behind tells what is stored, or an answer is to come after which it will:
\* that of a save, or of the last load.
Wakes == \E r \in wire : r.what = "save" /\ r.at = "ok"
Tells == shown # None => shown = stored
UpInv == raced \cap Behind = {} =>
  \/ Wakes
  \/ Counts /\ Tells /\ \A r \in Loads : r.n = version /\ r.at = "ok" => r.value = stored
  \/ ~Counts /\ \E r \in Loads : r.n = version /\ (r.at = "ok" => r.value = stored)
  \/ ~Counts /\ Tells /\ \A r \in Loads : r.n < latest

\* Where nothing raced there is one save, of a text not older than what is stored; a field
\* that was not typed into is what is stored.
NewerInv == raced = {} =>
  /\ \A r, s \in Saves : r = s
  /\ \A r \in Saves : r.at = "sent" => stored <= r.value
  /\ ~Counts =>
       /\ field # None => stored <= field
       /\ \A r \in Saves : r.at = "sent" => r.value <= field
       /\ field = shown => Tells /\ \A r \in wire : r.what = "save" \/ r.at = "ok" => r.value = stored
===============================================================================
