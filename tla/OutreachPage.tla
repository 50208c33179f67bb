----------------------------- MODULE OutreachPage -----------------------------
(* The form of the outreach page: a text that is typed or written by the model, and  *)
(* recipients that are typed or carried over from the candidates of a product.  The   *)
(* form lives in the page, which keeps it over its renders but not over a visit to    *)
(* another page; a draft that is saved, and a batch that is sent, share one flag.     *)
EXTENDS Naturals

CONSTANTS
  Brands,
  Products,
  MaxLooks,  \* bound: searches and changes that make an answer unwanted
  None

VARIABLES
  brand,       \* BRAND()
  page,        \* livePage
  text,        \* subject and body: who made them, for which brand
  to,          \* the recipients: for which brand
  product,     \* the product chosen in the form
  composing,   \* the request of outreachCompose
  writing,     \* the request that holds outreachBusy: what it saves, None for a sending
  looking,     \* requests for candidates
  looks,       \* candidateVersion
  candidates,  \* prodCandidates
  picked,      \* candSelected is not empty
  lost,        \* history: the last saving took a text away that is not stored
  changed      \* history: the form was changed during it

ovars == <<brand, page, text, to, product, composing, writing, looking, looks, candidates,
           picked, lost, changed>>

Text == [made : {"typed", "ai"}, brand : Brands]
Search == [brand : Brands, product : Products]

TypeOK ==
  /\ brand \in Brands \cup {None} /\ page \in {"mail", "products", "other"}
  /\ text \in Text \cup {None} /\ to \in Brands \cup {None}
  /\ product \in Products \cup {None}
  /\ composing \in [brand : Brands, product : Products \cup {None}] \cup {None}
  /\ writing \in [brand : Brands, text : Text \cup {None}] \cup {None}
  /\ looks \in 0..MaxLooks
  /\ looking \subseteq [brand : Brands, product : Products, version : 0..MaxLooks]
  /\ candidates \in Search \cup {None}
  /\ picked \in BOOLEAN /\ lost \in BOOLEAN /\ changed \in BOOLEAN

Form == <<text, to, product>>
Found == <<looking, looks, candidates, picked>>
Emptied == text' = None /\ to' = None /\ product' = None
Saving == writing # None /\ writing.text # None
Changes == changed' = (changed \/ Saving)

OnForm == page = "mail" /\ brand # None

-------------------------------------------------------------------------------
\* reloadBrand empties the form, the candidates and what was picked of them, and makes
\* the candidates on their way unwanted; it frees no flag.
ChangeBrand(b) ==
  /\ b # brand /\ brand' = b
  /\ looks < MaxLooks /\ looks' = looks + 1
  /\ candidates' = None /\ picked' = FALSE
  /\ Emptied /\ Changes
  /\ UNCHANGED <<page, composing, writing, looking, lost>>

LiveNav(p) ==
  /\ p # page /\ page' = p
  /\ Emptied /\ Changes
  /\ UNCHANGED <<brand, composing, writing, Found, lost>>

Type ==
  /\ OnForm /\ Changes
  /\ \/ text' = [made |-> "typed", brand |-> brand] /\ UNCHANGED <<to, product>>
     \/ text' = None /\ UNCHANGED <<to, product>>
     \/ to' = brand /\ UNCHANGED <<text, product>>
     \/ product' \in Products \cup {None} /\ UNCHANGED <<text, to>>
  /\ UNCHANGED <<brand, page, composing, writing, Found, lost>>

-------------------------------------------------------------------------------
(* The text written by the model *)

OutreachCompose ==
  /\ OnForm /\ composing = None /\ text = None
  /\ composing' = [brand |-> brand, product |-> product]
  /\ UNCHANGED <<brand, page, Form, writing, Found, lost, changed>>

\* The answer is kept only for the brand it was asked for, in a form whose text is still
\* empty and whose product is still the one.
OnComposed ==
  /\ composing # None /\ composing' = None
  /\ text' = IF OnForm /\ composing.brand = brand /\ composing.product = product /\ text = None
               THEN [made |-> "ai", brand |-> brand] ELSE text
  /\ UNCHANGED <<brand, page, to, product, writing, Found, lost, changed>>

\* The request fails, or its answer finds another session: nothing is written.
ComposeFails ==
  /\ composing # None /\ composing' = None
  /\ UNCHANGED <<brand, page, Form, writing, Found, lost, changed>>

-------------------------------------------------------------------------------
(* Saving and sending *)

OutreachDraft ==
  /\ OnForm /\ writing = None /\ text # None /\ to # None
  /\ writing' = [brand |-> brand, text |-> text] /\ changed' = FALSE /\ lost' = FALSE
  /\ UNCHANGED <<brand, page, Form, composing, Found>>

OutreachSend ==
  /\ OnForm /\ writing = None
  /\ writing' = [brand |-> brand, text |-> None]
  /\ UNCHANGED <<brand, page, Form, composing, Found, lost, changed>>

\* Mutant: the form is emptied whatever the answer is.
WriteFails_Empties ==
  /\ writing # None /\ writing' = None
  /\ text' = None /\ to' = None
  /\ lost' = (lost \/ text # None)
  /\ UNCHANGED <<brand, page, product, composing, Found, changed>>

WriteFails ==
  /\ writing # None /\ writing' = None
  /\ UNCHANGED <<brand, page, Form, composing, Found, lost, changed>>

\* The answer empties whatever form is there, of another brand too.
OnDrafted ==
  /\ Saving /\ writing' = None
  /\ text' = None /\ to' = None
  /\ lost' = (lost \/ text \notin {None, writing.text})
  /\ UNCHANGED <<brand, page, product, composing, Found, changed>>

OnSent ==
  /\ writing # None /\ ~Saving /\ writing' = None
  /\ UNCHANGED <<brand, page, Form, composing, Found, lost, changed>>

-------------------------------------------------------------------------------
(* Candidates *)

ProdShowCandidates(p) ==
  /\ page = "products" /\ brand # None
  /\ looks < MaxLooks /\ looks' = looks + 1
  /\ looking' = looking \cup {[brand |-> brand, product |-> p, version |-> looks + 1]}
  /\ candidates' = None /\ picked' = FALSE
  /\ UNCHANGED <<brand, page, Form, composing, writing, lost, changed>>

CandidateCountryChanged ==
  /\ page = "products" /\ brand # None
  /\ looks < MaxLooks /\ looks' = looks + 1
  /\ candidates' = None /\ picked' = FALSE
  /\ UNCHANGED <<brand, page, Form, composing, writing, looking, lost, changed>>

OnCandidates(r) ==
  /\ looking' = looking \ {r}
  /\ candidates' = IF r.version = looks /\ r.brand = brand
                     THEN [brand |-> r.brand, product |-> r.product] ELSE candidates
  /\ UNCHANGED <<brand, page, Form, composing, writing, looks, picked, lost, changed>>

LookFails(r) ==
  /\ looking' = looking \ {r}
  /\ UNCHANGED <<brand, page, Form, composing, writing, looks, candidates, picked, lost, changed>>

CandToggle ==
  /\ page = "products" /\ candidates # None
  /\ picked' = ~picked
  /\ UNCHANGED <<brand, page, Form, composing, writing, looking, looks, candidates, lost, changed>>

\* The form is opened with the recipients and the product of the candidates.
OutreachFromCandidates ==
  /\ page = "products" /\ candidates # None /\ picked
  /\ page' = "mail"
  /\ text' = None /\ to' = candidates.brand /\ product' = candidates.product
  /\ Changes
  /\ UNCHANGED <<brand, composing, writing, Found, lost>>

-------------------------------------------------------------------------------
OInit ==
  /\ brand = None /\ page = "other" /\ text = None /\ to = None /\ product = None
  /\ composing = None /\ writing = None /\ looking = {} /\ looks = 0
  /\ candidates = None /\ picked = FALSE /\ lost = FALSE /\ changed = FALSE

ONext ==
  \/ \E b \in Brands \cup {None} : ChangeBrand(b)
  \/ \E p \in {"mail", "products", "other"} : LiveNav(p)
  \/ Type \/ OutreachCompose \/ OnComposed \/ ComposeFails
  \/ OutreachDraft \/ OutreachSend \/ OnDrafted \/ OnSent \/ WriteFails
  \/ \E p \in Products : ProdShowCandidates(p)
  \/ CandidateCountryChanged \/ CandToggle \/ OutreachFromCandidates
  \/ \E r \in looking : OnCandidates(r) \/ LookFails(r)

OSpec == OInit /\ [][ONext]_ovars

-------------------------------------------------------------------------------
(* Properties *)

\* The candidates of the page are of its brand, and until the form is changed a draft that
\* is being saved is the text in it.
FormInv ==
  /\ candidates # None => candidates.brand = brand
  /\ Saving /\ ~changed => text = writing.text

\* What stands in the form was typed, written or picked for the brand in whose name it
\* would be mailed, through changes of the brand and late answers of the model.
DraftOfTheBrand ==
  /\ text # None => text.brand = brand
  /\ to # None => to = brand

\* The candidates that are ticked are the ones on the page, and of its brand: what was
\* ticked in an overtaken list is never mailed.
PickedAreShown == picked => candidates # None /\ candidates.brand = brand

\* The model writes into an empty form only: nothing that was typed while it worked is
\* replaced by its text.
WritesOverNothing == text # None /\ text' # None /\ text' # text => text'.made = "typed"
TypedIsNotOverwritten == [][WritesOverNothing]_ovars

\* The answer to a saved draft empties the form; a text that was not stored is lost by it
\* only when the form was changed while the draft was being saved.
LostOnlyWhenChanged == lost => changed
===============================================================================
