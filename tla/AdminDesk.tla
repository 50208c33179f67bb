------------------------------- MODULE AdminDesk -------------------------------
(* The desk of an administrator: brand applications, reports, disputes and             *)
(* submissions.  Other administrators have the same list open; a decision is taken     *)
(* once, by a conditional update of its row, and the desk reads its list again after   *)
(* each try.  An application that is approved gives out an invitation, which only the  *)
(* answer to that very request carries.                                                *)
EXTENDS Naturals

CONSTANTS
  Items,
  Ids,    \* bound: requests in flight
  None

VARIABLES
  screen,      \* the screen this behaviour follows
  decided,     \* the rows of the database
  rows,        \* the list the desk shows
  busy,        \* the one button that is blocked; the other screens block none
  wire,        \* requests in flight
  told,        \* history: applications whose link was shown, here or to another, or never
               \* will be: the answer was lost, or the page left before it came
  overlapped   \* history: a decision was begun while another was on its way

dvars == <<screen, decided, rows, busy, wire, told, overlapped>>

\* Reports, disputes and submissions are decided in the same way.
Screens == {"applications", "others"}
Verdicts == {"granted", "denied"}

\* The answer to a request comes to nobody when the page was left.
Request == [here : BOOLEAN, item : Items \cup {None}, verdict : Verdicts,
            step : {"asked", "done", "refused", "loading", "loaded"}, list : SUBSET Items]

TypeOK ==
  /\ screen \in Screens
  /\ decided \in [Items -> Verdicts \cup {None}]
  /\ rows \subseteq Items /\ busy \in Items \cup {None}
  /\ wire \in [Ids -> Request \cup {None}]
  /\ told \subseteq Items /\ overlapped \in BOOLEAN

Applications == screen = "applications"
Flying == {i \in Ids : wire[i] # None}
Here(i) == i \in Flying /\ wire[i].here
Land(i) == wire' = [wire EXCEPT ![i] = None]
Send(i, x, v, step) ==
  /\ wire[i] = None
  /\ wire' = [wire EXCEPT ![i] = [here |-> TRUE, item |-> x, verdict |-> v, step |-> step, list |-> {}]]

-------------------------------------------------------------------------------
(* The desk *)

Mount(i) ==
  /\ rows = {} /\ Send(i, None, "denied", "loading")
  /\ UNCHANGED <<screen, decided, rows, busy, told, overlapped>>

Leave ==
  /\ rows' = {} /\ busy' = None /\ overlapped' = FALSE
  /\ wire' = [i \in Ids |-> IF ~Here(i) THEN wire[i]
                            ELSE IF wire[i].step = "asked" THEN [wire[i] EXCEPT !.here = FALSE] ELSE None]
  /\ told' = told \cup {wire[i].item : i \in {j \in Ids : Here(j) /\ wire[j].step \in {"asked", "done"}}}
  /\ UNCHANGED <<screen, decided>>

\* decide, act, resolve and review: one request after which the list is read again.
Decide(i, x, v) ==
  /\ x \in rows /\ (Applications => busy # x)
  /\ busy' = IF Applications THEN x ELSE busy
  /\ overlapped' = (overlapped \/ busy # None)
  /\ Send(i, x, v, "asked")
  /\ UNCHANGED <<screen, decided, rows, told>>

\* No reason is given for a rejection: nothing is sent, and the flag is freed, though it may
\* be up for another application.
GiveUp(x) ==
  /\ Applications /\ x \in rows /\ busy # x
  /\ busy' = None
  /\ overlapped' = (overlapped \/ busy # None)
  /\ UNCHANGED <<screen, decided, rows, wire, told>>

-------------------------------------------------------------------------------
(* The server *)

\* The row is locked, or updated where it is still open; another decision is refused.
Serve(i) ==
  /\ i \in Flying /\ wire[i].step = "asked"
  /\ LET open == decided[wire[i].item] = None
     IN  /\ decided' = IF open THEN [decided EXCEPT ![wire[i].item] = wire[i].verdict] ELSE decided
         /\ IF wire[i].here THEN wire' = [wire EXCEPT ![i].step = IF open THEN "done" ELSE "refused"]
                            ELSE Land(i)
  /\ UNCHANGED <<screen, rows, busy, told, overlapped>>

\* The desk of another administrator.
OthersDecide(x, v) ==
  /\ decided[x] = None
  /\ decided' = [decided EXCEPT ![x] = v]
  /\ told' = told \cup {x}
  /\ UNCHANGED <<screen, rows, busy, wire, overlapped>>

\* A request or its answer is lost, or refused for another reason.
Lose(i) ==
  /\ Here(i) /\ wire[i].step \in {"asked", "done"}
  /\ wire' = [wire EXCEPT ![i].step = "refused"]
  /\ told' = told \cup {wire[i].item}
  /\ UNCHANGED <<screen, decided, rows, busy, overlapped>>

ServeList(i) ==
  /\ i \in Flying /\ wire[i].step = "loading"
  /\ wire' = [wire EXCEPT ![i].step = "loaded", ![i].list = {x \in Items : decided[x] = None}]
  /\ UNCHANGED <<screen, decided, rows, busy, told, overlapped>>

-------------------------------------------------------------------------------
(* The answers *)

\* An approval shows its link, over the one before.
OnDecided(i) ==
  /\ i \in Flying /\ wire[i].step = "done"
  /\ told' = IF Applications /\ wire[i].verdict = "granted" THEN told \cup {wire[i].item} ELSE told
  /\ wire' = [wire EXCEPT ![i].step = "loading"]
  /\ UNCHANGED <<screen, decided, rows, busy, overlapped>>

\* An application says so and frees the button; the others are silent and read the list.
OnRefused(i) ==
  /\ i \in Flying /\ wire[i].step = "refused"
  /\ IF Applications THEN busy' = None /\ Land(i)
                     ELSE wire' = [wire EXCEPT ![i].step = "loading"] /\ UNCHANGED busy
  /\ UNCHANGED <<screen, decided, rows, told, overlapped>>

\* The list, or its failure; then the button is freed, whichever was pressed last.
OnList(i) ==
  /\ i \in Flying /\ wire[i].step = "loaded" /\ Land(i)
  /\ rows' = wire[i].list \/ UNCHANGED rows
  /\ busy' = IF wire[i].item = None THEN busy ELSE None
  /\ UNCHANGED <<screen, decided, told, overlapped>>

-------------------------------------------------------------------------------
DInit ==
  /\ screen \in Screens
  /\ decided = [x \in Items |-> None]
  /\ rows = {} /\ busy = None /\ wire = [i \in Ids |-> None]
  /\ told = {} /\ overlapped = FALSE

DNext ==
  \/ Leave
  \/ \E x \in Items : GiveUp(x) \/ \E v \in Verdicts : OthersDecide(x, v)
  \/ \E i \in Ids :
       \/ Mount(i) \/ \E x \in Items, v \in Verdicts : Decide(i, x, v)
       \/ Serve(i) \/ Lose(i) \/ ServeList(i) \/ OnDecided(i) \/ OnRefused(i) \/ OnList(i)

DSpec == DInit /\ [][DNext]_dvars

-------------------------------------------------------------------------------
(* Properties *)

\* What was decided stays decided, whichever desk still shows it as open: a brand that was
\* rejected is not created later, a report is not acted on twice.
KeepsDecisions == \A x \in Items : decided[x] # None => decided'[x] = decided[x]
DecidedOnce == [][KeepsDecisions]_dvars

\* The link of every approved brand is shown to the one who approved it, unless the answer
\* was lost or the page was left: nothing on the desk could give it out again.
LinkIsShown ==
  Applications =>
    \A x \in Items : decided[x] = "granted" =>
      x \in told \/ \E i \in Flying : wire[i].item = x /\ wire[i].step = "done"

\* The desk never has two decisions on one application under way, unless a second one was
\* begun during the first: there is one flag for all, and the first answer frees it.
OneDecisionEach ==
  Applications /\ ~overlapped =>
    \A i, j \in Flying : Here(i) /\ Here(j) /\ wire[i].item = wire[j].item /\ wire[i].item # None
                         => i = j

\* What makes the properties inductive: what is done is what was decided, what is asked by
\* nobody any more was told, and the flag is up for the one application that is decided here.
AskedOfTheDesk(i) ==
  /\ wire[i].step \in {"asked", "done", "refused"} => wire[i].item # None
  /\ ~wire[i].here => wire[i].step = "asked" /\ wire[i].item \in told
  /\ wire[i].step = "done" => decided[wire[i].item] = wire[i].verdict
  /\ Applications /\ ~overlapped /\ wire[i].here /\ wire[i].item # None => busy = wire[i].item

AskedInv ==
  /\ \A i \in Flying : AskedOfTheDesk(i)
  /\ Applications /\ ~overlapped =>
       \A i, j \in Flying :
         wire[i].here /\ wire[j].here /\ wire[i].item # None /\ wire[j].item # None => i = j
===============================================================================
