------------------------------ MODULE ApprovalDesk ------------------------------
(* The approvals of the React console (gateStore.tsx, Approvals.tsx) and the gates they   *)
(* decide (main.py).  A decision is posted, and the list fetched anew; a decision that    *)
(* fails, or is made while the server is away, stays on the page.  Other members decide   *)
(* the same gates on their own pages.                                                     *)
EXTENDS Naturals, Sequences

CONSTANTS
  Cards,
  MaxLists,  \* bound: lists on their way to the page
  None

VARIABLES
  state,    \* gate_requests.state
  may,      \* the kinds the member of this page may approve, by the gates of it
  done,     \* history: gates whose side effect took place, by approvals that were allowed
  page,     \* gates: the state the page shows of each
  live,
  lists,    \* answers to refresh on their way, or None: not read yet
  posts,    \* decisions on their way: the verdict, and the answer
  local,    \* history: cards the page changed by itself after the last list
  overlap   \* history: lists were on their way at once

avars == <<state, may, done, page, live, lists, posts, local, overlap>>

States == {"PENDING", "HELD", "APPROVED", "REJECTED"}
Verdicts == States \ {"PENDING"}
Open == {"PENDING", "HELD"}

TypeOK ==
  /\ state \in [Cards -> States] /\ may \subseteq Cards /\ done \subseteq Cards
  /\ page \in [Cards -> States] /\ live \in BOOLEAN
  /\ lists \in Seq([Cards -> States] \cup {None}) /\ Len(lists) <= MaxLists
  /\ posts \in [Cards -> [verdict : Verdicts, answer : {"none", "ok", "failed"}] \cup {None}]
  /\ local \subseteq Cards /\ overlap \in BOOLEAN

-------------------------------------------------------------------------------
(* The server *)

\* _decidable locks the row; a hold needs no right.  An approval and what it executes are
\* one transaction: an executor that fails takes the approval back.
Decidable(g, verdict, allowed) == state[g] \in Open /\ (verdict = "HELD" \/ allowed)

Decides(g, verdict, executes) ==
  IF verdict = "APPROVED" /\ ~executes
    THEN UNCHANGED <<state, done>>
    ELSE /\ state' = [state EXCEPT ![g] = verdict]
         /\ done' = IF verdict = "APPROVED" THEN done \cup {g} ELSE done

\* The post arrives; the answer may be lost after it did what it does.
Arrive(g, executes, heard) ==
  /\ posts[g] # None /\ posts[g].answer = "none"
  /\ IF Decidable(g, posts[g].verdict, g \in may)
       THEN /\ Decides(g, posts[g].verdict, executes)
            /\ posts' = [posts EXCEPT ![g].answer =
                 IF heard /\ (posts[g].verdict = "APPROVED" => executes) THEN "ok" ELSE "failed"]
       ELSE /\ posts' = [posts EXCEPT ![g].answer = "failed"]
            /\ UNCHANGED <<state, done>>
  /\ UNCHANGED <<may, page, live, lists, local, overlap>>

\* Or never arrives.
Lose(g) ==
  /\ posts[g] # None /\ posts[g].answer = "none"
  /\ posts' = [posts EXCEPT ![g].answer = "failed"]
  /\ UNCHANGED <<state, may, done, page, live, lists, local, overlap>>

\* Another member.
OtherDecides(g, verdict, allowed) ==
  /\ Decidable(g, verdict, allowed) /\ Decides(g, verdict, TRUE)
  /\ UNCHANGED <<may, page, live, lists, posts, local, overlap>>

ReadList(k) ==
  /\ k \in DOMAIN lists /\ lists[k] = None
  /\ lists' = [lists EXCEPT ![k] = state]
  /\ UNCHANGED <<state, may, done, page, live, posts, local, overlap>>

-------------------------------------------------------------------------------
(* The page *)

\* decide, from a card that is open
Decide(g, verdict) ==
  /\ page[g] \in Open /\ live /\ posts[g] = None
  /\ posts' = [posts EXCEPT ![g] = [verdict |-> verdict, answer |-> "none"]]
  /\ UNCHANGED <<state, may, done, page, live, lists, local, overlap>>

ShowVerdict(g, verdict) ==
  /\ page' = [page EXCEPT ![g] = verdict]
  /\ local' = local \cup {g}

DecideOffline(g, verdict) ==
  /\ page[g] \in Open /\ ~live
  /\ ShowVerdict(g, verdict)
  /\ UNCHANGED <<state, may, done, live, lists, posts, overlap>>

\* await refresh()
Decided(g) ==
  /\ posts[g] # None /\ posts[g].answer = "ok" /\ Len(lists) < MaxLists
  /\ posts' = [posts EXCEPT ![g] = None]
  /\ lists' = Append(lists, None)
  /\ overlap' = (overlap \/ lists # <<>>)
  /\ UNCHANGED <<state, may, done, page, live, local>>

\* catch: the page goes on as if there were no server.
Failed(g) ==
  /\ posts[g] # None /\ posts[g].answer = "failed"
  /\ ShowVerdict(g, posts[g].verdict)
  /\ posts' = [posts EXCEPT ![g] = None]
  /\ UNCHANGED <<state, may, done, live, lists, overlap>>

\* The others, in their order.
Without(s, k) == SubSeq(s, 1, k - 1) \o SubSeq(s, k + 1, Len(s))

\* Whichever list comes is shown.
Refreshed(k) ==
  /\ k \in DOMAIN lists /\ lists[k] # None
  /\ page' = lists[k] /\ live' = TRUE /\ local' = {}
  /\ lists' = Without(lists, k)
  /\ UNCHANGED <<state, may, done, posts, overlap>>

NotRefreshed(k) ==
  /\ k \in DOMAIN lists
  /\ live' = FALSE
  /\ lists' = Without(lists, k)
  /\ UNCHANGED <<state, may, done, page, posts, local, overlap>>

\* The page opens with the cards of mock.ts, and asks.
AInit ==
  /\ state = [g \in Cards |-> "PENDING"] /\ may \in SUBSET Cards /\ done = {}
  /\ page = [g \in Cards |-> "PENDING"] /\ live = FALSE
  /\ lists = <<None>> /\ posts = [g \in Cards |-> None]
  /\ local = {} /\ overlap = FALSE

ANext ==
  \/ \E g \in Cards :
       \/ \E v \in Verdicts :
            Decide(g, v) \/ DecideOffline(g, v) \/ (\E b \in BOOLEAN : OtherDecides(g, v, b))
       \/ \E executes, heard \in BOOLEAN : Arrive(g, executes, heard)
       \/ Lose(g) \/ Decided(g) \/ Failed(g)
  \/ \E k \in DOMAIN lists : ReadList(k) \/ Refreshed(k) \/ NotRefreshed(k)

-------------------------------------------------------------------------------
\* What the page calls approved and executed is (Approvals.tsx:94), but for a card it changed
\* by itself after a decision that failed, or without a server, until the next list.
ApprovedIsExecuted ==
  \A g \in Cards : page[g] = "APPROVED" /\ g \notin local => g \in done

\* A gate that was decided does not come back as an open card, where it would be decided
\* again, unless lists overtook each other or the page decided by itself: a hold that the server
\* refused, since the gate was decided, is shown over that decision.
DecidedStaysDecided ==
  \A g \in Cards : page[g] \notin Open /\ page'[g] \in Open => overlap \/ g \in local \cup local'

\* What was read of a gate still holds of it.
Holds(seen, g) ==
  /\ seen[g] = "APPROVED" => g \in done
  /\ seen[g] \notin Open => state[g] \notin Open

\* What makes the properties inductive: lists and cards say what was so when the list was read,
\* and a decision is final; one list at a time is no older than the page it comes to.
ListsInv ==
  /\ ~overlap => Len(lists) <= 1
  /\ \A g \in Cards :
       /\ state[g] = "APPROVED" => g \in done
       /\ g \notin local => Holds(page, g)
       /\ \A k \in DOMAIN lists : lists[k] # None =>
            /\ Holds(lists[k], g)
            /\ ~overlap /\ g \notin local /\ page[g] \notin Open => lists[k][g] \notin Open
===============================================================================
