------------------------------ MODULE MailSequence ------------------------------
(* The mail engine of the collector (harvest/outreach) under the runner that asks a    *)
(* person before every batch (harvest/runner.py): three mails to each address, days     *)
(* apart, until it answers.  All of it is in memory, and gone with the process.  The     *)
(* entries of the suppression list are never removed, so that its ban of 90 days never   *)
(* decides; nothing in the code writes spam_score.                                        *)
EXTENDS Naturals, Sequences, FiniteSets

CONSTANTS
  Emails,
  Delays,    \* STEP_DELAYS_DAYS: the days between one mail and the next
  Cap,       \* warmup_cap on the first, second... day of the process
  MinSent,   \* the mails after which complaints are judged (200)
  PerMail,   \* a complaint in so many mails is the limit (200)
  MaxDay,    \* bound: the last day
  None

VARIABLES
  day,
  since,       \* started_on
  people,      \* _enrollments
  suppressed,  \* _entries: each address, for a complaint or another reason
  gate,        \* _mail_gate: its state, and the mails of its batch
  counted,     \* _sent_by_day of today
  total,       \* _total_sent
  paused,      \* paused_reason is set
  mailed,      \* history: the mails each address got
  today,       \* history: how many went out today
  broken,      \* history: sending broke off today, or the process did
  left,        \* history: who answered, opted out, complained or bounced
  lost         \* history: who got a mail, or was heard, without the engine knowing it

qvars == <<day, since, people, suppressed, gate, counted, total, paused, mailed, today,
           broken, left, lost>>

Days == 0..MaxDay
Steps == 0..Len(Delays)
Statuses == {"none", "active", "replied", "done", "stopped"}
Reasons == {"complaint", "other"}

Person == [status : Statuses, step : Steps, due : Nat]
Gate == [state : {"PENDING", "APPROVED", "HELD", "REJECTED"}, batch : SUBSET (Emails \X Steps)]

TypeOK ==
  /\ day \in Days /\ since \in Days
  /\ people \in [Emails -> Person]
  /\ suppressed \in [Emails -> Reasons \cup {None}]
  /\ gate = None \/ gate \in Gate
  /\ counted \in Nat /\ total \in Nat /\ today \in Nat
  /\ paused \in BOOLEAN /\ broken \in BOOLEAN
  /\ mailed \in [Emails -> Seq(Steps)]
  /\ left \subseteq Emails /\ lost \subseteq Emails

Engine == <<people, suppressed, gate, counted, total, paused>>
History == <<mailed, today, broken, left, lost>>

Suppressed(e) == suppressed[e] # None
Nobody == [status |-> "none", step |-> 0, due |-> 0]
Stop(p, es) == [e \in Emails |-> IF e \in es THEN [p[e] EXCEPT !.status = "stopped"] ELSE p[e]]

WarmupCap == Cap[day - since + 1]
RemainingToday == IF counted < WarmupCap THEN WarmupCap - counted ELSE 0

\* The failure conditions of _check_pause.
ComplaintCount == Cardinality({e \in Emails : suppressed[e] = "complaint"})
TooManyComplaints == total >= MinSent /\ ComplaintCount * PerMail > total
Paused == paused \/ TooManyComplaints

-------------------------------------------------------------------------------
(* People *)

Enroll(e) ==
  /\ people[e].status = "none" /\ ~Suppressed(e)
  /\ people' = [people EXCEPT ![e] = [status |-> "active", step |-> 0, due |-> day]]
  /\ UNCHANGED <<day, since, suppressed, gate, counted, total, paused, History>>

Suppress(e, reason) == suppressed' = [suppressed EXCEPT ![e] = reason]
Known(e) == people[e].status # "none"

\* An answer of an address the engine does not know is classified, and forgotten.
Reply(e, kind) ==
  /\ mailed[e] # <<>>
  /\ CASE ~Known(e) -> UNCHANGED <<people, suppressed>>
       [] Known(e) /\ kind = "unsubscribe" -> people' = Stop(people, {e}) /\ Suppress(e, "other")
       [] Known(e) /\ kind = "out_of_office" -> UNCHANGED <<people, suppressed>>
       [] OTHER -> people' = [people EXCEPT ![e].status = "replied"] /\ UNCHANGED suppressed
  /\ left' = IF kind = "out_of_office" THEN left ELSE left \cup {e}
  /\ lost' = IF Known(e) THEN lost ELSE lost \cup {e}
  /\ UNCHANGED <<day, since, gate, counted, total, paused, mailed, today, broken>>

\* record_complaint and record_bounce; a later reason replaces an earlier one.
Report(e, reason) ==
  /\ mailed[e] # <<>> /\ Suppress(e, reason)
  /\ people' = IF Known(e) THEN Stop(people, {e}) ELSE people
  /\ left' = left \cup {e}
  /\ UNCHANGED <<day, since, gate, counted, total, paused, mailed, today, broken, lost>>

\* Entered by hand: the sequence of the address goes on until its next mail is due.
SuppressByHand(e) ==
  /\ ~Suppressed(e) /\ Suppress(e, "other") /\ left' = left \cup {e}
  /\ UNCHANGED <<day, since, people, gate, counted, total, paused, mailed, today, broken, lost>>

Resume ==
  /\ paused /\ paused' = FALSE
  /\ UNCHANGED <<day, since, people, suppressed, gate, counted, total, History>>

\* A person decides on the batch; also after holding it, until the runner looks.
Decide(state) ==
  /\ gate # None /\ gate.state \in {"PENDING", "HELD"} /\ gate.state # state
  /\ gate' = [gate EXCEPT !.state = state]
  /\ UNCHANGED <<day, since, people, suppressed, counted, total, paused, History>>

-------------------------------------------------------------------------------
(* mail_tick, hourly and whenever poll_gates asks *)

Fit(e) == people[e].status = "active" /\ people[e].due <= day

\* The mails that are due, as many as may go out today.  The order of the addresses is
\* left open; those that are suppressed are stopped as far as the loop comes.
BuildBatch ==
  LET due  == {e \in Emails : Fit(e) /\ ~Suppressed(e)}
      gone == {e \in Emails : Fit(e) /\ Suppressed(e)}
      room == RemainingToday
  IN /\ gate = None /\ ~Paused
     /\ \E es \in SUBSET due, stopped \in SUBSET gone :
          /\ Cardinality(es) = IF Cardinality(due) < room THEN Cardinality(due) ELSE room
          /\ Cardinality(due) < room => stopped = gone
          /\ people' = Stop(people, stopped)
          /\ gate' = IF es = {} THEN None
                     ELSE [state |-> "PENDING", batch |-> {<<e, people[e].step>> : e \in es}]
     /\ UNCHANGED <<day, since, suppressed, counted, total, paused, History>>

\* A batch that was approved and may not go out is dropped, as one that was not approved.
Pause ==
  /\ Paused /\ (gate # None => gate.state = "APPROVED")
  /\ paused' = TRUE /\ gate' = None
  /\ UNCHANGED <<day, since, people, suppressed, counted, total, History>>

DropBatch ==
  /\ gate # None /\ gate.state \in {"HELD", "REJECTED"} /\ gate' = None
  /\ UNCHANGED <<day, since, people, suppressed, counted, total, paused, History>>

\* What follows from a mail: the next is due some days later, or it was the last.
Advance(p) ==
  IF p.step = Len(Delays) THEN [p EXCEPT !.status = "done", !.due = 0]
  ELSE [p EXCEPT !.step = @ + 1, !.due = day + Delays[p.step + 1]]

\* Mails go out to es, of those of the batch the engine looks at.
Deliver(es, stopped) ==
  /\ people' = [e \in Emails |-> IF e \in es THEN Advance(people[e]) ELSE Stop(people, stopped)[e]]
  /\ mailed' = [e \in Emails |->
                  IF e \in es THEN Append(mailed[e], (CHOOSE m \in gate.batch : m[1] = e)[2])
                  ELSE mailed[e]]
  /\ gate' = None

InBatch == {m[1] : m \in gate.batch}
ToMail == {e \in InBatch : people[e].status = "active" /\ ~Suppressed(e)}
ToStop == {e \in InBatch : people[e].status = "active" /\ Suppressed(e)}
Ready == gate # None /\ gate.state = "APPROVED" /\ ~Paused

\* Mutant: who opted out since the batch was built is not looked for again.
SendBatch_Unchecked ==
  /\ Ready /\ Deliver(InBatch, {})
  /\ counted' = counted + Cardinality(InBatch) /\ total' = total + Cardinality(InBatch)
  /\ today' = today + Cardinality(InBatch)
  /\ UNCHANGED <<day, since, suppressed, paused, broken, left, lost>>

SendBatch ==
  /\ Ready /\ Deliver(ToMail, ToStop)
  /\ counted' = counted + Cardinality(ToMail) /\ total' = total + Cardinality(ToMail)
  /\ today' = today + Cardinality(ToMail)
  /\ UNCHANGED <<day, since, suppressed, paused, broken, left, lost>>

\* The mail service fails on one of them, which may have gone out: those before it have,
\* and none is counted.  Bound: a mail is lost this way once for each address.
SendBreaksOff ==
  /\ Ready
  /\ \E x \in ToMail, es \in SUBSET ToMail, stopped \in SUBSET ToStop, out \in BOOLEAN :
       /\ x \notin es /\ (out => x \notin lost)
       /\ Deliver(es, stopped)
       /\ lost' = IF out THEN lost \cup {x} ELSE lost
       /\ today' = today + Cardinality(es) + (IF out THEN 1 ELSE 0)
  /\ broken' = TRUE
  /\ UNCHANGED <<day, since, suppressed, counted, total, paused, left>>

-------------------------------------------------------------------------------
NextDay ==
  /\ day < MaxDay /\ day' = day + 1
  /\ counted' = 0 /\ today' = 0 /\ broken' = FALSE
  /\ UNCHANGED <<since, people, suppressed, gate, total, paused, mailed, left, lost>>

\* The process is started again, and knows nothing.  Bound: once a day.
Restart ==
  /\ since # day /\ since' = day
  /\ people' = [e \in Emails |-> Nobody] /\ suppressed' = [e \in Emails |-> None]
  /\ gate' = None /\ counted' = 0 /\ total' = 0 /\ paused' = FALSE
  /\ broken' = TRUE
  /\ lost' = lost \cup left \cup {e \in Emails : mailed[e] # <<>>}
  /\ UNCHANGED <<day, mailed, today, left>>

QInit ==
  /\ day = 0 /\ since = 0 /\ gate = None
  /\ people = [e \in Emails |-> Nobody] /\ suppressed = [e \in Emails |-> None]
  /\ counted = 0 /\ total = 0 /\ paused = FALSE
  /\ mailed = [e \in Emails |-> <<>>] /\ today = 0 /\ broken = FALSE
  /\ left = {} /\ lost = {}

QNext ==
  \/ \E e \in Emails :
       \/ Enroll(e) \/ SuppressByHand(e)
       \/ \E kind \in {"unsubscribe", "out_of_office", "other"} : Reply(e, kind)
       \/ \E reason \in Reasons : Report(e, reason)
  \/ \E state \in {"APPROVED", "HELD", "REJECTED"} : Decide(state)
  \/ Resume \/ BuildBatch \/ Pause \/ DropBatch \/ SendBatch \/ SendBreaksOff
  \/ NextDay \/ Restart

QSpec == QInit /\ [][QNext]_qvars

-------------------------------------------------------------------------------
(* Properties *)

\* Each address gets the mails of the sequence one after the other, none twice, however
\* batches are held, dropped and built again; unless a mail went out that the service did
\* not confirm, or the process was started again.
EachMailOnce ==
  \A e \in Emails \ lost : \A i \in DOMAIN mailed[e] : mailed[e][i] = i - 1

\* No more mails go out in a day than the warm-up allows, although a batch may be approved
\* days after it was built; unless sending broke off on that day.
DailyCap == today <= WarmupCap \/ broken

\* Who answered, opted out, complained, bounced, or was entered by hand, after the batch
\* was built too, gets no mail any more; while complaints are above the limit nobody does.
LeftAlone ==
  \A e \in Emails : mailed'[e] # mailed[e] /\ e \notin lost =>
    e \notin left /\ ~TooManyComplaints

\* An address that is not lost has got the mails before its step, a batch that waits has
\* the step of each of its addresses and room in the day, and who left is not on the way.
SequenceInv ==
  \A e \in Emails \ lost :
    /\ people[e].status = "none" => mailed[e] = <<>>
    /\ people[e].status = "active" => Len(mailed[e]) = people[e].step

BatchInv ==
  gate # None =>
    /\ \A m \in gate.batch :
         /\ people[m[1]].status # "none"
         /\ people[m[1]].status = "active" => people[m[1]].step = m[2]
    /\ counted + Cardinality(InBatch) <= WarmupCap

CountInv == since <= day /\ (~broken => today = counted /\ counted <= WarmupCap)

LeftInv == \A e \in left \ lost : Suppressed(e) \/ people[e].status \notin {"none", "active"}
===============================================================================
