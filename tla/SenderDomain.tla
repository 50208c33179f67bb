------------------------------ MODULE SenderDomain ------------------------------
(* The address a brand sends from, as routes_senders.py keeps it: registered, verified *)
(* by a code, active once its domain has its DNS records, paused when its reputation   *)
(* falls and resumed by a person.  Each call reads the state without a lock and writes *)
(* it without a condition, so what a call writes is decided by what it read.           *)
EXTENDS Naturals

CONSTANTS
  Calls,   \* bound: calls at a time
  None

VARIABLES
  demo,        \* CONNECTION_DEMO: the DNS check passes; without it, it does not yet
  state,       \* brand_senders.state
  code,        \* verify_code is kept
  warm,        \* warmup_started_at is set
  call,        \* the calls under way and the state they read
  stopped,     \* history: the last of pausing and resuming was a pause
  overlapped   \* history: a call read while another was under way

wvars == <<demo, state, code, warm, call, stopped, overlapped>>

States == {"none", "unverified", "dns_pending", "active", "paused"}
Operations == {"verify", "dns", "good_stats", "bad_stats", "resume"}

TypeOK ==
  /\ demo \in BOOLEAN /\ code \in BOOLEAN /\ warm \in BOOLEAN
  /\ state \in States
  /\ call \in [Calls -> [op : Operations, saw : States] \cup {None}]
  /\ stopped \in BOOLEAN /\ overlapped \in BOOLEAN

-------------------------------------------------------------------------------
Register ==
  /\ state = "none"
  /\ state' = "unverified" /\ code' = TRUE
  /\ UNCHANGED <<demo, warm, call, stopped, overlapped>>

\* What a call has to read in order to go on to its write.
Admitted(op) ==
  \/ op = "verify" /\ state = "unverified" /\ code
  \/ op = "dns" /\ state = "dns_pending" /\ demo
  \/ op \in {"good_stats", "bad_stats"} /\ state # "none"
  \/ op = "resume" /\ state = "paused"

Read(k, op) ==
  /\ call[k] = None /\ Admitted(op)
  /\ call' = [call EXCEPT ![k] = [op |-> op, saw |-> state]]
  /\ overlapped' = (overlapped \/ \E x \in Calls : call[x] # None)
  /\ UNCHANGED <<demo, state, code, warm, stopped>>

Doing(k, op) ==
  /\ call[k] # None /\ call[k].op = op
  /\ call' = [call EXCEPT ![k] = None]

Verify(k) ==
  /\ Doing(k, "verify")
  /\ state' = "dns_pending" /\ code' = FALSE
  /\ UNCHANGED <<demo, warm, stopped, overlapped>>

CheckDns(k) ==
  /\ Doing(k, "dns")
  /\ state' = "active" /\ warm' = TRUE
  /\ UNCHANGED <<demo, code, stopped, overlapped>>

\* report_stats writes the figures, and with them the state it read.
ReportGood(k) ==
  /\ Doing(k, "good_stats")
  /\ state' = call[k].saw
  /\ UNCHANGED <<demo, code, warm, stopped, overlapped>>

ReportBad(k) ==
  /\ Doing(k, "bad_stats")
  /\ state' = IF call[k].saw = "active" THEN "paused" ELSE call[k].saw
  /\ stopped' = (stopped \/ call[k].saw \in {"active", "paused"})
  /\ UNCHANGED <<demo, code, warm, overlapped>>

Resume(k) ==
  /\ Doing(k, "resume")
  /\ state' = "active" /\ stopped' = FALSE
  /\ UNCHANGED <<demo, code, warm, overlapped>>

\* A call ends before its commit.
Abort(k) ==
  /\ call[k] # None
  /\ call' = [call EXCEPT ![k] = None]
  /\ UNCHANGED <<demo, state, code, warm, stopped, overlapped>>

-------------------------------------------------------------------------------
WInit ==
  /\ demo \in BOOLEAN /\ state = "none" /\ code = FALSE /\ warm = FALSE
  /\ call = [k \in Calls |-> None] /\ stopped = FALSE /\ overlapped = FALSE

WNext ==
  \/ Register
  \/ \E k \in Calls :
       \/ \E op \in Operations : Read(k, op)
       \/ Verify(k) \/ CheckDns(k) \/ ReportGood(k) \/ ReportBad(k) \/ Resume(k) \/ Abort(k)

WSpec == WInit /\ [][WNext]_wvars

-------------------------------------------------------------------------------
(* Properties *)

\* An address that was paused does not send until a person resumes it, and one that was
\* resumed is not paused by an old report, unless calls overlapped.
PausedUntilResumed == ~overlapped => (state = "paused") = stopped

\* An address that waits for its code can still be verified, unless calls overlapped: a
\* report that read it before puts it back behind a code that was used, for good, since the
\* address cannot be registered again.
CodeIsKept == ~overlapped => (state = "unverified") = code

\* Whatever overlaps, an address is active only after its domain was checked: the number of
\* mails per day counts from there.
ActiveIsWarm == state \in {"active", "paused"} => warm

\* What makes the properties inductive: a call goes on only from what admitted it; and until
\* two overlap there is one, and it read the state as it is.
CallsInv ==
  /\ \A k \in Calls : call[k] # None =>
       /\ call[k].op = "verify" => call[k].saw = "unverified"
       /\ call[k].op = "dns" => call[k].saw = "dns_pending"
       /\ call[k].op = "resume" => call[k].saw = "paused"
       /\ call[k].saw # "none"
       /\ call[k].saw \in {"active", "paused"} => warm
       /\ ~overlapped => call[k].saw = state
  /\ ~overlapped => \A j, k \in Calls : call[j] # None /\ call[k] # None => j = k
===============================================================================
