-------------------------------- MODULE Dispatch --------------------------------
(* Batches of sample invitations and the gate each waits for.  A batch takes creators  *)
(* the brand has not invited for 90 days; an approver decides its gate in the console; *)
(* the decision reaches the batch when somebody reads the batch the next time, and is  *)
(* then written without a look at what another reader has written.  Results of the     *)
(* shop are imported into any batch.                                                   *)
EXTENDS Naturals

CONSTANTS
  Batches,
  Creators,
  Readers,   \* bound: reads of a batch at a time
  None

VARIABLES
  gate,       \* gate_requests.state of a batch's gate
  batch,      \* dispatch_batches.state
  rows,       \* dispatches.state: "later" is whatever an import brought
  invited,    \* dispatches.invited_at, by whether it is within the ban
  reader,     \* the reads of a batch under way
  approvals,  \* entries DISPATCH_BATCH_APPROVED of the ledger
  after,      \* history: the batches that had invited somebody when this one was made
  raced       \* history: the batch was read while another read of it was under way

kvars == <<gate, batch, rows, invited, reader, approvals, after, raced>>

Gates == {"none", "PENDING", "HELD", "APPROVED", "REJECTED"}

TypeOK ==
  /\ gate \in [Batches -> Gates]
  /\ batch \in [Batches -> {"none", "PENDING_GATE", "SENDING", "HELD"}]
  /\ rows \in [Batches -> [Creators -> {"none", "DRAFT", "INVITED", "later"}]]
  /\ invited \in [Batches -> [Creators -> {"never", "recently", "before"}]]
  /\ reader \in [Readers -> [batch : Batches, saw : Gates \cup {None}] \cup {None}]
  /\ approvals \in [Batches -> Nat]
  /\ after \in [Batches -> SUBSET Batches]
  /\ raced \subseteq Batches

Banned(c) == \E b \in Batches : invited[b][c] = "recently"

-------------------------------------------------------------------------------
\* create_batch: the targets pass the brand's filter and the ban; the gate is asked for.
Create(b, targets) ==
  /\ batch[b] = "none" /\ targets # {}
  /\ \A c \in targets : ~Banned(c)
  /\ batch' = [batch EXCEPT ![b] = "PENDING_GATE"]
  /\ gate' = [gate EXCEPT ![b] = "PENDING"]
  /\ rows' = [rows EXCEPT ![b] = [c \in Creators |-> IF c \in targets THEN "DRAFT" ELSE "none"]]
  /\ after' = [after EXCEPT ![b] = {x \in Batches : \E c \in Creators : invited[x][c] = "recently"}]
  /\ UNCHANGED <<invited, reader, approvals, raced>>

\* approve_gate, hold_gate, reject_gate: the row is locked; what is held may be decided again.
Decide(b, state) ==
  /\ gate[b] \in {"PENDING", "HELD"}
  /\ gate' = [gate EXCEPT ![b] = state]
  /\ UNCHANGED <<batch, rows, invited, reader, approvals, after, raced>>

\* import_results: any row of any batch, whatever its state.
Import(b, c) ==
  /\ rows[b][c] # "none"
  /\ rows' = [rows EXCEPT ![b][c] = "later"]
  /\ UNCHANGED <<gate, batch, invited, reader, approvals, after, raced>>

\* The ban ends 90 days after the last invitation.
Age ==
  /\ invited' = [b \in Batches |-> [c \in Creators |->
                   IF invited[b][c] = "recently" THEN "before" ELSE invited[b][c]]]
  /\ UNCHANGED <<gate, batch, rows, reader, approvals, after, raced>>

-------------------------------------------------------------------------------
(* _sync_gate, by get_batch and export_csv: two reads, then the writes, in one          *)
(* transaction that locks no row before it writes.                                       *)

SyncReads(r, b) ==
  /\ reader[r] = None /\ batch[b] = "PENDING_GATE"
  /\ reader' = [reader EXCEPT ![r] = [batch |-> b, saw |-> None]]
  /\ raced' = IF \E x \in Readers : reader[x] # None /\ reader[x].batch = b THEN raced \cup {b} ELSE raced
  /\ UNCHANGED <<gate, batch, rows, invited, approvals, after>>

SyncLooks(r) ==
  /\ reader[r] # None /\ reader[r].saw = None
  /\ reader' = [reader EXCEPT ![r] =
                  IF gate[reader[r].batch] = "PENDING" THEN None ELSE [@ EXCEPT !.saw = gate[reader[r].batch]]]
  /\ UNCHANGED <<gate, batch, rows, invited, approvals, after, raced>>

\* Mutant: the invitations go out whatever the gate said.
Reached_Anyhow(b, saw) == {c \in Creators : rows[b][c] = "DRAFT"}

Reached(b, saw) == {c \in Creators : saw = "APPROVED" /\ rows[b][c] = "DRAFT"}

SyncWrites(r) ==
  /\ reader[r] # None /\ reader[r].saw # None
  /\ LET b == reader[r].batch
         approved == reader[r].saw = "APPROVED"
         reached == Reached(b, reader[r].saw)
     IN  /\ batch' = [batch EXCEPT ![b] = IF approved THEN "SENDING" ELSE "HELD"]
         /\ rows' = [rows EXCEPT ![b] = [c \in Creators |-> IF c \in reached THEN "INVITED" ELSE @[c]]]
         /\ invited' = [invited EXCEPT ![b] = [c \in Creators |-> IF c \in reached THEN "recently" ELSE @[c]]]
         /\ approvals' = [approvals EXCEPT ![b] = IF approved THEN @ + 1 ELSE @]
  /\ reader' = [reader EXCEPT ![r] = None]
  /\ UNCHANGED <<gate, after, raced>>

-------------------------------------------------------------------------------
KInit ==
  /\ gate = [b \in Batches |-> "none"]
  /\ batch = [b \in Batches |-> "none"]
  /\ rows = [b \in Batches |-> [c \in Creators |-> "none"]]
  /\ invited = [b \in Batches |-> [c \in Creators |-> "never"]]
  /\ reader = [r \in Readers |-> None]
  /\ approvals = [b \in Batches |-> 0]
  /\ after = [b \in Batches |-> {}]
  /\ raced = {}

KNext ==
  \/ \E b \in Batches :
       \/ \E targets \in SUBSET Creators : Create(b, targets)
       \/ \E state \in {"APPROVED", "HELD", "REJECTED"} : Decide(b, state)
       \/ \E c \in Creators : Import(b, c)
  \/ Age
  \/ \E r \in Readers : SyncLooks(r) \/ SyncWrites(r) \/ \E b \in Batches : SyncReads(r, b)

KSpec == KInit /\ [][KNext]_kvars

-------------------------------------------------------------------------------
(* Properties *)

\* Nobody is invited before a person approved the batch, however late and however often the
\* decision is read: a gate that is approved stays approved.
InvitedAfterApproval ==
  \A b \in Batches : (\E c \in Creators : invited[b][c] # "never") => gate[b] = "APPROVED"

\* A creator whom two batches invited within 90 days was in both before either had invited:
\* the ban looks at invitations, and a batch that waits has made none.
RepeatOnlyWhenBothWaited ==
  \A b, x \in Batches : b # x /\ x \in after[b] =>
    \A c \in Creators : ~(invited[b][c] = "recently" /\ invited[x][c] = "recently")

\* A batch that stands as held has invited nobody, and an approval is told once, unless two
\* reads of the batch ran at a time: the later write is unconditional.
OneVerdict ==
  \A b \in Batches : b \notin raced =>
    /\ approvals[b] <= 1
    /\ batch[b] = "HELD" => \A c \in Creators : invited[b][c] = "never"

-------------------------------------------------------------------------------
(* The inductive invariant *)

\* NULL is no verdict.
Verdicts == None \notin Gates

\* A batch has a gate, and one that waits has told and invited nobody.
GateInv ==
  \A b \in Batches :
    /\ batch[b] = "none" <=> gate[b] = "none"
    /\ batch[b] \in {"none", "PENDING_GATE"} =>
         approvals[b] = 0 /\ \A c \in Creators : invited[b][c] = "never"

\* An approval that a reader saw is final; a lone reader finds the batch waiting.
ReaderInv ==
  \A r \in Readers : reader[r] # None =>
    LET b == reader[r].batch IN
      /\ batch[b] # "none"
      /\ reader[r].saw = "APPROVED" => gate[b] = "APPROVED"
      /\ b \notin raced =>
           /\ batch[b] = "PENDING_GATE"
           /\ \A q \in Readers : reader[q] # None /\ reader[q].batch = b => q = r

\* A batch invites its drafts all at once, and never again.
InvitedInv ==
  \A b \in Batches, c \in Creators : invited[b][c] # "never" =>
    /\ rows[b][c] # "none"
    /\ \A d \in Creators : rows[b][d] # "DRAFT"

\* Whom a batch may invite was not banned by those that had invited before it was made.
AfterInv ==
  \A b \in Batches : \A x \in after[b] :
    /\ \E c \in Creators : invited[x][c] # "never"
    /\ \A c \in Creators : rows[b][c] # "none" => invited[x][c] # "recently"

KInv == TypeOK /\ GateInv /\ ReaderInv /\ InvitedInv /\ AfterInv /\ InvitedAfterApproval /\ OneVerdict
===============================================================================
