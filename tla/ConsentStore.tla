------------------------------ MODULE ConsentStore ------------------------------
(* The consents of one creator in services/core (consent.py): granted, withdrawn, and the *)
(* withdrawal told to every subsystem that registered a hook.  A hook may fail: then the  *)
(* ones after it are not told, and everything that is sent out is to stop.                *)
EXTENDS Naturals, Sequences

CONSTANTS
  Brands,
  Hooks,      \* the number of hooks, called in order
  Ban,        \* RECONTACT_BAN_DAYS
  MaxDay,     \* bound: days
  MaxGrants,  \* bound: consents
  None

VARIABLES
  day,
  records,  \* _records, in the order they were granted
  ban,      \* _recontact_ban_until
  frozen,   \* outbound_frozen
  told      \* history: the records each hook was told of

cvars == <<day, records, ban, frozen, told>>

\* Of the consents to a brand, and of those to the platform (None), one kind of those that
\* are required, and the choice of cross-brand recommendations.
Kinds == {"required", "reco"}
Record == [kind : Kinds, brand : Brands \cup {None}, withdrawn : (0..MaxDay) \cup {None}]

TypeOK ==
  /\ day \in 0..MaxDay
  /\ records \in Seq(Record) /\ Len(records) <= MaxGrants
  /\ ban \in (0..MaxDay + Ban) \cup {None} /\ frozen \in BOOLEAN
  /\ told \in [1..Hooks -> SUBSET (1..MaxGrants)]

-------------------------------------------------------------------------------
Active(kind, b) == {i \in DOMAIN records :
  records[i].kind = kind /\ records[i].brand = b /\ records[i].withdrawn = None}

RecontactAllowed == ban = None \/ day >= ban

\* A consent that is there already is granted again as a record of its own.
Grant(kind, b) ==
  /\ Len(records) < MaxGrants /\ (kind = "reco" => b = None)
  /\ records' = Append(records, [kind |-> kind, brand |-> b, withdrawn |-> None])
  /\ UNCHANGED <<day, ban, frozen, told>>

\* withdraw ends the first that is active, and _propagate tells the hooks before fails, the
\* one that does (Hooks + 1: none); only when all went well is the ban set.
Withdraw(kind, b, fails) ==
  /\ \E i \in Active(kind, b) :
       /\ \A j \in Active(kind, b) : i <= j
       /\ records' = [records EXCEPT ![i].withdrawn = day]
       /\ told' = [h \in 1..Hooks |-> IF h < fails THEN told[h] \cup {i} ELSE told[h]]
  /\ frozen' = (frozen \/ fails <= Hooks)
  /\ ban' = IF fails <= Hooks THEN ban ELSE day + Ban
  /\ UNCHANGED day

NextDay ==
  /\ day < MaxDay /\ day' = day + 1
  /\ UNCHANGED <<records, ban, frozen, told>>

CInit ==
  /\ day = 0 /\ records = <<>> /\ ban = None /\ frozen = FALSE
  /\ told = [h \in 1..Hooks |-> {}]

CNext ==
  \/ \E k \in Kinds, b \in Brands \cup {None} :
       Grant(k, b) \/ (\E f \in 1..Hooks + 1 : Withdraw(k, b, f))
  \/ NextDay

-------------------------------------------------------------------------------
Ended == {i \in DOMAIN records : records[i].withdrawn # None}

\* A withdrawal reached every subsystem, and nobody writes to the creator for the days of the
\* ban, or everything that is sent out has stopped (consent.py:6).
WithdrawalIsFelt ==
  \/ frozen
  \/ /\ \A h \in 1..Hooks : told[h] = Ended
     /\ \A i \in Ended : day < records[i].withdrawn + Ban => ~RecontactAllowed

\* What makes it inductive: the ban outlasts that of every consent that ended, and none of them
\* ends later than today.
BanInv ==
  \A i \in Ended :
    /\ records[i].withdrawn <= day
    /\ ~frozen => ban # None /\ records[i].withdrawn + Ban <= ban
===============================================================================
