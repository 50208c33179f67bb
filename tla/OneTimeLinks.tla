------------------------------ MODULE OneTimeLinks ------------------------------
(* The links that are mailed to people (routes_auth.py, auth.py): a brand's invitation,  *)
(* a creator's sign-in link and the link to a new password.  Requests overlap, their     *)
(* transactions see what others committed, and every one of them begins at some time,    *)
(* which is now() in all of it.  Nothing in the code disables an account.                *)
EXTENDS Naturals, Sequences, FiniteSets

CONSTANTS
  Addresses,
  Calls,      \* bound: requests at once
  MailLimit,  \* RESET_EMAIL_LIMIT
  PeerLimit,  \* RESET_IP_LIMIT: all the requests here come from one address
  Window,     \* RESET_WINDOW_MIN
  Ttl,        \* how long a link of each kind is valid
  MaxTime,    \* bound: the clock
  MaxLinks,   \* bound: links
  None

VARIABLES
  now,
  account,  \* users, by address
  links,    \* auth_tokens that reached somebody, in the order they were made
  rows,     \* password_reset_requests
  call,
  session   \* a session of each account that was issued some time ago

lvars == <<now, account, links, rows, call, session>>

Times == 0..MaxTime
Kinds == {"brand", "creator", "admin"}
Means == {"invite", "magic", "reset"}
ForKind == [invite |-> {"brand"}, magic |-> {"creator"}, reset |-> {"brand", "admin"}]

\* epoch: session_epoch.
Account == [kind : Kinds, password : BOOLEAN, epoch : Nat]
Link == [means : Means, to : Addresses, until : Nat, used : BOOLEAN]
\* mailed (history): it was answered by a mail.
Row == [id : Nat, to : Addresses, at : Times, mailed : BOOLEAN]
\* at: when its transaction began; found: the account it read; mine: the requests it counted.
Call == [means : Means, to : Addresses, at : Times, step : {"begun", "read", "locked"},
         found : BOOLEAN, mine : Nat]
\* set (history): the password was set since by a link of these kinds.
Sessions == [epoch : Nat, set : SUBSET {"invite", "reset"}]

TypeOK ==
  /\ now \in Times
  /\ account \in [Addresses -> Account \cup {None}]
  /\ links \in Seq(Link) /\ Len(links) <= MaxLinks
  /\ rows \subseteq Row /\ IsFiniteSet(rows)
  /\ call \in [Calls -> Call \cup {None}]
  /\ session \in [Addresses -> Sessions \cup {None}]

At(i, step) == call[i] # None /\ call[i].step = step
Since(t) == {u \in Times : u + Window > t}
Made(times) == {r \in rows : r.at \in times}
Of(a, times) == {r \in Made(times) : r.to = a}

-------------------------------------------------------------------------------
(* Requests *)

\* invite_brand and magic_request read the account of the address: that of another kind is
\* refused.
Begin(i, a, means) ==
  /\ call[i] = None /\ Len(links) < MaxLinks
  /\ account[a] # None /\ means # "reset" => account[a].kind \in ForKind[means]
  /\ call' = [call EXCEPT ![i] =
       [means |-> means, to |-> a, at |-> now, step |-> IF means = "reset" THEN "begun" ELSE "read",
        found |-> account[a] # None, mine |-> 0]]
  /\ UNCHANGED <<now, account, links, rows, session>>

\* The link, when it reaches somebody: an invitation that cannot be mailed is in the answer.
Issued(i) ==
  Append(links, [means |-> call[i].means, to |-> call[i].to,
                 until |-> call[i].at + Ttl[call[i].means], used |-> FALSE])

\* They make the account that was not there, and the link.  The address is unique: who made
\* the account in between has it.
MakeLink(i, sent) ==
  /\ At(i, "read") /\ Len(links) < MaxLinks
  /\ LET a == call[i].to
         clash == ~call[i].found /\ account[a] # None
     IN  /\ account' = IF call[i].found \/ clash THEN account
                       ELSE [account EXCEPT ![a] =
                              [kind |-> IF call[i].means = "invite" THEN "brand" ELSE "creator",
                               password |-> FALSE, epoch |-> 0]]
         /\ links' = IF ~clash /\ (sent \/ call[i].means = "invite") THEN Issued(i) ELSE links
  /\ call' = [call EXCEPT ![i] = None]
  /\ UNCHANGED <<now, rows, session>>

Counted(i) ==
  [call[i] EXCEPT !.step = "locked",
                  !.mine = Cardinality(Of(call[i].to, Since(call[i].at))) + 1]

\* reset_request takes the locks of the address and of the peer, in one order, and counts.
LockReset(i) ==
  /\ At(i, "begun")
  /\ \A j \in Calls : ~At(j, "locked")
  /\ LET peers == Cardinality(Made(Since(call[i].at)))
     IN  call' = [call EXCEPT ![i] = IF peers >= PeerLimit THEN None ELSE Counted(i)]
  /\ UNCHANGED <<now, account, links, rows, session>>

Eligible(i) ==
  LET a == call[i].to
  IN  /\ account[a] # None /\ account[a].kind \in ForKind["reset"]
      /\ call[i].mine <= MailLimit

\* The rows are numbered as they are committed.
Recorded(i) ==
  [id |-> Cardinality(rows) + 1, to |-> call[i].to, at |-> call[i].at, mailed |-> Eligible(i)]

\* The request is recorded in any case, and answered the same whoever the address belongs to.
CommitReset(i, sent) ==
  /\ At(i, "locked") /\ Len(links) < MaxLinks
  /\ rows' = rows \cup {Recorded(i)}
  /\ links' = IF Eligible(i) /\ sent THEN Issued(i) ELSE links
  /\ call' = [call EXCEPT ![i] = None]
  /\ UNCHANGED <<now, account, session>>

-------------------------------------------------------------------------------
(* Links *)

\* consume_token: one statement looks and marks; a refusal after it takes the mark back.
Valid(k, means) ==
  /\ k \in DOMAIN links
  /\ links[k].means = means /\ ~links[k].used /\ now < links[k].until
Consumed(k) == [links EXCEPT ![k].used = TRUE]

Owner(k) == account[links[k].to]

SetBy(a, means) ==
  IF session[a] = None THEN None ELSE [session[a] EXCEPT !.set = @ \cup {means}]

\* _issue: the new session, or the one that was there, is followed further.
Issue(a, old) ==
  \E s \in {old, [epoch |-> account[a].epoch, set |-> {}]} \ {None} :
    session' = [session EXCEPT ![a] = s]

\* accept_invite sets the password, also of an account that had one, and signs in.
AcceptInvite(k) ==
  /\ Valid(k, "invite") /\ Owner(k).kind = "brand"
  /\ links' = Consumed(k)
  /\ account' = [account EXCEPT ![links[k].to].password = TRUE]
  /\ Issue(links[k].to, SetBy(links[k].to, "invite"))
  /\ UNCHANGED <<now, rows, call>>

MagicVerify(k) ==
  /\ Valid(k, "magic")
  /\ links' = Consumed(k)
  /\ Issue(links[k].to, session[links[k].to])
  /\ UNCHANGED <<now, account, rows, call>>

NewPassword(a) == [account[a] EXCEPT !.password = TRUE, !.epoch = @ + 1]

\* reset_confirm sets the password and ends every session; it signs nobody in.
ResetConfirm(k) ==
  /\ Valid(k, "reset") /\ Owner(k).kind \in {"brand", "admin"}
  /\ links' = Consumed(k)
  /\ account' = [account EXCEPT ![links[k].to] = NewPassword(links[k].to)]
  /\ session' = [session EXCEPT ![links[k].to] = SetBy(links[k].to, "reset")]
  /\ UNCHANGED <<now, rows, call>>

-------------------------------------------------------------------------------
\* login, with the password that is set.
Login(a) ==
  /\ account[a] # None /\ account[a].password
  /\ Issue(a, None)
  /\ UNCHANGED <<now, account, links, rows, call>>

Tick ==
  /\ now < MaxTime /\ now' = now + 1
  /\ UNCHANGED <<account, links, rows, call, session>>

\* There may be an administrator, who signs in with a password.
LInit ==
  /\ now = 0
  /\ account \in [Addresses -> {None, [kind |-> "admin", password |-> TRUE, epoch |-> 0]}]
  /\ links = <<>>
  /\ rows = {}
  /\ call = [i \in Calls |-> None]
  /\ session = [a \in Addresses |-> None]

LNext ==
  \/ \E i \in Calls :
       \/ \E a \in Addresses, m \in Means : Begin(i, a, m)
       \/ LockReset(i)
       \/ \E sent \in BOOLEAN : MakeLink(i, sent) \/ CommitReset(i, sent)
  \/ \E k \in DOMAIN links : AcceptInvite(k) \/ MagicVerify(k) \/ ResetConfirm(k)
  \/ \E a \in Addresses : Login(a)
  \/ Tick

-------------------------------------------------------------------------------
\* A link fits the account it was mailed to, whoever else asked for the address at the same
\* time (routes_auth.py:203): an invitation is of a brand's account, a sign-in link of a
\* creator's, and who signs in with no password never has one set.
LinksFitTheAccount ==
  /\ \A k \in DOMAIN links : account[links[k].to].kind \in ForKind[links[k].means]
  /\ \A a \in Addresses : account[a] # None /\ account[a].kind = "creator" => ~account[a].password

Mailed(a, t) == {r \in Of(a, Since(t) \cap 0..t) : r.mailed}

\* However requests overlap, an address is mailed no more links to a new password than its
\* limit, and a peer asks for no more than its own, in the time of the window
\* (routes_auth.py:339).
ResetsAreLimited ==
  \A t \in Times :
    /\ \A a \in Addresses : Cardinality(Mailed(a, t)) <= MailLimit
    /\ Cardinality(Made(Since(t) \cap 0..t)) <= PeerLimit

\* A session that is still good is no older than the last reset of the password
\* (routes_auth.py:421); one by an invitation does not end it.
ResetEndsSessions ==
  \A a \in Addresses : session[a] # None /\ session[a].epoch = account[a].epoch =>
    "reset" \notin session[a].set
\* What the properties rest on.  A request that was read is of an account that fits it, and
\* of the requests for a new password one holds the locks, and counted what is there.
CallsInv ==
  \A i \in Calls : call[i] # None =>
    /\ call[i].means = "reset" <=> call[i].step # "read"
    /\ call[i].step = "read" /\ call[i].found =>
         /\ account[call[i].to] # None
         /\ account[call[i].to].kind \in ForKind[call[i].means]
HasCounted(i) ==
  /\ Cardinality(Made(Since(call[i].at))) < PeerLimit
  /\ call[i].mine = Cardinality(Of(call[i].to, Since(call[i].at))) + 1
LocksInv ==
  /\ \A i, j \in Calls : At(i, "locked") /\ At(j, "locked") => i = j
  /\ \A i \in Calls : At(i, "locked") => HasCounted(i)
RowsInv == \A r \in rows : r.id <= Cardinality(rows)
\* The account of a link is there, a session is no newer than its account, and one from
\* before a reset is older.
OwnersInv ==
  /\ \A k \in DOMAIN links : account[links[k].to] # None
  /\ \A a \in Addresses : session[a] # None =>
       /\ account[a] # None /\ session[a].epoch <= account[a].epoch
       /\ "reset" \in session[a].set => session[a].epoch < account[a].epoch
===============================================================================
