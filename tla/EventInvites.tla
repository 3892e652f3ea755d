----------------------------- MODULE EventInvites -----------------------------
(***************************************************************************)
(* Invitations that the server mails at their time                         *)
(* (internal/service/event_invite_service.go over the table event_invite): *)
(* the requests that schedule and cancel them, and the one scheduler,      *)
(* which lists what is due once a minute, mails one after the other and    *)
(* saves the outcome of each as a whole row.                               *)
(*                                                                         *)
(* The scheduler runs only where SMTP is configured.  The invitations here *)
(* are those of one event; a time is a number of minutes.                  *)
(***************************************************************************)
EXTENDS Naturals, FiniteSets

CONSTANTS
    Invites,    \* ids of invitations (fresh uuids)
    Limit,      \* how many invitations a sweep takes
    MaxTime,    \* bound: the clock
    MaxFaults,  \* bound: crashes and saves that fail
    None        \* no row, no invitation

InvitesAssumption ==
    /\ Limit \in Nat \ {0} /\ MaxTime \in Nat /\ MaxFaults \in Nat
    /\ None \notin Invites \cup [status: {"pending", "sent", "failed"}, at: 0 .. MaxTime]

Row == [status: {"pending", "sent", "failed"}, at: 0 .. MaxTime]

VARIABLES
    event,    \* the event still exists
    row,      \* the table event_invite
    now,      \* the clock
    batch,    \* invitations that the sweep has listed and not yet mailed
    when,     \* the times it has listed them with
    outcome,  \* the invitation just mailed, or refused, whose row is to be saved
    cancels,  \* cancellations that have found their invitation pending
    mails,    \* history: how often each invitation was mailed
    slips,    \* history: mails of which no row tells
    clear,    \* history: invitations that were cancelled while no sweep held them
    faults    \* crashes and failed saves so far

vars == <<event, row, now, batch, when, outcome, cancels, mails, slips, clear, faults>>

NoOutcome == [invite |-> None, status |-> "pending"]

-----------------------------------------------------------------------------

\* Mutant: what was refused once is tried again.
DueUnlessSent(i) == row[i] # None /\ row[i].status # "sent" /\ row[i].at <= now

Due(i) == row[i] # None /\ row[i].status = "pending" /\ row[i].at <= now

Swept(B) ==
    /\ B \subseteq {i \in Invites : Due(i)}
    /\ Cardinality(B) <= Limit
    /\ \A j \in Invites \ B :
        Due(j) => Cardinality(B) = Limit /\ \A i \in B : row[i].at <= row[j].at

\* A time that has passed becomes the present one.
Schedule(i, t) ==
    /\ event /\ row[i] = None /\ mails[i] = 0 /\ i \notin clear \cup batch \cup cancels
    /\ row' = [row EXCEPT ![i] = [status |-> "pending", at |-> IF t < now THEN now ELSE t]]
    /\ UNCHANGED <<event, now, batch, when, outcome, cancels, mails, slips, clear, faults>>

CancelReads(i) ==
    /\ row[i] # None /\ row[i].status = "pending" /\ i \notin cancels
    /\ cancels' = cancels \cup {i}
    /\ UNCHANGED <<event, row, now, batch, when, outcome, mails, slips, clear, faults>>

\* Mutant: the answer comes without the deletion.
LeavesRow(i) == row

WithoutRow(i) == [row EXCEPT ![i] = None]

\* The row is deleted, whatever has become of it.
CancelDeletes(i) ==
    /\ i \in cancels /\ cancels' = cancels \ {i}
    /\ row' = WithoutRow(i)
    /\ clear' = IF i \in batch \/ outcome.invite = i THEN clear ELSE clear \cup {i}
    /\ UNCHANGED <<event, now, batch, when, outcome, mails, slips, faults>>

\* The event is deleted, and its invitations with it.
DeleteEvent ==
    /\ event /\ event' = FALSE
    /\ row' = [i \in Invites |-> None]
    /\ UNCHANGED <<now, batch, when, outcome, cancels, mails, slips, clear, faults>>

-----------------------------------------------------------------------------
(* The scheduler *)

Idle == batch = {} /\ outcome = NoOutcome

Sweep(B) ==
    /\ Idle /\ B # {} /\ Swept(B)
    /\ batch' = B
    /\ when' = [i \in Invites |-> IF i \in B THEN row[i].at ELSE 0]
    /\ UNCHANGED <<event, row, now, outcome, cancels, mails, slips, clear, faults>>

\* The invitations are mailed in the order of their times.
Takes(i) ==
    /\ i \in batch /\ outcome = NoOutcome /\ \A j \in batch : when[i] <= when[j]
    /\ batch' = batch \ {i}
    /\ UNCHANGED <<event, row, now, when, cancels, slips, clear, faults>>

Mailed(i, status) ==
    /\ Takes(i)
    /\ mails' = [mails EXCEPT ![i] = @ + 1]
    /\ outcome' = [invite |-> i, status |-> status]

\* The mail server takes the mail; it may still end the session with an error.
Mail(i) == Mailed(i, "sent") \/ Mailed(i, "failed")

MailRefused(i) ==
    /\ Takes(i)
    /\ outcome' = [invite |-> i, status |-> "failed"] /\ mails' = mails

\* Mutant: the row of a refused mail is left pending, for the next sweep.
SavedPending == [status |-> IF outcome.status = "sent" THEN "sent" ELSE "pending", at |-> when[outcome.invite]]

Saved == [status |-> outcome.status, at |-> when[outcome.invite]]

\* GORM's Save: a row that was deleted is inserted again, unless its event is gone.
Save ==
    /\ outcome # NoOutcome /\ outcome' = NoOutcome
    /\ row' = IF event THEN [row EXCEPT ![outcome.invite] = Saved] ELSE row
    /\ UNCHANGED <<event, now, batch, when, cancels, mails, slips, clear, faults>>

Slip ==
    /\ faults < MaxFaults /\ faults' = faults + 1
    /\ slips' = IF outcome # NoOutcome THEN [slips EXCEPT ![outcome.invite] = @ + 1] ELSE slips
    /\ outcome' = NoOutcome

SaveFails ==
    /\ outcome # NoOutcome /\ Slip
    /\ UNCHANGED <<event, row, now, batch, when, cancels, mails, clear>>

\* The API restarts: the sweep and the cancellations under way are gone.
Crash ==
    /\ Slip /\ batch' = {} /\ cancels' = {}
    /\ UNCHANGED <<event, row, now, when, mails, clear>>

Tick ==
    /\ now < MaxTime /\ now' = now + 1
    /\ UNCHANGED <<event, row, batch, when, outcome, cancels, mails, slips, clear, faults>>

-----------------------------------------------------------------------------

Init ==
    /\ event = TRUE /\ row = [i \in Invites |-> None] /\ now = 0
    /\ batch = {} /\ when = [i \in Invites |-> 0] /\ outcome = NoOutcome /\ cancels = {}
    /\ mails = [i \in Invites |-> 0] /\ slips = [i \in Invites |-> 0] /\ clear = {} /\ faults = 0

\* What the scheduler does by itself, as often as its ticker says.
Dispatches ==
    \/ \E B \in SUBSET Invites : Sweep(B)
    \/ Save \/ SaveFails

\* Its one goroutine dials the mail server and talks to it without a deadline: these
\* steps need not come.
AtServer == batch # {} /\ outcome = NoOutcome

Next ==
    \/ \E i \in Invites : CancelReads(i) \/ CancelDeletes(i)
    \/ \E i \in Invites, t \in 0 .. MaxTime : Schedule(i, t)
    \/ Dispatches
    \/ \E i \in Invites : Mail(i) \/ MailRefused(i)
    \/ DeleteEvent \/ Crash \/ Tick

Spec == Init /\ [][Next]_vars

-----------------------------------------------------------------------------
(* Properties *)

TypeOK ==
    /\ event \in BOOLEAN /\ row \in [Invites -> Row \cup {None}] /\ now \in 0 .. MaxTime
    /\ batch \subseteq Invites /\ when \in [Invites -> 0 .. MaxTime]
    /\ outcome \in [invite: Invites \cup {None}, status: {"pending", "sent", "failed"}]
    /\ cancels \subseteq Invites /\ clear \subseteq Invites
    /\ mails \in [Invites -> Nat] /\ slips \in [Invites -> Nat] /\ faults \in 0 .. MaxFaults

\* An invitation is mailed once, and once more for every crash or failed save
\* that came between a mail and its row.
MailedAgainForACause == \A i \in Invites : mails[i] <= 1 + slips[i]

\* An invitation that is cancelled while no sweep holds it is not mailed afterwards.
CancelStopsTheMail == \A i \in clear : mails'[i] = mails[i]

\* An invitation whose time has come.
Awaits(i) == Due(i)
=============================================================================
