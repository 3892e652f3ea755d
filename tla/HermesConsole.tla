---------------------------- MODULE HermesConsole ----------------------------
(***************************************************************************)
(* The console of the AI agent: the card AgentConsole of the page          *)
(* apps/web/src/pages/settings/SettingsAiHermes.tsx, the session cookie of *)
(* the browser, and on the server                                          *)
(* internal/http/handlers/hermes_tui_handler.go over the tickets and the   *)
(* sessions that internal/hermestui keeps in memory.                       *)
(*                                                                         *)
(* A ticket is consumed once, so a session bears its ticket's name.  What  *)
(* a new tab shows is left out, and a session has one connection at most.  *)
(***************************************************************************)
EXTENDS Naturals, FiniteSets

CONSTANTS
    Tickets,    \* tickets, and the sessions they open: numbers, issued in order
    MaxFaults,  \* bound: restarts, and writes and requests that fail
    Bounds,     \* instances: the visits, presses, connections and faults of each
    None        \* no ticket, no session, no cookie

ConsoleAssumption ==
    /\ Tickets \subseteq Nat /\ None \notin Tickets /\ MaxFaults \in Nat
    /\ \A b \in Bounds :
        /\ b.visits \in Nat /\ b.presses \in Nat /\ b.conns \in Nat
        /\ b.faults \in 0 .. MaxFaults

VARIABLES
    view,     \* what the page shows; away is any other page
    frame,    \* the ticket in the page's iframe, or None
    visit,    \* visits so far; what an earlier one left under way changes no view
    cookie,   \* the session that the browser's cookie names, or None
    calls,    \* requests and answers under way
    life,     \* the tickets and the registry: where each ticket and its session are
    audit,    \* the rows of hermes_tui_session
    ending,   \* closed sessions whose end is being written
    unended,  \* history: sessions whose end will never be written
    conn,     \* the connections: none, being made, relaying
    spoilt,   \* history: what may have broken the console that is shown: a cookie that
              \* another answer has set, taken away or not set, a sweep or a restart
    left      \* what the instance has left

pageVars == <<view, frame, visit>>
rowVars == <<audit, ending, unended>>
vars == <<pageVars, cookie, calls, life, rowVars, conn, spoilt, left>>

Life == {"unissued", "ticket", "void", "open", "idle", "old", "closed"}

Call ==
    [kind: {"ticket", "enter", "end"}, status: {"sent", "ok", "refused", "lost"}, tab: BOOLEAN, press: BOOLEAN,
     visit: Nat, id: Tickets \cup {None}, tries: {1, 2}]

-----------------------------------------------------------------------------

Open(s) == life[s] \in {"open", "idle", "old"}

Uses(what) == left[what] > 0 /\ left' = [left EXCEPT ![what] = @ - 1]
Fault == Uses("faults")

Request(kind, id, tab, press) ==
    [kind |-> kind, status |-> "sent", tab |-> tab, press |-> press, visit |-> visit', id |-> id, tries |-> 1]

Adds(m) == m \notin calls /\ calls' = calls \cup {m}
Becomes(m, n) == calls' = (calls \ {m}) \cup {n}
Done(m) == calls' = calls \ {m}
Answers(m, status) == Becomes(m, [m EXCEPT !.status = status])

\* m is of the page that is shown, and its answer may change what it shows.
Shown(m) == m.visit = visit /\ view # "away"

-----------------------------------------------------------------------------
(* The user *)

\* openSession: the card asks for a ticket for its iframe.
OpenSession ==
    /\ view' = "connecting" /\ frame' = frame
    /\ Adds(Request("ticket", None, FALSE, FALSE))
    /\ UNCHANGED <<cookie, life, rowVars, conn, spoilt>>

Visit == view = "away" /\ Uses("visits") /\ visit' = visit + 1 /\ OpenSession

Reopen == view = "closed" /\ Uses("presses") /\ visit' = visit /\ OpenSession

\* The unmount ends whatever session the cookie names.
Leave ==
    /\ view # "away"
    /\ view' = "away" /\ frame' = None /\ visit' = visit
    /\ Adds(Request("end", cookie, FALSE, FALSE))
    /\ UNCHANGED <<cookie, life, rowVars, conn, spoilt, left>>

PressTab ==
    /\ view = "connected" /\ Uses("presses")
    /\ UNCHANGED pageVars
    /\ Adds(Request("ticket", None, TRUE, TRUE))
    /\ UNCHANGED <<cookie, life, rowVars, conn, spoilt>>

PressEnd ==
    /\ view = "connected" /\ Uses("presses")
    /\ ~\E m \in calls : m.kind = "end" /\ m.press /\ m.visit = visit
    /\ UNCHANGED pageVars
    /\ Adds(Request("end", cookie, FALSE, TRUE))
    /\ UNCHANGED <<cookie, life, rowVars, conn, spoilt>>

-----------------------------------------------------------------------------
(* The server *)

Serve(m, kind) == m.kind = kind /\ m.status = "sent" /\ UNCHANGED <<pageVars, cookie, conn, spoilt>>

IssueTicket(m, t) ==
    /\ Serve(m, "ticket")
    /\ life[t] = "unissued" /\ \A u \in Tickets : u < t => life[u] # "unissued"
    /\ life' = [life EXCEPT ![t] = "ticket"]
    /\ Becomes(m, [m EXCEPT !.status = "ok", !.id = t])
    /\ UNCHANGED <<rowVars, left>>

IssueFails(m) ==
    /\ Serve(m, "ticket") /\ Fault
    /\ Answers(m, "lost")
    /\ UNCHANGED <<life, rowVars>>

\* The ticket is consumed, the session registered, and its row written if that
\* succeeds.
Enter(m) ==
    /\ Serve(m, "enter") /\ life[m.id] = "ticket"
    /\ life' = [life EXCEPT ![m.id] = "open"]
    /\ \/ audit' = [audit EXCEPT ![m.id] = "open"] /\ left' = left
       \/ audit' = audit /\ Fault
    /\ Answers(m, "ok")
    /\ UNCHANGED <<ending, unended>>

EnterRefused(m) ==
    /\ Serve(m, "enter") /\ life[m.id] # "ticket"
    /\ Answers(m, "refused")
    /\ UNCHANGED <<life, rowVars, left>>

\* Mutant: the sessions are forgotten, and nobody writes their ends.
Forgets(S) ==
    /\ life' = [s \in Tickets |-> IF s \in S THEN "closed" ELSE life[s]]
    /\ UNCHANGED rowVars

\* The sessions in S leave the registry and their ends are to be written.
Closes(S) ==
    /\ life' = [s \in Tickets |-> IF s \in S THEN "closed" ELSE life[s]]
    /\ ending' = ending \cup S
    /\ UNCHANGED <<audit, unended>>

EndSession(m) ==
    /\ Serve(m, "end") /\ m.id # None /\ Open(m.id)
    /\ Closes({m.id})
    /\ Answers(m, "ok")
    /\ UNCHANGED left

\* CookieGate: there is no cookie, it is as old as the session may get, or its
\* session is over.
EndRefused(m) ==
    /\ Serve(m, "end") /\ m.id \notin {s \in Tickets : life[s] \in {"open", "idle"}}
    /\ Answers(m, "refused")
    /\ UNCHANGED <<life, rowVars, left>>

\* Repository End: the row, if there is one, is closed.
WriteEnd(s) ==
    /\ s \in ending /\ ending' = ending \ {s}
    /\ audit' = [audit EXCEPT ![s] = IF @ = "open" THEN "ended" ELSE @]
    /\ UNCHANGED <<pageVars, cookie, calls, life, unended, conn, spoilt, left>>

WriteEndFails(s) ==
    /\ s \in ending /\ ending' = ending \ {s} /\ Fault
    /\ unended' = unended \cup {s}
    /\ UNCHANGED <<pageVars, cookie, calls, life, audit, conn, spoilt>>

\* Mutant: only idle sessions are swept.
IdleOnly(s) == life[s] = "idle"

\* Idle for half an hour, or four hours old.
Expired(s) == life[s] \in {"idle", "old"}

\* A tick of the sweeper.
Sweep ==
    /\ \E s \in Tickets : Expired(s)
    /\ Closes({s \in Tickets : Expired(s)})
    /\ spoilt' = IF frame # None /\ Expired(frame) THEN spoilt \cup {"server"} ELSE spoilt
    /\ UNCHANGED <<pageVars, cookie, calls, conn, left>>

\* The API restarts: tickets, sessions and connections are gone, and so are the
\* answers that waited for a write.
Restart ==
    /\ Fault
    /\ life' = [s \in Tickets |-> IF Open(s) THEN "closed" ELSE IF life[s] = "ticket" THEN "void" ELSE life[s]]
    /\ unended' = unended \cup ending \cup {s \in Tickets : Open(s)} /\ ending' = {}
    /\ conn' = [s \in Tickets |-> "none"]
    /\ calls' = {IF m.kind = "end" /\ m.status = "ok" /\ m.id \in ending THEN [m EXCEPT !.status = "lost"] ELSE m :
                 m \in calls}
    /\ spoilt' = spoilt \cup {"server"}
    /\ UNCHANGED <<pageVars, cookie, audit>>

-----------------------------------------------------------------------------
(* Answers in the browser *)

Receive(m, kind, status) == m.kind = kind /\ m.status = status /\ UNCHANGED <<visit, life, rowVars, conn, left>>

\* The ticket for the iframe, if the card still waits for it.
Connected(m) ==
    /\ Receive(m, "ticket", "ok") /\ ~m.tab
    /\ IF Shown(m)
       THEN /\ view' = "connected" /\ frame' = m.id /\ spoilt' = {}
            /\ Becomes(m, Request("enter", m.id, FALSE, FALSE))
       ELSE UNCHANGED <<view, frame, spoilt>> /\ Done(m)
    /\ cookie' = cookie

\* window.open, also after the page was left.
TabOpened(m) ==
    /\ Receive(m, "ticket", "ok") /\ m.tab
    /\ Becomes(m, Request("enter", m.id, TRUE, TRUE))
    /\ UNCHANGED <<view, frame, cookie, spoilt>>

TicketLost(m) ==
    /\ Receive(m, "ticket", "lost")
    /\ view' = IF Shown(m) /\ ~m.tab THEN "closed" ELSE view
    /\ Done(m)
    /\ UNCHANGED <<frame, cookie, spoilt>>

\* Mutant: the cookie that is there is kept.
KeepsCookie(m) == IF cookie = None THEN m.id ELSE cookie

SetsCookie(m) == m.id

\* The iframe, or the tab, has its session.
Entered(m) ==
    /\ Receive(m, "enter", "ok") /\ (m.tab \/ frame = m.id)
    /\ cookie' = SetsCookie(m)
    /\ spoilt' = IF m.tab THEN spoilt \cup {"cookie"} ELSE spoilt \ {"cookie"}
    /\ Done(m)
    /\ UNCHANGED <<view, frame>>

\* The iframe is gone: its cookie may still be taken.
EnteredLate(m) ==
    /\ Receive(m, "enter", "ok") /\ ~m.tab /\ frame # m.id
    /\ \/ cookie' = m.id /\ spoilt' = spoilt \cup {"cookie"}
       \/ UNCHANGED <<cookie, spoilt>>
    /\ Done(m)
    /\ UNCHANGED <<view, frame>>

NotEntered(m) ==
    /\ Receive(m, "enter", "refused")
    /\ spoilt' = spoilt \cup {"cookie"}
    /\ Done(m)
    /\ UNCHANGED <<view, frame, cookie>>

\* The button's request is over, however it ended, and the card is closed.
ClosesCard(m) ==
    IF m.press /\ Shown(m) THEN view' = "closed" /\ frame' = None ELSE UNCHANGED <<view, frame>>

\* The answer takes the cookie away, whichever session it names by now.
SessionEnded(m) ==
    /\ Receive(m, "end", "ok") /\ m.id \notin ending
    /\ cookie' = None /\ spoilt' = spoilt \cup {"cookie"}
    /\ ClosesCard(m)
    /\ Done(m)

EndLost(m) ==
    /\ Receive(m, "end", "lost")
    /\ ClosesCard(m)
    /\ Done(m)
    /\ UNCHANGED <<cookie, spoilt>>

\* apiFetch takes the 401 of the gate for an expired access token, refreshes it
\* and sends the request again, with the cookie of now.
EndAgain(m) ==
    /\ Receive(m, "end", "refused") /\ m.tries = 1
    /\ Becomes(m, [m EXCEPT !.status = "sent", !.tries = 2, !.id = cookie])
    /\ UNCHANGED <<view, frame, cookie, spoilt>>

\* A second 401: the user is signed out and the page is loaded afresh; what the
\* tab and the iframe have sent is still served.
SignedOut(m) ==
    /\ Receive(m, "end", "refused") /\ m.tries = 2
    /\ view' = "away" /\ frame' = None
    /\ calls' = {n \in calls : n.kind = "enter"}
    /\ UNCHANGED <<cookie, spoilt>>

-----------------------------------------------------------------------------
(* Time, and the connections *)

ExpireTicket(t) ==
    /\ life[t] = "ticket" /\ life' = [life EXCEPT ![t] = "void"]
    /\ UNCHANGED <<pageVars, cookie, calls, rowVars, conn, spoilt, left>>

\* Nothing is relayed for half an hour.  Without a connection old says as much:
\* the sweeper treats both alike, and only a relayed frame tells them apart.
GrowIdle(s) ==
    /\ life[s] = "open" /\ conn[s] = "relays" /\ life' = [life EXCEPT ![s] = "idle"]
    /\ UNCHANGED <<pageVars, cookie, calls, rowVars, conn, spoilt, left>>

\* The session reaches the hard cap.
GrowOld(s) ==
    /\ life[s] \in {"open", "idle"} /\ life' = [life EXCEPT ![s] = "old"]
    /\ UNCHANGED <<pageVars, cookie, calls, rowVars, conn, spoilt, left>>

Connects(s, from, to) ==
    /\ conn[s] = from /\ conn' = [conn EXCEPT ![s] = to]
    /\ UNCHANGED <<pageVars, cookie, calls, life, rowVars, spoilt>>

\* CookieGate and Context let a connection through.
Gate(s) == cookie = s /\ Open(s) /\ Uses("conns") /\ Connects(s, "none", "dials")

\* The agent's end is dialled, for as long as that takes; the session may be over by
\* the time it answers.
Dialled(s) == left' = left /\ (Connects(s, "dials", "relays") \/ Connects(s, "dials", "none"))

\* A frame is relayed: Touch.
Relay(s) ==
    /\ conn[s] = "relays" /\ life[s] = "idle"
    /\ life' = [life EXCEPT ![s] = "open"]
    /\ UNCHANGED <<pageVars, cookie, calls, rowVars, conn, spoilt, left>>

Drop(s) == left' = left /\ Connects(s, "relays", "none")

\* The pump sees that the context of its session is cancelled.
Cut(s) == ~Open(s) /\ left' = left /\ Connects(s, "relays", "none")

-----------------------------------------------------------------------------

Init ==
    /\ \E b \in Bounds : left = [visits |-> b.visits, presses |-> b.presses, conns |-> b.conns, faults |-> b.faults]
    /\ view = "away" /\ frame = None /\ visit = 0 /\ cookie = None /\ calls = {}
    /\ life = [t \in Tickets |-> "unissued"]
    /\ audit = [t \in Tickets |-> "none"] /\ ending = {} /\ unended = {}
    /\ conn = [t \in Tickets |-> "none"] /\ spoilt = {}

Served(m) ==
    \/ \E t \in Tickets : IssueTicket(m, t)
    \/ IssueFails(m) \/ Enter(m) \/ EnterRefused(m) \/ EndSession(m) \/ EndRefused(m)

Received(m) ==
    \/ Connected(m) \/ TabOpened(m) \/ TicketLost(m) \/ Entered(m) \/ EnteredLate(m) \/ NotEntered(m)
    \/ SessionEnded(m) \/ EndLost(m) \/ EndAgain(m) \/ SignedOut(m)

Written(s) == WriteEnd(s) \/ WriteEndFails(s)

Next ==
    \/ Visit \/ Reopen \/ Leave \/ PressTab \/ PressEnd
    \/ \E m \in calls : Served(m) \/ Received(m)
    \/ Sweep \/ Restart
    \/ \E s \in Tickets :
        Written(s) \/ ExpireTicket(s) \/ GrowIdle(s) \/ GrowOld(s) \/ Gate(s) \/ Dialled(s) \/ Relay(s)
            \/ Drop(s) \/ Cut(s)

-----------------------------------------------------------------------------
(* Properties *)

TypeOK ==
    /\ view \in {"away", "connecting", "connected", "closed"} /\ frame \in Tickets \cup {None} /\ visit \in Nat
    /\ cookie \in Tickets \cup {None} /\ calls \subseteq Call
    /\ life \in [Tickets -> Life] /\ audit \in [Tickets -> {"none", "open", "ended"}]
    /\ ending \subseteq Tickets /\ unended \subseteq Tickets
    /\ conn \in [Tickets -> {"none", "dials", "relays"}]
    /\ spoilt \subseteq {"cookie", "server"}
    /\ left \in [{"visits", "presses", "conns", "faults"} -> Nat]

\* The audit tells which sessions are over: none that is open has an end, and the
\* row of one that is closed has its end unless that is being written or could
\* not be.
AuditTells ==
    \A s \in Tickets :
        /\ audit[s] = "ended" => life[s] = "closed"
        /\ life[s] = "closed" /\ audit[s] = "open" => s \in ending \cup unended

\* With nothing under way, a page that says the console is open shows one that
\* the browser has a cookie for and the server a session, unless a tab, a late
\* answer, an expired ticket, the sweeper or a restart came in between.
ConsoleIsLive ==
    view = "connected" /\ calls = {} /\ spoilt = {} => cookie = frame /\ Open(frame)

\* A session, or a connection that outlives its session.  Nothing bounds a dial.
Lives(s) == Open(s) \/ conn[s] = "relays"
=============================================================================
