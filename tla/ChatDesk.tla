------------------------------- MODULE ChatDesk -------------------------------
(***************************************************************************)
(* The chat in the browser (apps/web/src/pages/Chat.tsx, the drawer        *)
(* components/AskAIDrawer.tsx, store/chat.ts, lib/sse.ts, api/chat.ts) and *)
(* the handler that relays an answer (internal/http/handlers/              *)
(* chat_handler.go).                                                       *)
(*                                                                         *)
(* The streams belong to conversations, not to components: an answer goes  *)
(* on while another room, or page, is open.  The handler stores the        *)
(* question, relays the parts of the answer, and stores the answer after   *)
(* it has said that it is done.                                            *)
(***************************************************************************)
EXTENDS Naturals, Sequences, FiniteSets, QueryCache

CONSTANTS
    Convs,     \* ids of conversations
    Slots,     \* bound: requests under way at a time, of each kind
    MaxTexts,  \* bound: messages written
    MaxParts,  \* bound: parts of an answer
    Bounds     \* the smaller bounds to explore, one record per instance

Texts == 1 .. MaxTexts

Message == [role : {"user", "assistant"}, text : Texts, parts : 0 .. MaxParts]
TaskRecord ==
    [conv : Convs, text : Texts, st : {"sent", "asked", "answering", "saving", "over"}, parts : 0 .. MaxParts,
     end : {"none", "done", "error", "silent"}, gone : BOOLEAN]
StreamRecord == [st : {"live", "deaf", "settling"}, text : Texts, draft : 0 .. MaxParts, task : Slots]

\* Where a user writes: the page and the drawer each have a box and a room.
Holders == {"page", "drawer"}
CallRecord ==
    [op : {"create", "delete"}, from : Holders, text : Texts \cup {None}, conv : Convs \cup {None},
     room : Convs \cup {None}, st : {"sent", "ok", "failed"}, alive : BOOLEAN]

\* room: the room that is open at first, if any; convs: the conversations there
\* are; texts, opens, files: messages, rooms and questions opened, and presses
\* while a file is read, to come; faults: connections, loads and handlers that
\* break; drawer: whether the page has the drawer used too.
ChatDeskAssumption ==
    /\ MaxTexts \in Nat /\ MaxParts \in Nat /\ Slots \subseteq Nat
    /\ None \notin Convs \cup Slots \cup Texts \cup TaskRecord \cup StreamRecord \cup CallRecord
    /\ None \notin Seq(Message)
    /\ \A b \in Bounds : /\ b.convs \subseteq Convs /\ b.room \in b.convs \cup {None}
                         /\ b.texts \in 0 .. MaxTexts /\ {b.opens, b.files, b.faults} \subseteq Nat
                         /\ b.drawer \in BOOLEAN

VARIABLES
    conv,      \* the messages of each conversation
    task,      \* the handlers that relay an answer
    list,      \* the entry of the list of conversations
    detail,    \* the entries of the conversations
    stream,    \* the store of the streams, by conversation
    degraded,  \* the store: the agent is not available
    calls,     \* the mutations under way
    latest,    \* the last call of each useMutation, while it is pending
    ui,        \* the page, the drawer, and what is open in them
    budget,    \* the bounds of this behaviour
    told,      \* history: an entry was told something outdated, or nothing
    heard,     \* history: the messages of which the user heard that they failed
    dropped,   \* history: those that a second press, a stop or a failed call cost,
               \* or that went with their conversation
    twice,     \* history: those sent by a second press
    crossed,   \* history: conversations with a question before the last answer was stored
    shown,     \* history: how much of the answer to a message was seen in a room
    crashed    \* history: the messages whose handler has died

vars == <<conv, task, list, detail, stream, degraded, calls, latest, ui, budget,
          told, heard, dropped, twice, crossed, shown, crashed>>
server == <<conv, task>>
cached == <<list, detail>>
store == <<stream, degraded>>
mutations == <<calls, latest>>
history == <<told, heard, dropped, twice, crossed, shown, crashed>>

-----------------------------------------------------------------------------
(* Data *)

Question(t) == [role |-> "user", text |-> t, parts |-> 0]
Answer(t, n) == [role |-> "assistant", text |-> t, parts |-> n]

Exists(c) == conv[c] # None
Existing == {c \in Convs : Exists(c)}
Asked(c, t) == Exists(c) /\ \E i \in 1 .. Len(conv[c]) : conv[c][i] = Question(t)
Kept(t) == \E c \in Convs : Asked(c, t)

Running(s) == task[s] # None /\ task[s].st # "over"

ListWatched == ui.page
Shows(u, c) == (u.page /\ u.room["page"] = c) \/ u.room["drawer"] = c
Watched(c) == Shows(ui, c)

Spend(f) == budget[f] > 0 /\ budget' = [budget EXCEPT ![f] = @ - 1]

-----------------------------------------------------------------------------
(* The queries *)

ServeList ==
    /\ list.fetch = "asked" /\ list' = Answered(list, Existing)
    /\ UNCHANGED <<server, detail, store, mutations, ui, budget, history>>

StoreList ==
    /\ list.fetch = "answered" /\ list' = Stored(list)
    /\ UNCHANGED <<server, detail, store, mutations, ui, budget, history>>

\* Before the answer is stored: while its handler is not yet through.
Early(c) == \E s \in Slots : Running(s) /\ task[s].conv = c /\ (task[s].st = "saving" \/ task[s].gone)

\* A conversation that is gone is not found: what is shown of it stays.
Serve(c) ==
    /\ detail[c].fetch = "asked"
    /\ IF Exists(c) THEN detail' = [detail EXCEPT ![c] = Answered(@, conv[c])] /\ told' = (told \/ Early(c))
       ELSE detail' = [detail EXCEPT ![c] = Cancelled(@)] /\ told' = TRUE
    /\ UNCHANGED <<server, list, store, mutations, ui, budget, heard, dropped, twice, crossed, shown, crashed>>

Store(c) ==
    /\ detail[c].fetch = "answered" /\ detail' = [detail EXCEPT ![c] = Stored(@)]
    /\ UNCHANGED <<server, list, store, mutations, ui, budget, history>>

LoadFails ==
    /\ Spend("faults") /\ told' = TRUE
    /\ \/ list.fetch = "asked" /\ list' = Cancelled(list) /\ UNCHANGED detail
       \/ \E c \in Convs : /\ detail[c].fetch = "asked"
                           /\ detail' = [detail EXCEPT ![c] = Cancelled(@)] /\ UNCHANGED list
    /\ UNCHANGED <<server, store, mutations, ui, heard, dropped, twice, crossed, shown, crashed>>

\* An invalidation that an answer under way outruns: it is stored, and the mark goes.
Outrun(e, watched) == e.fetch = "answered" /\ (e.val = None \/ ~watched)

-----------------------------------------------------------------------------
(* The handler of a message, ChatHandler.Chat *)

Step(s, st) == task' = [task EXCEPT ![s].st = st]
At(s, st) == task[s] # None /\ task[s].st = st

\* The conversation is looked up, and the question stored.  A request whose
\* connection is gone may find its context cancelled at any step.
Arrive(s) ==
    LET c == task[s].conv IN
    /\ At(s, "sent") /\ Exists(c) /\ Step(s, "asked")
    /\ conv' = [conv EXCEPT ![c] = Append(@, Question(task[s].text))]
    /\ crossed' = IF \E r \in Slots \ {s} : Running(r) /\ task[r].conv = c /\ (task[r].st = "saving" \/ task[r].gone)
                  THEN crossed \cup {c} ELSE crossed
    /\ UNCHANGED <<cached, store, mutations, ui, budget, told, heard, dropped, twice, shown, crashed>>

\* Not found, or the agent does not answer, or the context is cancelled.
Refuse(s) ==
    /\ \/ At(s, "sent") /\ (~Exists(task[s].conv) \/ task[s].gone)
       \/ At(s, "asked")
    /\ task' = [task EXCEPT ![s].st = "over", ![s].end = "error"]
    /\ dropped' = IF At(s, "sent") /\ task[s].gone THEN dropped \cup {task[s].text} ELSE dropped
    /\ UNCHANGED <<conv, cached, store, mutations, ui, budget, told, heard, twice, crossed, shown, crashed>>

Open(s) ==
    /\ At(s, "asked") /\ Step(s, "answering")
    /\ UNCHANGED <<conv, cached, store, mutations, ui, budget, history>>

\* A part is kept, and sent on.
Part(s) ==
    /\ At(s, "answering") /\ task[s].parts < MaxParts
    /\ task' = [task EXCEPT ![s].parts = @ + 1]
    /\ UNCHANGED <<conv, cached, store, mutations, ui, budget, history>>

\* The agent is done, breaks off, or ends without a word; or the browser has gone.
Finish(s) ==
    /\ At(s, "answering")
    /\ \/ task' = [task EXCEPT ![s].st = "saving", ![s].end = "done"] /\ UNCHANGED budget
       \/ /\ Spend("faults")
          /\ \E e \in {"error", "silent"} : task' = [task EXCEPT ![s].st = "saving", ![s].end = e]
    /\ UNCHANGED <<conv, cached, store, mutations, ui, history>>

\* Mutant: an answer that the browser did not wait for is not stored.
Unwanted(k) == k.gone
\* What is not stored: nothing, the context of the request does not matter.
Discards(k) == FALSE

Save(s) ==
    LET c == task[s].conv IN
    /\ At(s, "saving") /\ Step(s, "over")
    /\ conv' = IF Exists(c) /\ ~Discards(task[s])
               THEN [conv EXCEPT ![c] = Append(@, Answer(task[s].text, task[s].parts))] ELSE conv
    /\ UNCHANGED <<cached, store, mutations, ui, budget, history>>

\* The process ends, or the answer cannot be stored: the question stays without one.
Crash(s) ==
    /\ At(s, "answering") \/ At(s, "saving")
    /\ Spend("faults") /\ task' = [task EXCEPT ![s].st = "over", ![s].end = IF @ = "none" THEN "error" ELSE @]
    /\ crashed' = crashed \cup {task[s].text}
    /\ UNCHANGED <<conv, cached, store, mutations, ui, told, heard, dropped, twice, crossed, shown>>

-----------------------------------------------------------------------------
(* The streams, store/chat.ts and lib/sse.ts *)

\* Mutant: a stream of which nothing has come yet is none.
StreamingOpenly(c) == c # None /\ stream[c] # None /\ stream[c].draft > 0
Streaming(c) == c # None /\ stream[c] # None

Unused(s) == ~Running(s) /\ \A c \in Convs : stream[c] # None => stream[c].task # s

\* send: one stream at a time in a conversation, a second message is ignored.
Send(c, t) ==
    IF Streaming(c) THEN UNCHANGED <<store, task>> /\ dropped' = dropped \cup {t}
    ELSE /\ \E s \in Slots :
               /\ Unused(s) /\ \A r \in Slots : r < s => ~Unused(r)
               /\ task' = [task EXCEPT ![s] = [conv |-> c, text |-> t, st |-> "sent", parts |-> 0,
                                               end |-> "none", gone |-> FALSE]]
               /\ stream' = [stream EXCEPT ![c] = [st |-> "live", text |-> t, draft |-> 0, task |-> s]]
         /\ degraded' = FALSE /\ UNCHANGED dropped

Receive(c) ==
    /\ Streaming(c) /\ stream[c].st = "live" /\ stream[c].draft < task[stream[c].task].parts
    /\ stream' = [stream EXCEPT ![c].draft = @ + 1]
    /\ shown' = [shown EXCEPT ![c][stream[c].text] = stream[c].draft + 1]
    /\ UNCHANGED <<server, cached, degraded, mutations, ui, budget, told, heard, dropped, twice, crossed, crashed>>

\* Mutant: the room is not read again.
SettleNothing(c) == UNCHANGED cached
\* settle: the conversation and the list are read again, while the draft stays.
Settle(c) ==
    /\ detail' = [detail EXCEPT ![c] = Invalidated(@, Watched(c))]
    /\ list' = Invalidated(list, ListWatched)

Settling(c) ==
    /\ stream' = [stream EXCEPT ![c].st = "settling"] /\ Settle(c)
    /\ told' = (told \/ Outrun(detail[c], Watched(c)) \/ Outrun(list, ListWatched))

\* Everything has arrived, and the last frame says how it ended.
\* Mutant: a request that is refused is not told of.
RefusedUnheard(c) == LET k == task[stream[c].task] IN IF k.parts = 0 /\ k.end = "error" THEN "none" ELSE k.end
EndOf(c) == task[stream[c].task].end
Done(c) ==
    /\ Streaming(c) /\ stream[c].st = "live" /\ stream[c].draft = task[stream[c].task].parts
    /\ EndOf(c) = "done" /\ Settling(c)
    /\ UNCHANGED <<server, degraded, mutations, ui, budget, heard, dropped, twice, crossed, shown, crashed>>

Fails(c) ==
    /\ Streaming(c) /\ stream[c].st = "live" /\ stream[c].draft = task[stream[c].task].parts
    /\ EndOf(c) = "error" /\ Settling(c) /\ degraded' = TRUE /\ heard' = heard \cup {stream[c].text}
    /\ UNCHANGED <<server, mutations, ui, budget, dropped, twice, crossed, shown, crashed>>

\* The body ends and nothing was said: no handler is called.
Silence(c) ==
    /\ Streaming(c) /\ stream[c].st = "live" /\ stream[c].draft = task[stream[c].task].parts
    /\ EndOf(c) = "silent" /\ stream' = [stream EXCEPT ![c].st = "deaf"] /\ told' = TRUE
    /\ UNCHANGED <<server, cached, degraded, mutations, ui, budget, heard, dropped, twice, crossed, shown, crashed>>

\* The connection breaks; the handler goes on, or finds its context cancelled.
Cut(c) ==
    /\ Streaming(c) /\ stream[c].st = "live" /\ Spend("faults")
    /\ Settling(c) /\ degraded' = TRUE /\ heard' = heard \cup {stream[c].text}
    /\ task' = [task EXCEPT ![stream[c].task].gone = TRUE]
    /\ UNCHANGED <<conv, mutations, ui, dropped, twice, crossed, shown, crashed>>

Clear(c) ==
    /\ Streaming(c) /\ stream[c].st = "settling" /\ detail[c].fetch = "idle" /\ list.fetch = "idle"
    /\ stream' = [stream EXCEPT ![c] = None]
    /\ UNCHANGED <<server, cached, degraded, mutations, ui, budget, history>>

-----------------------------------------------------------------------------
(* The page and the drawer *)

Ops == {"create", "delete"} \X Holders
Pending(op, h) == latest[<<op, h>>] # None

InUse(h) == IF h = "page" THEN ui.page /\ ~ui.ask /\ ui.erase = None ELSE ui.ask
Disabled(h) == degraded \/ Pending("create", h)

Post(c) ==
    \E s \in Slots : /\ calls[s] = None /\ \A r \in Slots : r < s => calls[r] # None
                    /\ calls' = [calls EXCEPT ![s] = c]
                    /\ latest' = [latest EXCEPT ![<<c.op, c.from>>] = s]
Call(op, h) == [op |-> op, from |-> h, text |-> None, conv |-> None, room |-> None, st |-> "sent", alive |-> TRUE]

\* handleSend, with the room as it was when the button was pressed.
HandleSend(h, room, t) ==
    IF room = None THEN Post([Call("create", h) EXCEPT !.text = t]) /\ UNCHANGED <<task, store, dropped>>
    ELSE Send(room, t) /\ UNCHANGED mutations

Submit(h) ==
    /\ InUse(h) /\ ~Disabled(h) /\ ~Streaming(ui.room[h]) /\ budget.typed < budget.texts
    /\ budget' = [budget EXCEPT !.typed = @ + 1] /\ HandleSend(h, ui.room[h], budget.typed + 1)
    /\ UNCHANGED <<conv, cached, ui, told, heard, twice, crossed, shown, crashed>>

\* With a file, which is read first: the message stays in the box meanwhile, and
\* the button is on.
SubmitFile(h) ==
    /\ InUse(h) /\ ~Disabled(h) /\ ~Streaming(ui.room[h]) /\ budget.files > 0
    /\ LET again == ui.reading # <<>>
           t == IF again THEN ui.reading[Len(ui.reading)].text ELSE budget.typed + 1
       IN
       /\ IF again THEN ui.reading[Len(ui.reading)].from = h ELSE budget.typed < budget.texts
       /\ ui' = [ui EXCEPT !.reading = Append(@, [from |-> h, room |-> ui.room[h], text |-> t])]
       /\ budget' = [budget EXCEPT !.files = @ - 1, !.typed = IF again THEN @ ELSE t]
       /\ twice' = IF again THEN twice \cup {t} ELSE twice
    /\ UNCHANGED <<server, cached, store, mutations, told, heard, dropped, crossed, shown, crashed>>

FileRead ==
    /\ ui.reading # <<>> /\ ui' = [ui EXCEPT !.reading = Tail(@)]
    /\ LET r == Head(ui.reading) IN HandleSend(r.from, r.room, r.text)
    /\ UNCHANGED <<conv, cached, budget, told, heard, twice, crossed, shown, crashed>>

\* stop: a stream that has ended without a word has nothing to stop.  That the
\* message was refused is not heard any more.
Stop(h) ==
    LET c == ui.room[h] IN
    /\ InUse(h) /\ Streaming(c) /\ stream[c].st = "live" /\ Settling(c)
    /\ task' = [task EXCEPT ![stream[c].task].gone = TRUE]
    /\ dropped' = IF EndOf(c) = "error" THEN dropped \cup {stream[c].text} ELSE dropped
    /\ UNCHANGED <<conv, degraded, mutations, ui, budget, heard, twice, crossed, shown, crashed>>

Acknowledge ==
    /\ degraded /\ (InUse("page") \/ InUse("drawer")) /\ degraded' = FALSE
    /\ UNCHANGED <<server, cached, stream, mutations, ui, budget, history>>

\* A room is opened: its entry is fetched if it is missing, marked or old.
Look(u) ==
    /\ ui' = u
    /\ \E old \in BOOLEAN :
          /\ detail' = [c \in Convs |-> IF Shows(ui', c) /\ ~Watched(c) THEN Opened(detail[c], old) ELSE detail[c]]
          /\ list' = IF ui'.page /\ ~ui.page THEN Opened(list, old) ELSE list

Choose(c) ==
    /\ InUse("page") /\ list.val # None /\ c \in list.val \cup {None} /\ c # ui.room["page"] /\ Spend("opens")
    /\ Look([ui EXCEPT !.room["page"] = c])
    /\ UNCHANGED <<server, store, mutations, history>>

\* Another page is opened, or this one again: its room is forgotten.
Go ==
    /\ ~ui.ask /\ ui.erase = None /\ Spend("opens")
    /\ Look([ui EXCEPT !.page = ~@, !.room["page"] = None])
    /\ calls' = [s \in Slots |-> IF calls[s] # None /\ calls[s].from = "page"
                                 THEN [calls[s] EXCEPT !.alive = FALSE] ELSE calls[s]]
    /\ latest' = [o \in Ops |-> IF o[2] = "page" THEN None ELSE latest[o]]
    /\ UNCHANGED <<server, store, history>>

\* The drawer is there on every page; closed, it forgets its room.
OpenDrawer ==
    /\ ~ui.ask /\ ui.erase = None /\ budget.drawer /\ Spend("opens") /\ ui' = [ui EXCEPT !.ask = TRUE]
    /\ UNCHANGED <<server, cached, store, mutations, history>>
CloseDrawer ==
    /\ ui.ask /\ Look([ui EXCEPT !.ask = FALSE, !.room["drawer"] = None])
    /\ UNCHANGED <<server, store, mutations, budget, history>>

AskDelete(c) ==
    /\ InUse("page") /\ list.val # None /\ c \in list.val /\ Spend("opens") /\ ui' = [ui EXCEPT !.erase = c]
    /\ UNCHANGED <<server, cached, store, mutations, history>>
CancelDelete ==
    /\ ui.erase # None /\ ui' = [ui EXCEPT !.erase = None]
    /\ UNCHANGED <<server, cached, store, mutations, budget, history>>

\* handleDelete, which keeps in mind the room that is open now.
HandleDelete ==
    /\ ui.erase # None /\ ~Pending("delete", "page")
    /\ Post([Call("delete", "page") EXCEPT !.conv = ui.erase, !.room = ui.room["page"]])
    /\ UNCHANGED <<server, cached, store, ui, budget, history>>

-----------------------------------------------------------------------------
(* Conversations are made and deleted *)

Sent(s, op) == calls[s] # None /\ calls[s].st = "sent" /\ calls[s].op = op

Create(s) ==
    /\ Sent(s, "create")
    /\ \E c \in Convs \ budget.used :
          /\ conv' = [conv EXCEPT ![c] = <<>>] /\ budget' = [budget EXCEPT !.used = @ \cup {c}]
          /\ calls' = [calls EXCEPT ![s].st = "ok", ![s].conv = c]
    /\ UNCHANGED <<task, cached, store, latest, ui, history>>

\* With its messages; one that is not there is refused.
Delete(s) ==
    LET c == calls[s].conv IN
    /\ Sent(s, "delete")
    /\ conv' = [conv EXCEPT ![c] = None]
    /\ calls' = [calls EXCEPT ![s].st = IF Exists(c) THEN "ok" ELSE "failed"]
    /\ dropped' = dropped \cup {t \in Texts : Asked(c, t)}
    /\ UNCHANGED <<task, cached, store, latest, ui, budget, told, heard, twice, crossed, shown, crashed>>

LoseCall(s) ==
    /\ calls[s] # None /\ calls[s].st \in {"sent", "ok"} /\ Spend("faults")
    /\ calls' = [calls EXCEPT ![s].st = "failed"] /\ told' = (told \/ calls[s].st = "ok")
    /\ UNCHANGED <<server, cached, store, latest, ui, heard, dropped, twice, crossed, shown, crashed>>

Over(s) ==
    /\ calls' = [calls EXCEPT ![s] = None]
    /\ latest' = [o \in Ops |-> IF latest[o] = s THEN None ELSE latest[o]]

\* Mutant: the new room is opened, and the message is left behind.
OpensOnly(k) == UNCHANGED <<store, task, dropped>>
\* The message goes to the conversation that was made for it.
Continues(k) == Send(k.conv, k.text)

\* The room is opened, wherever the user has gone in the page meanwhile.
Created(s) ==
    LET k == calls[s] IN
    /\ k # None /\ k.op = "create" /\ k.st = "ok" /\ Over(s) /\ Continues(k)
    /\ LET u == IF k.alive THEN [ui EXCEPT !.room[k.from] = k.conv] ELSE ui IN
          /\ ui' = u
          /\ detail' = [c \in Convs |-> IF Shows(ui', c) /\ ~Watched(c) THEN Opened(detail[c], FALSE) ELSE detail[c]]
    /\ list' = Invalidated(list, ListWatched) /\ told' = (told \/ Outrun(list, ListWatched))
    /\ UNCHANGED <<conv, budget, heard, twice, crossed, shown, crashed>>

\* Nothing is said, and the box is empty already.
NotCreated(s) ==
    /\ calls[s] # None /\ calls[s].op = "create" /\ calls[s].st = "failed" /\ Over(s)
    /\ dropped' = dropped \cup {calls[s].text}
    /\ UNCHANGED <<server, cached, store, ui, budget, told, heard, twice, crossed, shown, crashed>>

Deleted(s) ==
    LET k == calls[s]
        u == [ui EXCEPT !.erase = None, !.room["page"] = IF k.st = "ok" /\ k.room = k.conv THEN None ELSE @]
    IN
    /\ k # None /\ k.op = "delete" /\ k.st \in {"ok", "failed"} /\ Over(s)
    /\ ui' = IF k.alive THEN u ELSE ui
    /\ IF k.st = "ok"
       THEN /\ list' = Invalidated(list, ListWatched) /\ detail' = [detail EXCEPT ![k.conv] = NoEntry]
            /\ told' = (told \/ Outrun(list, ListWatched) \/ Shows(ui', k.conv))
       ELSE UNCHANGED <<cached, told>>
    /\ UNCHANGED <<server, store, budget, heard, dropped, twice, crossed, shown, crashed>>

-----------------------------------------------------------------------------
Init ==
    /\ \E b \in Bounds :
          /\ budget = [texts |-> b.texts, typed |-> 0, opens |-> b.opens, files |-> b.files, faults |-> b.faults,
                       drawer |-> b.drawer, used |-> b.convs]
          /\ conv = [c \in Convs |-> IF c \in b.convs THEN <<>> ELSE None]
          /\ ui = [page |-> TRUE, ask |-> FALSE, room |-> [h \in Holders |-> IF h = "page" THEN b.room ELSE None],
                   erase |-> None, reading |-> <<>>]
    /\ task = [s \in Slots |-> None] /\ list = Loaded(Existing)
    /\ detail = [c \in Convs |-> IF c = ui.room["page"] THEN Loaded(<<>>) ELSE NoEntry]
    /\ stream = [c \in Convs |-> None] /\ degraded = FALSE
    /\ calls = [s \in Slots |-> None] /\ latest = [o \in Ops |-> None]
    /\ told = FALSE /\ heard = {} /\ dropped = {} /\ twice = {} /\ crossed = {} /\ crashed = {}
    /\ shown = [c \in Convs |-> [t \in Texts |-> 0]]

Query == ServeList \/ StoreList \/ \E c \in Convs : Serve(c) \/ Store(c)
Relay(s) == Arrive(s) \/ Refuse(s) \/ Open(s) \/ Part(s) \/ Finish(s) \/ Save(s)
Listen(c) == Receive(c) \/ Done(c) \/ Fails(c) \/ Silence(c) \/ Clear(c)
Handle(s) == Create(s) \/ Delete(s)
Deliver(s) == Created(s) \/ NotCreated(s) \/ Deleted(s)
Use ==
    \/ \E h \in Holders : Submit(h) \/ SubmitFile(h) \/ Stop(h)
    \/ Acknowledge \/ Go \/ OpenDrawer \/ CloseDrawer \/ CancelDelete \/ HandleDelete
    \/ (\E c \in Convs \cup {None} : Choose(c)) \/ \E c \in Convs : AskDelete(c)

Next ==
    \/ Query \/ LoadFails \/ FileRead \/ Use
    \/ \E s \in Slots : Relay(s) \/ Crash(s) \/ Handle(s) \/ LoseCall(s) \/ Deliver(s)
    \/ \E c \in Convs : Listen(c) \/ Cut(c)

Spec == Init /\ [][Next]_vars

\* The handler waits for the agent: its request has no deadline, nor has the
\* client that makes it, nor the server.
AtAgent(s) == At(s, "asked") \/ At(s, "answering")

\* Requests are answered and answers handled; what the agent does is up to the agent.
Served ==
    \/ Query \/ \E c \in Convs : Listen(c)
    \/ \E s \in Slots : (~AtAgent(s) /\ Relay(s)) \/ Handle(s) \/ Deliver(s)
Fairness == WF_vars(Served)
FairSpec == Spec /\ Fairness

-----------------------------------------------------------------------------
(* Properties *)

TypeOK ==
    /\ \A c \in Existing : conv[c] \in Seq(Message)
    /\ list \in Entry(SUBSET Convs) /\ told \in BOOLEAN /\ degraded \in BOOLEAN
    /\ heard \cup dropped \cup twice \cup crashed \subseteq Texts /\ crossed \subseteq Convs
    /\ \A c \in Convs : Streaming(c) => task[stream[c].task] # None /\ stream[c].draft <= MaxParts
    /\ \A o \in Ops : latest[o] # None => calls[latest[o]] # None /\ <<calls[latest[o]].op, calls[latest[o]].from>> = o

AtRest ==
    /\ \A s \in Slots : ~Running(s) /\ calls[s] = None
    /\ (ListWatched => Idle(list)) /\ \A c \in Convs : stream[c] = None /\ (Watched(c) => Idle(detail[c]))
    /\ ~told

\* When nothing is under way, the room on screen shows the conversation as it
\* is stored, and the list those there are.  `told' lists the ways around it:
\* above all, a room read again between "done" and the storing of the answer.
RoomIsCurrent ==
    AtRest => /\ ListWatched => list.val = Existing
              /\ \A c \in Existing : Watched(c) => detail[c].val = conv[c]

\* An answer stands right after its question, whatever the user does in which
\* room, unless the next question came before the answer was stored, which the
\* browser allows as soon as it has heard "done", or has stopped listening.
AnswersFollow ==
    \A c \in Existing \ crossed : \A i \in 1 .. Len(conv[c]) :
        conv[c][i].role = "assistant" => i > 1 /\ conv[c][i - 1] = Question(conv[c][i].text)

\* What a user has seen of an answer is stored when its handler is through,
\* however the user has left, unless the process has died, or the message was
\* sent twice.
NothingShownIsLost ==
    \A s \in Slots :
        task[s] # None /\ task[s].st = "over" /\ shown[task[s].conv][task[s].text] > 0 /\ Exists(task[s].conv)
          /\ task[s].text \notin crashed \cup twice =>
            \E i \in 1 .. Len(conv[task[s].conv]) :
                LET m == conv[task[s].conv][i] IN
                m.role = "assistant" /\ m.text = task[s].text /\ m.parts >= shown[task[s].conv][m.text]

\* A message is stored, or on its way, or the user has heard that it failed;
\* or it was stopped, pressed twice, or its conversation could not be made, or
\* was deleted.
NoMessageVanishes ==
    \A t \in 1 .. budget.typed :
        \/ Kept(t) \/ t \in heard \cup dropped
        \/ \E s \in Slots : \/ task[s] # None /\ task[s].text = t
                            \/ calls[s] # None /\ calls[s].text = t
        \/ \E i \in 1 .. Len(ui.reading) : ui.reading[i].text = t

\* A room comes to rest, whatever breaks, unless the answer ended without a word
\* or the agent keeps the handler waiting for ever.
Awaited(c) == Streaming(c) /\ stream[c].st # "deaf"
HungUp(c) == Awaited(c) /\ AtAgent(stream[c].task)
StreamEnds == \A c \in Convs : Awaited(c) ~> (~Awaited(c) \/ []HungUp(c))
=============================================================================
