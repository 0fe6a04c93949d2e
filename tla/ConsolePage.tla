----------------------------- MODULE ConsolePage -----------------------------
(***************************************************************************)
(* One browser page and the console server it is kept up to date by.       *)
(*                                                                         *)
(* Server (src/src/console/server.py, state.py): the MQTT thread folds     *)
(* each message into the state under a lock and schedules the event on the *)
(* web server's loop, which copies it into every open browser's bounded    *)
(* queue; a coroutine per socket sends a snapshot and then the queue.      *)
(*                                                                         *)
(* Page (src/console/web/src/lib/useConsole.tsx): events are kept back and *)
(* applied in batches; while the socket is down the page polls /api/state, *)
(* and an answer may come at any later time.                               *)
(*                                                                         *)
(* The state has three parts that the page folds in three ways: a row that *)
(* is replaced, a log that refuses an id it has, a chart that appends.     *)
(* Delays are abstracted: a timer that is set may fire at any moment.  The *)
(* page and the server trim their lists far above the bounds used here.    *)
(***************************************************************************)
EXTENDS Naturals, Sequences, SequencesExt

CONSTANTS
  MaxEvents,  \* bound: messages folded
  MaxFaults,  \* bound: sockets broken, polls lost and crashes of the server
  QueueCap,   \* _CLIENT_QUEUE: events kept back for one browser
  WireCap,    \* bound: messages the transport holds before it blocks
  Polls,      \* bound: poll requests in flight at once
  Budgets,    \* bounds: the messages and failures a run may have
  None

ASSUME PageAssumption ==
  /\ MaxEvents \in Nat /\ MaxFaults \in Nat
  /\ QueueCap \in Nat \ {0} /\ WireCap \in Nat \ {0}
  /\ Budgets \subseteq [folds : 0..MaxEvents, faults : 0..MaxFaults]

VARIABLES
  up,         \* whether the server process runs
  board,      \* server: ConsoleState, what a snapshot holds
  seq,        \* server: ConsoleState._sequence
  scheduled,  \* server: events handed to the loop, not yet fanned out
  queue,      \* server: this browser's queue, or None
  wire,       \* the open socket, server to page
  sock,       \* page: the socket
  store,      \* page: store.state, or None before the first snapshot
  pending,    \* page: events received and not yet applied
  flushing,   \* page: flushTimer is set
  link,       \* page: what the page says of its connection
  polling,    \* page: pollTimer is set
  retry,      \* page: reconnectTimer is set
  poll,       \* page and server: each poll request in flight
  folds,      \* messages that may still come
  faults,     \* failures that may still come
  seeded,     \* history: this socket's snapshot has been shown
  spoilt      \* history: what parted page and server since it was taken

server == <<board, seq, scheduled>>
page == <<store, pending, flushing, link, polling, retry>>
history == <<seeded, spoilt>>
vars == <<up, server, queue, wire, sock, page, poll, folds, faults, history>>

Kind == {"row", "log", "point"}
Event == [kind : Kind, n : 1..MaxEvents]
View == [row : 0..MaxEvents, log : Seq(1..MaxEvents), points : Seq(1..MaxEvents)]
Empty == [row |-> 0, log |-> <<>>, points |-> <<>>]

ASSUME NoneAssumption == None \notin View /\ None \notin Seq(Event)

Snapshot(view) == [kind |-> "snapshot", view |-> view]

(* A poll request: free, on its way to the server, failed, or on its way    *)
(* back with the snapshot taken for it.                                     *)
PollState == [at : {"free", "asked", "failed"}] \cup [at : {"answered"}, view : View]
Free == [at |-> "free"]

TypeOK ==
  /\ up \in BOOLEAN
  /\ board \in View /\ seq \in 0..MaxEvents
  /\ scheduled \in Seq(Event)
  /\ queue = None \/ (queue \in Seq(Event) /\ Len(queue) <= QueueCap)
  /\ wire \in Seq(Event \cup [kind : {"snapshot"}, view : View]) /\ Len(wire) <= WireCap
  /\ sock \in {"closed", "connecting", "accepted", "open"}
  /\ store \in View \cup {None}
  /\ pending \in Seq(Event) /\ flushing \in BOOLEAN
  /\ link \in {"connecting", "live", "polling", "offline"}
  /\ polling \in BOOLEAN /\ retry \in BOOLEAN
  /\ poll \in [Polls -> PollState]
  /\ folds \in 0..MaxEvents /\ faults \in 0..MaxFaults
  /\ seeded \in BOOLEAN /\ spoilt \subseteq {"dropped", "unsaid", "overwritten"}

Init ==
  /\ up = TRUE /\ board = Empty /\ seq = 0 /\ scheduled = <<>>
  /\ queue = None /\ wire = <<>> /\ sock = "connecting"
  /\ store = None /\ pending = <<>> /\ flushing = FALSE
  /\ link = "connecting" /\ polling = FALSE /\ retry = FALSE
  /\ poll = [p \in Polls |-> Free]
  /\ \E budget \in Budgets : folds = budget.folds /\ faults = budget.faults
  /\ seeded = FALSE /\ spoilt = {}

-----------------------------------------------------------------------------

(* What one event does to a view: applyOne in the page, the handlers of     *)
(* ConsoleState in the server, where a log id is always new.                *)
ApplyOne(view, e) ==
  CASE e.kind = "row" -> [view EXCEPT !.row = e.n]
    [] e.kind = "log" -> IF Contains(view.log, e.n) THEN view ELSE [view EXCEPT !.log = Append(@, e.n)]
    [] e.kind = "point" -> [view EXCEPT !.points = Append(@, e.n)]
    [] e.kind = "snapshot" -> e.view

Shown(view, events) == FoldLeft(ApplyOne, view, events)

-----------------------------------------------------------------------------
(* Server *)

(* Link.dispatch on the MQTT thread.                                        *)
Dispatch(kind) ==
  /\ up /\ folds > 0
  /\ folds' = folds - 1
  /\ seq' = seq + 1
  /\ LET e == [kind |-> kind, n |-> seq + 1] IN
       /\ board' = ApplyOne(board, e)
       /\ scheduled' = Append(scheduled, e)
  /\ UNCHANGED <<up, queue, wire, sock, page, poll, faults, history>>

(* POST /api/bookings/{id}: settle logs a step and takes the booking off    *)
(* the waiting list; of its two events only the list is pushed.             *)
PostAnswer ==
  /\ up /\ folds > 1
  /\ folds' = folds - 2
  /\ seq' = seq + 2
  /\ LET row == [kind |-> "row", n |-> seq + 2] IN
       /\ board' = ApplyOne(ApplyOne(board, [kind |-> "log", n |-> seq + 1]), row)
       /\ scheduled' = Append(scheduled, row)
  /\ spoilt' = IF queue = None THEN spoilt ELSE spoilt \cup {"unsaid"}
  /\ UNCHANGED <<up, queue, wire, sock, page, poll, faults, seeded>>

(* _fan_out: what a full queue holds longest makes room. *)
Offered(kept, e) == Append(IF Len(kept) = QueueCap THEN Tail(kept) ELSE kept, e)

(* Hub._fan_out: into the browser's queue, if there is one.                 *)
FanOut ==
  /\ up /\ scheduled # <<>>
  /\ scheduled' = Tail(scheduled)
  /\ IF queue = None
       THEN UNCHANGED <<queue, spoilt>>
       ELSE /\ queue' = Offered(queue, Head(scheduled))
            /\ spoilt' = IF Len(queue) = QueueCap THEN spoilt \cup {"dropped"} ELSE spoilt
  /\ UNCHANGED <<up, board, seq, wire, sock, page, poll, folds, faults, seeded>>

(* events(): the queue is opened, and only then the snapshot taken.         *)
Accept ==
  /\ up /\ sock = "connecting"
  /\ sock' = "accepted"
  /\ queue' = <<>>
  /\ wire' = <<Snapshot(board)>>
  /\ spoilt' = {}
  /\ UNCHANGED <<up, server, page, poll, folds, faults, seeded>>

Send ==
  /\ up /\ queue \notin {None, <<>>} /\ Len(wire) < WireCap
  /\ wire' = Append(wire, Head(queue))
  /\ queue' = Tail(queue)
  /\ UNCHANGED <<up, server, sock, page, poll, folds, faults, history>>

GetState(p) ==
  /\ up /\ poll[p].at = "asked"
  /\ poll' = [poll EXCEPT ![p] = [at |-> "answered", view |-> board]]
  /\ UNCHANGED <<up, server, queue, wire, sock, page, folds, faults, history>>

(* The server dies with everything it holds; the page sees its socket close *)
(* and its polls fail.  Started again, it numbers from one again.           *)
Crash ==
  /\ up /\ faults > 0
  /\ faults' = faults - 1
  /\ up' = FALSE
  /\ board' = Empty /\ seq' = 0 /\ scheduled' = <<>>
  /\ UNCHANGED <<queue, wire, sock, page, poll, folds, history>>

Start ==
  /\ ~up /\ sock \in {"closed", "connecting"}
  /\ up' = TRUE
  /\ UNCHANGED <<server, queue, wire, sock, page, poll, folds, faults, history>>

-----------------------------------------------------------------------------
(* Page *)

(* socket.onopen, with stopPolling.                                         *)
OnOpen ==
  /\ sock = "accepted"
  /\ sock' = "open"
  /\ polling' = FALSE
  /\ link' = "live"
  /\ UNCHANGED <<up, server, queue, wire, store, pending, flushing, retry, poll, folds, faults, history>>

(* Mutant: events kept back are applied over the snapshot that came later. *)
OnSnapshotKeeping ==
  /\ sock = "open" /\ wire # <<>> /\ Head(wire).kind = "snapshot"
  /\ wire' = Tail(wire)
  /\ store' = Head(wire).view
  /\ seeded' = TRUE
  /\ UNCHANGED <<up, server, queue, sock, pending, flushing, link, polling, retry, poll, folds, faults, spoilt>>

(* socket.onmessage: a snapshot takes the place of everything kept back.    *)
OnSnapshot ==
  /\ sock = "open" /\ wire # <<>> /\ Head(wire).kind = "snapshot"
  /\ wire' = Tail(wire)
  /\ pending' = <<>>
  /\ store' = Head(wire).view
  /\ seeded' = TRUE
  /\ UNCHANGED <<up, server, queue, sock, flushing, link, polling, retry, poll, folds, faults, spoilt>>

OnEvent ==
  /\ sock = "open" /\ wire # <<>> /\ Head(wire).kind # "snapshot"
  /\ wire' = Tail(wire)
  /\ pending' = Append(pending, Head(wire))
  /\ flushing' = TRUE
  /\ UNCHANGED <<up, server, queue, sock, store, link, polling, retry, poll, folds, faults, history>>

(* flush: reduce of a batch leaves a page without a snapshot alone.         *)
Flush ==
  /\ flushing
  /\ flushing' = FALSE
  /\ pending' = <<>>
  /\ store' = IF store = None THEN None ELSE Shown(store, pending)
  /\ UNCHANGED <<up, server, queue, wire, sock, link, polling, retry, poll, folds, faults, history>>

(* poll(): a request on a free slot, if there is one within the bound.      *)
Asked == IF \E p \in Polls : poll[p] = Free
           THEN [poll EXCEPT ![CHOOSE p \in Polls : poll[p] = Free] = [at |-> "asked"]]
           ELSE poll

(* Mutant: a socket that never opened is not tried again. *)
OnCloseOpenOnly ==
  /\ sock # "closed"
  /\ up => faults > 0
  /\ faults' = IF up THEN faults - 1 ELSE faults
  /\ sock' = "closed"
  /\ queue' = None /\ wire' = <<>>
  /\ link' = IF link = "live" THEN "polling" ELSE link
  /\ polling' = TRUE
  /\ poll' = IF polling THEN poll ELSE Asked
  /\ retry' = (sock = "open")
  /\ seeded' = FALSE
  /\ UNCHANGED <<up, server, store, pending, flushing, folds, spoilt>>

(* socket.onclose: of an open socket whose connection or server is gone, or *)
(* of one that never opened; then startPolling, and connect again later.    *)
OnClose ==
  /\ sock # "closed"
  /\ up => faults > 0
  /\ faults' = IF up THEN faults - 1 ELSE faults
  /\ sock' = "closed"
  /\ queue' = None /\ wire' = <<>>
  /\ link' = IF link = "live" THEN "polling" ELSE link
  /\ polling' = TRUE
  /\ poll' = IF polling THEN poll ELSE Asked
  /\ retry' = TRUE
  /\ seeded' = FALSE
  /\ UNCHANGED <<up, server, store, pending, flushing, folds, spoilt>>

(* reconnectTimer fires: connect.                                           *)
Connect ==
  /\ retry
  /\ retry' = FALSE
  /\ sock' = "connecting"
  /\ UNCHANGED <<up, server, queue, wire, store, pending, flushing, link, polling, poll, folds, faults, history>>

PollTick ==
  /\ polling /\ Asked # poll
  /\ poll' = Asked
  /\ UNCHANGED <<up, server, queue, wire, sock, page, folds, faults, history>>

PollFails(p) ==
  /\ \/ poll[p].at = "asked" /\ ~up /\ UNCHANGED faults
     \/ poll[p].at \in {"asked", "answered"} /\ faults > 0 /\ faults' = faults - 1
  /\ poll' = [poll EXCEPT ![p] = [at |-> "failed"]]
  /\ UNCHANGED <<up, server, queue, wire, sock, page, folds, history>>

(* The answer to a poll is shown whenever it comes.                         *)
PollShown(p) ==
  /\ poll[p].at = "answered"
  /\ poll' = [poll EXCEPT ![p] = Free]
  /\ store' = poll[p].view
  /\ link' = IF link = "live" THEN link ELSE "polling"
  /\ spoilt' = IF seeded THEN spoilt \cup {"overwritten"} ELSE spoilt
  /\ UNCHANGED <<up, server, queue, wire, sock, pending, flushing, polling, retry, folds, faults, seeded>>

PollRefused(p) ==
  /\ poll[p].at = "failed"
  /\ poll' = [poll EXCEPT ![p] = Free]
  /\ link' = IF link = "live" THEN link ELSE "offline"
  /\ UNCHANGED <<up, server, queue, wire, sock, store, pending, flushing, polling, retry, folds, faults, history>>

-----------------------------------------------------------------------------
Serve == FanOut \/ Accept \/ Send \/ Start \/ \E p \in Polls : GetState(p)

Browse ==
  \/ OnOpen \/ OnSnapshot \/ OnEvent \/ Flush \/ Connect \/ PollTick
  \/ \E p \in Polls : PollShown(p) \/ PollRefused(p)

Fail == Crash \/ OnClose \/ \E p \in Polls : PollFails(p)

Next == (\E kind \in Kind : Dispatch(kind)) \/ PostAnswer \/ Serve \/ Browse \/ Fail

(* Both sides keep running what they have scheduled, a request to a dead    *)
(* server is refused, and systemd starts it again.                          *)
Fairness ==
  /\ WF_vars(FanOut) /\ WF_vars(Accept) /\ WF_vars(Send) /\ WF_vars(Start)
  /\ WF_vars(OnOpen) /\ WF_vars(OnSnapshot) /\ WF_vars(OnEvent)
  /\ WF_vars(Flush) /\ WF_vars(Connect)
  /\ WF_vars(~up /\ OnClose)
  /\ \A p \in Polls : /\ WF_vars(GetState(p)) /\ WF_vars(PollShown(p))
                      /\ WF_vars(PollRefused(p)) /\ WF_vars(~up /\ PollFails(p))

Spec == Init /\ [][Next]_vars
FairSpec == Spec /\ Fairness

-----------------------------------------------------------------------------
(* The page shows what the server has, a point drawn twice aside.           *)
SameContent(view, b) ==
  /\ view.row = b.row
  /\ view.log = b.log
  /\ ToSet(view.points) = ToSet(b.points)

InFlight == pending \o wire \o (IF queue = None THEN <<>> ELSE queue) \o scheduled

(* Once everything under way has arrived, a page that has had its snapshot  *)
(* shows what the server has -- the promise "given a whole snapshot, then   *)
(* every change" of useConsole.tsx -- unless its queue overflowed, a step   *)
(* was logged without an event, or a late poll wrote over it.               *)
NothingIsMissed == (up /\ seeded /\ spoilt = {}) => SameContent(Shown(store, InFlight), board)

(* However often a turn is delivered, the conversation shows it once.       *)
NoTurnTwice == store # None => IsInjective(store.log)

(* A page whose socket is down polls and is about to reconnect, and one     *)
(* that says "live" has a socket: no page is left behind or pretends.       *)
NeverStranded ==
  /\ sock = "closed" => polling /\ retry
  /\ sock = "open" => ~polling /\ ~retry
  /\ link = "live" <=> sock = "open"

(* Failures over, every page is live again and, unless something parted     *)
(* them, shows what the server has.                                         *)
PageCatchesUp ==
  <>[](link = "live" /\ store # None /\ (spoilt = {} => SameContent(store, board)))

(* What a page holds is whole: what the server has it shows, no turn of    *)
(* the conversation twice, and it is never left without a way to hear more *)
(* (useConsole.tsx, server.py).                                            *)
PageIsWhole ==
  /\ TypeOK
  /\ NothingIsMissed
  /\ NoTurnTwice
  /\ NeverStranded
=============================================================================
