------------------------------ MODULE Consent ------------------------------
(***************************************************************************)
(* A commitment from the request to the occupant's yes and its outcome:    *)
(* what books a trip or sends a mail is held until a person agrees.        *)
(*                                                                         *)
(* Executor (src/src/assistance/executor.py, common/tools.py): its network *)
(* thread puts every invocation on a bounded queue, its worker runs them;  *)
(* the topic an invocation arrived on says whether it was confirmed.       *)
(*                                                                         *)
(* Console (src/src/console/actions.py, state.py, server.py): remembers    *)
(* the invocations it sees, lists the ones held, and publishes a yes.      *)
(*                                                                         *)
(* Pages (src/console/web/src): the conversation shows a card per request  *)
(* (Conversation.tsx), the bookings and mail pages a list of their own     *)
(* tool's (Pending.tsx), in any number of browsers.                        *)
(*                                                                         *)
(* Neither the proposal, the confirmation nor the result is retained, and  *)
(* every session is a clean one: what is sent to a process that is down is *)
(* lost, and nothing is delivered twice.  Only the console publishes on    *)
(* the confirmed topic.                                                    *)
(***************************************************************************)
EXTENDS Naturals, Sequences, FiniteSets

CONSTANTS
  Requests,   \* the invocations: tool calls that commit the occupant
  Pages,      \* the open pages
  Shows,      \* Shows[p]: the requests of the tools page p lists
  Cards,      \* the pages that are conversations
  WorkQueue,  \* _WORK_QUEUE: jobs waiting for the worker
  Plans       \* bounds: the requests, pages, answers and mishaps of a run

ASSUME ConsentAssumption ==
  /\ WorkQueue \in Nat \ {0}
  /\ Cards \subseteq Pages
  /\ Shows \in [Pages -> SUBSET Requests]
  /\ Plans \subseteq [may : SUBSET Requests, open : SUBSET Pages, mishaps : Nat, clicks : Nat]

VARIABLES
  up,        \* executor: whether it runs
  inbox,     \* executor: invocations published to it, not yet handled
  jobs,      \* executor: Worker._jobs, the one being run first
  seen,      \* executor: AssistanceExecutor._confirmed
  results,   \* results published, not yet folded by the console
  known,     \* console: ConsoleState._invocations
  waiting,   \* console: ConsoleState._waiting
  agreed,    \* console: ConsoleState._confirmed
  pushed,    \* console: the waiting list last pushed to the pages
  shown,     \* pages: state.waiting of each page
  busy,      \* pages: the cards or the list item each page is busy with
  posts,     \* pages: the requests in flight to the console
  asked,     \* the requests made
  expired,   \* the requests past their expires_ts
  may,       \* bound: the requests that may be made
  open,      \* bound: the pages that are open
  mishaps,   \* bound: crashes, losses, evictions and expiries that may still come
  clicks,    \* bound: answers the occupants may still give
  done,      \* history: how often the provider carried a request out
  yeses,     \* history: how often a yes to it was published
  settled,   \* history: answered here or finished, in this console's life
  said,      \* history: the outcome was told in the conversation
  lost,      \* history: a crash, or the evicted invocation, broke its path
  deaths     \* history: deaths of the executor

executor == <<up, inbox, jobs, seen>>
console == <<known, waiting, agreed, pushed>>
page == <<shown, busy, posts>>
history == <<done, yeses, settled, said, lost, deaths>>
bounds == <<may, open, mishaps, clicks>>
vars == <<executor, results, console, page, asked, expired, bounds, history>>

Lists == Pages \ Cards
Job == [r : Requests, confirmed : BOOLEAN]
Status == {"OK", "FAILED", "EXPIRED", "CONFIRMATION_REQUIRED", "UNAVAILABLE"}
Result == [r : Requests, status : Status]
Post == [page : Pages, r : Requests, what : {"yes", "no", "ask"}, at : {"out", "ok", "refused"}]

TypeOK ==
  /\ up \in BOOLEAN
  /\ inbox \in Seq(Job) /\ jobs \in Seq(Job) /\ Len(jobs) <= WorkQueue
  /\ seen \subseteq Requests
  /\ results \in Seq(Result)
  /\ known \subseteq asked /\ waiting \subseteq asked /\ agreed \subseteq asked
  /\ pushed \subseteq Requests
  /\ shown \in [Pages -> SUBSET Requests]
  /\ busy \in [Pages -> SUBSET Requests] /\ \A p \in Lists : \A r, q \in busy[p] : r = q
  /\ posts \subseteq Post
  /\ asked \subseteq Requests /\ expired \subseteq Requests
  /\ may \subseteq Requests /\ open \subseteq Pages /\ mishaps \in Nat /\ clicks \in Nat /\ deaths \in Nat
  /\ done \in [Requests -> Nat] /\ yeses \in [Requests -> Nat]
  /\ settled \subseteq Requests /\ said \subseteq Requests /\ lost \subseteq Requests

Init ==
  /\ up = TRUE /\ inbox = <<>> /\ jobs = <<>> /\ seen = {} /\ results = <<>>
  /\ known = {} /\ waiting = {} /\ agreed = {} /\ pushed = {}
  /\ shown = [p \in Pages |-> {}] /\ busy = [p \in Pages |-> {}] /\ posts = {}
  /\ asked = {} /\ expired = {}
  /\ \E plan \in Plans : may = plan.may /\ open = plan.open /\ mishaps = plan.mishaps /\ clicks = plan.clicks
  /\ done = [r \in Requests |-> 0] /\ yeses = [r \in Requests |-> 0]
  /\ settled = {} /\ said = {} /\ lost = {} /\ deaths = 0

-----------------------------------------------------------------------------
Mishap == mishaps > 0 /\ mishaps' = mishaps - 1 /\ UNCHANGED <<may, open, clicks>>

(* Publishing to the executor. *)

Publish(r, confirmed) ==
  /\ inbox' = IF up THEN Append(inbox, [r |-> r, confirmed |-> confirmed]) ELSE inbox
  /\ lost' = IF up THEN lost ELSE lost \cup {r}

(* The console sees a proposal before any result of it. *)
Proposed(r) ==
  /\ r \in may \ asked
  /\ asked' = asked \cup {r}
  /\ known' = known \cup {r}
  /\ Publish(r, FALSE)

(* The assistant proposes. *)
Propose(r) ==
  /\ Proposed(r)
  /\ UNCHANGED <<up, jobs, seen, results, waiting, agreed, pushed, page, expired, bounds,
                 done, yeses, settled, said, deaths>>

(* The form of a bookings or mail page: its button waits for the answer. *)
Submit(p, r) ==
  /\ p \in Lists \cap open /\ r \in (Shows[p] \cap may) \ asked
  /\ ~ \E post \in posts : post.what = "ask" /\ (post.page = p \/ post.r = r)
  /\ posts' = posts \cup {[page |-> p, r |-> r, what |-> "ask", at |-> "out"]}
  /\ UNCHANGED <<executor, results, console, shown, busy, asked, expired, bounds, history>>

-----------------------------------------------------------------------------
(* The executor. *)

HasRoom == Len(jobs) < WorkQueue

(* Mutant: a repeated confirmation is not recognised. *)
RepeatedNever(job) == FALSE
Repeated(job) == job.confirmed /\ job.r \in seen

(* A confirmed invocation is remembered before it is queued; a full queue    *)
(* is answered at once, from the network thread.                             *)
Take ==
  /\ inbox # <<>>
  /\ inbox' = Tail(inbox)
  /\ LET job == Head(inbox) IN
     IF Repeated(job)
       THEN UNCHANGED <<jobs, seen, results>>
       ELSE /\ seen' = IF job.confirmed THEN seen \cup {job.r} ELSE seen
            /\ IF HasRoom
                 THEN jobs' = Append(jobs, job) /\ UNCHANGED results
                 ELSE /\ results' = Append(results, [r |-> job.r, status |-> "UNAVAILABLE"])
                      /\ UNCHANGED jobs
  /\ UNCHANGED <<up, console, page, asked, expired, bounds, history>>

(* Expiry is checked before the gate, the gate before the provider. *)
Outcomes(job) ==
  IF job.r \in expired THEN {"EXPIRED"}
  ELSE IF ~job.confirmed THEN {"CONFIRMATION_REQUIRED"}
  ELSE {"OK", "FAILED"}

Ran(job, status) ==
  done' = IF status = "OK" THEN [done EXCEPT ![job.r] = @ + 1] ELSE done

Work ==
  /\ jobs # <<>>
  /\ jobs' = Tail(jobs)
  /\ \E status \in Outcomes(Head(jobs)) :
       /\ Ran(Head(jobs), status)
       /\ results' = Append(results, [r |-> Head(jobs).r, status |-> status])
  /\ UNCHANGED <<up, inbox, seen, console, page, asked, expired, bounds,
                 yeses, settled, said, lost, deaths>>

(* The process dies, perhaps after the provider acted and before the result. *)
Die ==
  /\ up /\ Mishap
  /\ up' = FALSE /\ deaths' = deaths + 1
  /\ inbox' = <<>> /\ jobs' = <<>> /\ seen' = {}
  /\ lost' = lost \cup {m.r : m \in {inbox[i] : i \in DOMAIN inbox} \cup {jobs[i] : i \in DOMAIN jobs}}
  /\ \/ done' = done
     \/ /\ jobs # <<>>
        /\ \E status \in Outcomes(Head(jobs)) : Ran(Head(jobs), status)
  /\ UNCHANGED <<results, console, page, asked, expired, yeses, settled, said>>

Restart ==
  /\ ~up
  /\ up' = TRUE
  /\ UNCHANGED <<inbox, jobs, seen, results, console, page, asked, expired, bounds, history>>

-----------------------------------------------------------------------------
(* The console. *)

(* What is said in the conversation: the end of what was agreed to here. *)
Told(r, status) == {r} \cap agreed

(* _on_result: a held request is listed, any other outcome ends it. *)
Fold ==
  /\ results # <<>>
  /\ results' = Tail(results)
  /\ LET r == Head(results).r IN
     IF Head(results).status = "CONFIRMATION_REQUIRED"
       THEN /\ waiting' = IF r \in known THEN waiting \cup {r} ELSE waiting
            /\ pushed' = IF r \in known THEN waiting' ELSE pushed
            /\ UNCHANGED <<agreed, said, settled>>
       ELSE /\ waiting' = waiting \ {r}
            /\ pushed' = IF r \in waiting THEN waiting' ELSE pushed
            /\ agreed' = agreed \ {r}
            /\ said' = said \cup Told(r, Head(results).status)
            /\ settled' = settled \cup {r}
  /\ UNCHANGED <<executor, known, page, asked, expired, bounds, done, yeses, lost, deaths>>

(* ConsoleState.settle *)
Settle(r, yes) ==
  /\ waiting' = waiting \ {r}
  /\ agreed' = IF yes /\ r \in waiting THEN agreed \cup {r} ELSE agreed

(* ConsoleActions.answer, under the server's lock.  A no publishes nothing. *)
Answer(post) ==
  /\ post \in posts /\ post.at = "out" /\ post.what # "ask"
  /\ IF post.r \notin known
       THEN /\ posts' = (posts \ {post}) \cup {[post EXCEPT !.at = "refused"]}
            /\ UNCHANGED <<inbox, lost, yeses, settled, waiting, agreed>>
       ELSE /\ posts' = (posts \ {post}) \cup {[post EXCEPT !.at = "ok"]}
            /\ Settle(post.r, post.what = "yes")
            /\ settled' = settled \cup {post.r}
            /\ IF post.what = "yes"
                 THEN /\ Publish(post.r, TRUE)
                      /\ yeses' = [yeses EXCEPT ![post.r] = @ + 1]
                 ELSE UNCHANGED <<inbox, lost, yeses>>
  /\ UNCHANGED <<up, jobs, seen, results, known, pushed, shown, busy, asked, expired, bounds,
                 done, said, deaths>>

(* ConsoleActions.book, send_mail *)
Book(post) ==
  /\ post \in posts /\ post.at = "out" /\ post.what = "ask"
  /\ Proposed(post.r)
  /\ posts' = (posts \ {post}) \cup {[post EXCEPT !.at = "ok"]}
  /\ UNCHANGED <<up, jobs, seen, results, waiting, agreed, pushed, shown, busy, expired, bounds,
                 done, yeses, settled, said, deaths>>

(* activity_kept newer invocations push this one out. *)
Forget(r) ==
  /\ r \in known /\ Mishap
  /\ known' = known \ {r}
  /\ lost' = lost \cup {r}
  /\ UNCHANGED <<executor, results, waiting, agreed, pushed, page, asked, expired,
                 done, yeses, settled, said, deaths>>

(* A console that starts again has seen no invocation; the pages come back   *)
(* to an empty list, and what they had asked fails.                          *)
Reopen ==
  /\ known # {} /\ Mishap
  /\ known' = {} /\ waiting' = {} /\ agreed' = {} /\ pushed' = {} /\ results' = <<>>
  /\ settled' = {}
  /\ lost' = lost \cup asked
  /\ posts' = {[post EXCEPT !.at = "refused"] : post \in posts}
  /\ UNCHANGED <<executor, shown, busy, asked, expired, done, yeses, said, deaths>>

-----------------------------------------------------------------------------
(* The pages. *)

(* A pushed list reaches a page; a card that goes takes its state with it. *)
Deliver(p) ==
  /\ p \in open /\ shown[p] # pushed
  /\ shown' = [shown EXCEPT ![p] = pushed]
  /\ busy' = IF p \in Cards THEN [busy EXCEPT ![p] = @ \cap pushed] ELSE busy
  /\ UNCHANGED <<executor, results, console, posts, asked, expired, bounds, history>>

(* A card has buttons of its own; a list shares one state between its items  *)
(* and offers no yes to a request that has expired.                          *)
Offered(p, r, what) ==
  /\ r \in shown[p] \cap Shows[p]
  /\ IF p \in Cards THEN r \notin busy[p]
     ELSE busy[p] = {} /\ (what = "yes" => r \notin expired)

Click(p, r, what) ==
  /\ Offered(p, r, what)
  /\ busy' = [busy EXCEPT ![p] = @ \cup {r}]
  /\ posts' = posts \cup {[page |-> p, r |-> r, what |-> what, at |-> "out"]}
  /\ clicks > 0 /\ clicks' = clicks - 1
  /\ UNCHANGED <<executor, results, console, shown, asked, expired, may, open, mishaps, history>>

(* What post_answer pushes to every page. *)
Push(post) == IF post.what = "ask" THEN pushed ELSE waiting

(* Mutant: the list is freed by a success only. *)
FreeIfOk(post) ==
  IF post.page \in Lists /\ post.at = "ok" THEN [busy EXCEPT ![post.page] = @ \ {post.r}] ELSE busy
(* The list's buttons come back with any answer; a card's do not. *)
Free(post) == IF post.page \in Lists THEN [busy EXCEPT ![post.page] = @ \ {post.r}] ELSE busy

(* The answer of the console: the waiting list is pushed first, to every      *)
(* page, whatever the answer was.                                            *)
Respond(post) ==
  /\ post \in posts /\ post.at # "out"
  /\ pushed' = Push(post)
  /\ posts' = posts \ {post}
  /\ busy' = Free(post)
  /\ UNCHANGED <<executor, results, known, waiting, agreed, shown, asked, expired, bounds, history>>

(* The request does not reach the console. *)
Lose(post) ==
  /\ post \in posts /\ post.at = "out" /\ Mishap
  /\ posts' = posts \ {post}
  /\ busy' = Free(post)
  /\ UNCHANGED <<executor, results, console, shown, asked, expired, history>>

(* Another page of the same browser is opened, and this one again.  Bound:   *)
(* not while it has asked something.                                         *)
Leave(p) ==
  /\ busy[p] # {} /\ \A post \in posts : post.page # p
  /\ busy' = [busy EXCEPT ![p] = {}]
  /\ UNCHANGED <<executor, results, console, shown, posts, asked, expired, bounds, history>>

Expire(r) ==
  /\ r \in asked \ expired /\ Mishap
  /\ expired' = expired \cup {r}
  /\ UNCHANGED <<executor, results, console, page, asked, history>>

-----------------------------------------------------------------------------
Serve(p) == \E post \in {x \in posts : x.page = p} : Answer(post) \/ Book(post) \/ Respond(post)

Handle ==
  \/ Take \/ Work \/ Restart \/ Fold
  \/ \E p \in Pages : Deliver(p) \/ Serve(p)

Next ==
  \/ Handle
  \/ \E r \in Requests : Propose(r) \/ Forget(r) \/ Expire(r)
  \/ \E p \in Pages, r \in Requests : Submit(p, r) \/ \E what \in {"yes", "no"} : Click(p, r, what)
  \/ \E post \in posts : Lose(post)
  \/ \E p \in Pages : Leave(p)
  \/ Die \/ Reopen

Spec == Init /\ [][Next]_vars

(* Threads that run, sockets that deliver, a server that answers, a service  *)
(* manager that restarts; nobody need click, and nothing need fail.          *)
Fairness ==
  /\ WF_vars(Take) /\ WF_vars(Work) /\ WF_vars(Restart) /\ WF_vars(Fold)
  /\ \A p \in Pages : WF_vars(Deliver(p)) /\ WF_vars(Serve(p))

FairSpec == Spec /\ Fairness

-----------------------------------------------------------------------------
(* Every time a request is carried out, a person's yes to it was published:  *)
(* two yeses do not come of one, and the bound on repeats survives whatever  *)
(* the queue, the expiry and the refusals do (executor.py:12-20).            *)
EveryDeedHasItsYes ==
  \A r \in Requests : done[r] <= yeses[r] /\ done[r] <= 1 + deaths

(* A request that was answered or that ended is not put to the occupant      *)
(* again, by any order of results, answers and restarts of the executor.     *)
NobodyIsAskedTwice == waiting \cap settled = {}

(* The outcome of a yes is told: "or the occupant never learns it was        *)
(* booked" (state.py:600-601).  Only a crash on its way takes it away.       *)
YesIsAnswered == \A r \in Requests : r \in agreed ~> r \in said \cup lost

(* Every page comes to show what the console holds to be waiting, whichever  *)
(* page the answer was given on.                                             *)
PagesAgree == \A p \in Pages : []<>(p \in open => shown[p] = waiting)

(* A list's buttons come back, whatever became of the answer they sent.      *)
ListComesBack == \A p \in Lists : []<>(busy[p] = {})

(* Consent is kept: every deed has its yes, and nobody is asked again what *)
(* was answered (executor.py, state.py).                                   *)
ConsentIsKept ==
  /\ TypeOK
  /\ EveryDeedHasItsYes
  /\ NobodyIsAskedTwice
=============================================================================
