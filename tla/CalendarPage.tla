---------------------------- MODULE CalendarPage ----------------------------
(***************************************************************************)
(* The calendar kept on the node, and the page that shows it (FR-58,       *)
(* FR-77).                                                                 *)
(*                                                                         *)
(* Page (src/console/web/src/pages/Calendar.tsx, Home.tsx Today): reads    *)
(* the calendar when it opens and whenever it is told that it is stale;    *)
(* entries are chosen from the list or from a copy opened earlier.         *)
(*                                                                         *)
(* Console (actions.py, state.py): every request is an invocation for the  *)
(* executor; the answer to a read fills the view, a change makes it stale. *)
(*                                                                         *)
(* Executor (assistance/providers/local_calendar.py): one worker; an entry *)
(* is kept by its id, and removed by the words of its subject and its day. *)
(* The Google mirror and the bookings write into the same calendar.        *)
(*                                                                         *)
(* A subject is the set of its telling words (longer than two letters).    *)
(***************************************************************************)
EXTENDS Integers, Sequences, FiniteSets, FiniteSetsExt, SequencesExt

CONSTANTS
  Subjects,    \* sets of words
  Days,
  NoEntry,
  MaxEvents,   \* the calendar's bound
  Entries0,    \* bound: what the calendar may start with
  Additions,       \* bound: what may be added to it
  Taps,        \* bound: what the occupant does on the page
  Elsewhere    \* bound: what others do, and what goes wrong

VARIABLES
  diary,       \* executor: LocalCalendar._events
  nextId,      \* executor: LocalCalendar._next_id
  work,        \* executor: invocations waiting for the worker
  outcomes,    \* results on their way to the console
  listing,     \* console: _calendar
  news,        \* page: calendar and calendar_stale events on their way
  listed,      \* page: state.calendar.entries
  selected,    \* page: the copy of the entry opened
  requests,    \* page: requests in flight, unordered
  taps,      \* bound
  elsewhere,   \* bound
  owed,        \* history: the calendar changed, or a read failed, and no page was told
  strange      \* history: entries removed instead of one that was there to be removed

calendarVars == <<diary, nextId, work, outcomes, listing, news, listed, selected, requests, taps,
                  elsewhere, owed, strange>>
executorC == <<diary, nextId, work>>
pageC == <<news, listed, selected>>

Plan == [subject : Subjects, day : Days]
Entry == [id : Nat, subject : Subjects, day : Days, tentative : BOOLEAN]
Invocation == [kind : {"read"}, entry : {NoEntry}, n : Nat]
   \cup [kind : {"add", "pencil"}, entry : Plan, n : Nat]
   \cup [kind : {"remove", "keep", "move"}, entry : Entry, n : Nat]

Report == [kind : {"read", "done", "failed"}, ok : BOOLEAN, entries : SUBSET Entry]
Notice == [stale : BOOLEAN, entries : SUBSET Entry]

Distinct(es) == \A e, f \in es : e.id = f.id => e = f

ASSUME CalendarAssumption ==
  /\ NoEntry \notin Entry
  /\ \A s \in Subjects : IsFiniteSet(s)
  /\ \A es \in Entries0 :
       /\ es \subseteq Entry /\ Distinct(es) /\ \A e \in es : e.id <= MaxEvents
       /\ IsFiniteSet(es) /\ Cardinality(es) <= MaxEvents
  /\ Additions \subseteq Plan
  /\ {MaxEvents, Taps, Elsewhere} \subseteq Nat

CalendarTypeOK ==
  /\ diary \subseteq Entry /\ Distinct(diary)
  /\ IsFiniteSet(diary) /\ Cardinality(diary) <= MaxEvents
  /\ \A e \in diary : e.id < nextId
  /\ nextId \in Nat
  /\ work \in Seq(Invocation) /\ outcomes \in Seq(Report) /\ news \in Seq(Notice)
  /\ listing \subseteq Entry /\ listed \subseteq Entry
  /\ selected \in Entry \cup {NoEntry}
  /\ requests \subseteq Invocation
  /\ taps \in 0..Taps /\ elsewhere \in 0..Elsewhere
  /\ owed \in BOOLEAN /\ strange \subseteq Entry

Read(n) == [kind |-> "read", entry |-> NoEntry, n |-> n]

CalendarInit ==
  /\ diary \in Entries0 /\ nextId = MaxEvents + 1
  /\ work = <<>> /\ outcomes = <<>>
  /\ listing = {} /\ news = <<>> /\ listed = {} /\ selected = NoEntry
  /\ requests = {Read(0)}
  /\ taps = 0 /\ elsewhere = 0
  /\ owed = FALSE /\ strange = {}

-----------------------------------------------------------------------------
(* The calendar. *)

(* Mutant: the first that matches, without asking back. *)
FirstMatching(words, day) ==
  LET found == {e \in diary : words # {} /\ words \subseteq e.subject}
  IN IF found = {} THEN {} ELSE {CHOOSE e \in found : \A f \in found : e.day <= f.day}
(* _one_matching: entries whose subject has all the words; the day only      *)
(* tells several apart, and then only if one of them is on it.  Exactly one  *)
(* must be left.                                                             *)
OneMatching(words, day) ==
  LET found == {e \in diary : words # {} /\ words \subseteq e.subject}
      onDay == {e \in found : e.day = day}
      left == IF Cardinality(found) > 1 /\ onDay # {} THEN onDay ELSE found
  IN IF Cardinality(left) = 1 THEN left ELSE {}

SamePlan(subject, day) ==
  \E e \in diary : e.day = day /\ (subject \subseteq e.subject \/ e.subject \subseteq subject)

Made(p, tentative) == [id |-> nextId, subject |-> p.subject, day |-> p.day, tentative |-> tentative]

HasSpace == Cardinality(diary) < MaxEvents

(* What one invocation makes of the calendar; itself if it is refused.  An   *)
(* entry pencilled in again, or kept again, changes nothing.                 *)
After(job) ==
  CASE job.kind = "add" /\ HasSpace ->
         diary \cup {Made(job.entry, FALSE)}
    [] job.kind = "pencil" /\ HasSpace /\ ~SamePlan(job.entry.subject, job.entry.day) ->
         diary \cup {Made(job.entry, TRUE)}
    [] job.kind = "remove" -> diary \ OneMatching(job.entry.subject, job.entry.day)
    [] job.kind = "keep" ->
         {IF e.id = job.entry.id THEN [e EXCEPT !.tentative = FALSE] ELSE e : e \in diary}
    [] job.kind = "move" ->
         {IF e.id = job.entry.id THEN [e EXCEPT !.day = job.entry.day] ELSE e : e \in diary}
    [] OTHER -> diary

(* _on_result: OK for schedule_event, cancel_event, move_event, keep_event,  *)
(* and for pencil_event if it added one.                                     *)
Tells(job) ==
  \/ After(job) # diary
  \/ job.kind \in {"keep", "move"} /\ \E e \in diary : e.id = job.entry.id

(* The worker does the oldest invocation; a read may be refused or fail. *)
Perform ==
  /\ work # <<>>
  /\ LET job == Head(work) IN
     /\ work' = Tail(work)
     /\ diary' = After(job)
     /\ nextId' = IF Cardinality(diary') > Cardinality(diary) THEN nextId + 1 ELSE nextId
     /\ strange' = IF job.kind = "remove" /\ job.entry \in diary
                     THEN strange \cup ((diary \ diary') \ {job.entry}) ELSE strange
     /\ \/ /\ outcomes' = Append(outcomes, [kind |-> IF job.kind = "read" THEN "read" ELSE "done", ok |-> Tells(job),
                                          entries |-> IF job.kind = "read" THEN diary ELSE {}])
           /\ owed' = IF job.kind = "read" THEN FALSE ELSE owed
           /\ UNCHANGED elsewhere
        \/ /\ job.kind = "read" /\ elsewhere < Elsewhere /\ elsewhere' = elsewhere + 1
           /\ outcomes' = Append(outcomes, [kind |-> "failed", ok |-> FALSE, entries |-> {}])
           /\ owed' = TRUE
     /\ UNCHANGED <<listing, pageC, requests, taps>>

(* A plan is overheard, or an entry is moved or removed by voice. *)
AskAloud(job) ==
  /\ elsewhere < Elsewhere /\ elsewhere' = elsewhere + 1
  /\ job.kind \in {"pencil", "move"}
  /\ job.kind = "move" => job.entry.id \in {e.id : e \in diary}
  /\ work' = Append(work, job)
  /\ UNCHANGED <<diary, nextId, outcomes, listing, pageC, requests, taps, owed, strange>>

(* TravelWithItinerary and GoogleSync._pull write into the calendar, and     *)
(* nothing says that it changed.                                             *)
WriteSilently ==
  /\ elsewhere < Elsewhere /\ elsewhere' = elsewhere + 1
  /\ \/ /\ HasSpace
        /\ \E p \in Additions : diary' = diary \cup {Made(p, FALSE)}
        /\ nextId' = nextId + 1
     \/ /\ \E e \in diary : diary' = diary \ {e}
        /\ UNCHANGED nextId
  /\ owed' = TRUE
  /\ UNCHANGED <<work, outcomes, listing, pageC, requests, taps, strange>>

-----------------------------------------------------------------------------
(* The console. *)

(* refresh_calendar, add_entry, remove_entry, keep_entry: published for the  *)
(* executor; the page is told it was, and closes what it had opened.         *)
TakeRequest(r) ==
  /\ r \in requests
  /\ requests' = requests \ {r}
  /\ work' = Append(work, r)
  /\ selected' = IF r.kind \in {"remove", "keep"} THEN NoEntry ELSE selected
  /\ UNCHANGED <<diary, nextId, outcomes, listing, news, listed, taps, elsewhere, owed, strange>>

OnOutcome ==
  /\ outcomes # <<>>
  /\ LET o == Head(outcomes) IN
     /\ outcomes' = Tail(outcomes)
     /\ listing' = IF o.kind # "done" THEN o.entries ELSE listing
     /\ news' = CASE o.kind # "done" -> Append(news, [stale |-> FALSE, entries |-> listing'])
                  [] o.kind = "done" /\ o.ok -> Append(news, [stale |-> TRUE, entries |-> {}])
                  [] OTHER -> news
  /\ UNCHANGED <<executorC, listed, selected, requests, taps, elsewhere, owed, strange>>

-----------------------------------------------------------------------------
(* The page. *)

(* Two reads in flight at once are one: neither has been taken. *)
Fresh == Read(taps + elsewhere)

(* One batch of events; calendarStale goes up, and the effect reads again. *)
DrawCalendar ==
  \E n \in 1..Len(news) :
    LET lists == {i \in 1..n : ~news[i].stale}
    IN /\ news' = SubSeq(news, n + 1, Len(news))
       /\ \/ lists = {} /\ listed' = listed
          \/ \E last \in lists : (\A i \in lists : i <= last) /\ listed' = news[last].entries
       /\ requests' = IF lists = 1..n THEN requests ELSE requests \cup {Fresh}
       /\ UNCHANGED <<executorC, outcomes, listing, selected, taps, elsewhere, owed, strange>>

Tap == taps < Taps /\ taps' = taps + 1
Request(kind, e) == requests' = requests \cup {[kind |-> kind, entry |-> e, n |-> taps' + elsewhere]}

Select(e) ==
  /\ e \in listed /\ selected # e /\ Tap
  /\ selected' = e
  /\ UNCHANGED <<executorC, outcomes, listing, news, listed, requests, elsewhere, owed, strange>>

(* The buttons of a pencilled entry, and of the copy opened: there is no     *)
(* busy state, and the copy may be of an entry since changed.                *)
PressEntry(kind, e) ==
  /\ e = selected \/ e \in {f \in listed : f.tentative}
  /\ kind = "keep" => e.tentative
  /\ Tap /\ Request(kind, e)
  /\ UNCHANGED <<executorC, outcomes, listing, pageC, elsewhere, owed, strange>>

AddNew(p) ==
  /\ ~\E r \in requests : r.kind = "add"  \* AddEntry.busy
  /\ Tap /\ Request("add", p)
  /\ UNCHANGED <<executorC, outcomes, listing, pageC, elsewhere, owed, strange>>

(* Refresh, or the page left and opened again. *)
OpenAgain ==
  /\ Tap
  /\ selected' \in {selected, NoEntry}
  /\ requests' = requests \cup {Read(taps' + elsewhere)}
  /\ UNCHANGED <<executorC, outcomes, listing, news, listed, elsewhere, owed, strange>>

LoseRequest(r) ==
  /\ r \in requests /\ elsewhere < Elsewhere /\ elsewhere' = elsewhere + 1
  /\ requests' = requests \ {r}
  /\ owed' = (owed \/ r.kind = "read")
  /\ UNCHANGED <<executorC, outcomes, listing, pageC, taps, strange>>

(* The socket drops and comes back: the page is given the console's state,   *)
(* and never hears that it was stale.                                        *)
CutCalendar ==
  /\ elsewhere < Elsewhere /\ elsewhere' = elsewhere + 1
  /\ news # <<>>
  /\ news' = <<>> /\ listed' = listing
  /\ owed' = (owed \/ \E i \in DOMAIN news : news[i].stale)
  /\ UNCHANGED <<executorC, outcomes, listing, selected, requests, taps, strange>>

-----------------------------------------------------------------------------
CalendarActs == Perform \/ OnOutcome \/ DrawCalendar \/ \E r \in requests : TakeRequest(r)

CalendarNext ==
  \/ CalendarActs
  \/ \E e \in (listed \cup {selected}) \ {NoEntry} : Select(e) \/ PressEntry("remove", e) \/ PressEntry("keep", e)
  \/ \E p \in Additions : AddNew(p) \/ AskAloud([kind |-> "pencil", entry |-> p, n |-> 0])
  \/ \E e \in diary, d \in Days : AskAloud([kind |-> "move", entry |-> [e EXCEPT !.day = d], n |-> 0])
  \/ WriteSilently \/ OpenAgain \/ CutCalendar
  \/ \E r \in requests : LoseRequest(r)

(* Requests and messages arrive, the worker works, the page draws. *)
CalendarFairness == WF_calendarVars(CalendarActs)

-----------------------------------------------------------------------------
(* Remove takes the entry it was pressed on, however its words are shared,   *)
(* as long as that entry is still in the calendar as the page shows it.      *)
(* Otherwise another may go instead: Discard pressed twice on "dentist"      *)
(* removes "dentist for mum" (local_calendar.py:385-409).                    *)
RemovesWhatWasChosen == strange = {}

(* The page comes to show the calendar as it is, unless the last that        *)
(* happened to it was never announced: an entry of a booking or of Google's, *)
(* a read lost or failed, an announcement lost with the socket.              *)
CalendarComesTrue == <>[](~owed => listed = diary)

(* The calendar keeps what it was given, up to its cap, and removes what *)
(* was chosen on the page (local_calendar.py, Calendar.tsx).             *)
CalendarIsKept ==
  /\ CalendarTypeOK
  /\ RemovesWhatWasChosen
=============================================================================
