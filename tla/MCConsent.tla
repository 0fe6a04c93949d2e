------------------------------ MODULE MCConsent ------------------------------
(***************************************************************************)
(* consent: the conversation and the bookings page, a queue of one job.    *)
(* Either one booking answered from both pages while something goes wrong, *)
(* or two of them answered from one: two yeses at once overflow the queue. *)
(*                                                                         *)
(* calendar: two entries that share a word, room for one more, two things  *)
(* done on the page and one elsewhere, or one failure.                     *)
(***************************************************************************)
EXTENDS Consent, CalendarPage

VARIABLE part  \* bound: which of the two

CONSTANTS r1, r2, chat, bookings

MCRequests == {r1, r2}
MCPages == {chat, bookings}
MCCards == {chat}
NoPlan == [may |-> {}, open |-> {}, mishaps |-> 0, clicks |-> 0]
MCPlans ==
  {[may |-> {r1}, open |-> MCPages, mishaps |-> 1, clicks |-> 3]} \cup
  {[may |-> MCRequests, open |-> {p}, mishaps |-> 0, clicks |-> 2] : p \in MCPages} \cup
  {NoPlan}
MCShows == [p \in MCPages |-> MCRequests]

Dentist == {"dentist"}
DentistForMum == {"dentist", "mum"}
MCSubjects == {Dentist, DentistForMum}
MCEntries0 == {{[id |-> 1, subject |-> Dentist, day |-> 1, tentative |-> TRUE],
                [id |-> 2, subject |-> DentistForMum, day |-> 2, tentative |-> FALSE]}}
MCAdditions == {[subject |-> DentistForMum, day |-> 1]}

(* A calendar that was read while it was empty. *)
ReadOnce ==
  /\ diary = {} /\ nextId = 1
  /\ work = <<>> /\ outcomes = <<>>
  /\ listing = {} /\ news = <<>> /\ listed = {} /\ selected = NoEntry
  /\ requests = {} /\ taps = 0 /\ elsewhere = 0
  /\ owed = FALSE /\ strange = {}

AskInit ==
  /\ Init
  /\ \/ part = "consent" /\ may # {} /\ ReadOnce
     \/ part = "calendar" /\ may = {} /\ CalendarInit

AskNext ==
  \/ part = "consent" /\ Next /\ UNCHANGED <<calendarVars, part>>
  \/ part = "calendar" /\ CalendarNext /\ UNCHANGED <<vars, part>>

AskSpec ==
  /\ AskInit /\ [][AskNext]_<<vars, calendarVars, part>>
  /\ Fairness /\ CalendarFairness

(* Asking comes to an end: the outcome of a yes is told, the pages come to *)
(* agree on what is waiting, a list's buttons come back, and the page      *)
(* comes to show the calendar as it is (executor.py, state.py,             *)
(* Pending.tsx, Calendar.tsx).                                             *)
AskingEnds ==
  /\ YesIsAnswered
  /\ PagesAgree
  /\ ListComesBack
  /\ CalendarComesTrue
=============================================================================
