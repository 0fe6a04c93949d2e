--------------------------- MODULE Consent_proofs ---------------------------
(***************************************************************************)
(* Every deed has its yes, and nobody is asked twice: for any requests,    *)
(* pages, lists and bounds.                                                *)
(*                                                                         *)
(* Both follow from counting what is under way.  A yes that was published  *)
(* is in the executor's inbox, in its queue, or carried out, never in two  *)
(* of these (Paid); a proposal is unanswered in at most one place, and as  *)
(* long as it is, no page and no list has had anything of it (Asking).     *)
(*                                                                         *)
(* Of the calendar: what is removed from the page is what was chosen, for  *)
(* an entry that is still there always matches itself.                     *)
(***************************************************************************)
EXTENDS Consent, CalendarPage, FiniteSetTheorems, SequenceTheorems, TLAPS

-----------------------------------------------------------------------------
(* How often x is in the sequence s. *)
Places(s, x) == {i \in DOMAIN s : s[i] = x}
Count(s, x) == Cardinality(Places(s, x))

LEMMA CountTyped ==
  ASSUME NEW S, NEW s \in Seq(S), NEW x
  PROVE  /\ IsFiniteSet(Places(s, x)) /\ Count(s, x) \in Nat
         /\ Count(s, x) = 0 <=> \A i \in DOMAIN s : s[i] # x
<1>1. IsFiniteSet(1..Len(s)) /\ DOMAIN s = 1..Len(s)
  BY FS_Interval
<1>2. IsFiniteSet(Places(s, x))
  BY <1>1, FS_Subset DEF Places
<1>3. Count(s, x) = 0 <=> Places(s, x) = {}
  BY <1>2, FS_EmptySet DEF Count
<1> QED BY <1>2, <1>3, FS_CardinalityType DEF Count, Places

LEMMA CountEmpty == \A x : Count(<<>>, x) = 0
<1> SUFFICES ASSUME NEW x PROVE Count(<<>>, x) = 0
  OBVIOUS
<1>1. Places(<<>>, x) = {}
  BY DEF Places
<1> QED BY <1>1, FS_EmptySet DEF Count

LEMMA CountAppend ==
  ASSUME NEW S, NEW s \in Seq(S), NEW y \in S, NEW x
  PROVE  Count(Append(s, y), x) = IF y = x THEN Count(s, x) + 1 ELSE Count(s, x)
<1> DEFINE t == Append(s, y)
<1>1. /\ t \in Seq(S) /\ DOMAIN t = DOMAIN s \cup {Len(s) + 1} /\ Len(s) + 1 \notin DOMAIN s
      /\ t[Len(s) + 1] = y /\ \A i \in DOMAIN s : t[i] = s[i]
  OBVIOUS
<1>2. CASE y = x
  <2>1. Places(t, x) = Places(s, x) \cup {Len(s) + 1} /\ Len(s) + 1 \notin Places(s, x)
    BY <1>1, <1>2 DEF Places
  <2> QED BY <1>2, <2>1, CountTyped, FS_AddElement DEF Count
<1>3. CASE y # x
  <2>1. Places(t, x) = Places(s, x)
    BY <1>1, <1>3 DEF Places
  <2> QED BY <1>3, <2>1 DEF Count
<1> QED BY <1>2, <1>3

LEMMA CountTail ==
  ASSUME NEW S, NEW s \in Seq(S), s # <<>>, NEW x
  PROVE  Count(s, x) = IF Head(s) = x THEN Count(Tail(s), x) + 1 ELSE Count(Tail(s), x)
<1> DEFINE t == Tail(s)
           rest == Places(s, x) \ {1}
           next == [i \in Places(t, x) |-> i + 1]
<1>1. /\ t \in Seq(S) /\ Len(s) \in Nat \ {0} /\ DOMAIN s = 1..Len(s) /\ DOMAIN t = 1..(Len(s) - 1)
      /\ Head(s) = s[1] /\ \A i \in DOMAIN t : t[i] = s[i + 1]
  OBVIOUS
<1>2. next \in Bijection(Places(t, x), rest)
  <2>1. \A i \in Places(t, x) : i + 1 \in rest
    BY <1>1 DEF Places
  <2>2. \A j \in rest : j - 1 \in Places(t, x) /\ next[j - 1] = j
    BY <1>1 DEF Places
  <2>3. \A i, j \in Places(t, x) : i + 1 = j + 1 => i = j
    BY <1>1 DEF Places
  <2>4. next \in [Places(t, x) -> rest]
    BY <2>1
  <2> HIDE DEF rest
  <2> QED BY <2>2, <2>3, <2>4 DEF Bijection, Injection, Surjection, IsInjective
<1>3. IsFiniteSet(Places(t, x)) /\ IsFiniteSet(Places(s, x))
  BY <1>1, CountTyped
<1>4. Cardinality(rest) = Count(t, x)
  BY <1>2, <1>3, FS_Bijection DEF ExistsBijection, Count
<1>5. 1 \in Places(s, x) <=> Head(s) = x
  BY <1>1 DEF Places
<1>6. Cardinality(Places(s, x)) \in Nat
  BY <1>3, FS_CardinalityType
<1>7. Cardinality(rest) = IF 1 \in Places(s, x) THEN Count(s, x) - 1 ELSE Count(s, x)
  BY <1>3, FS_RemoveElement DEF Count
<1> HIDE DEF rest
<1> QED BY <1>4, <1>5, <1>6, <1>7 DEF Count

-----------------------------------------------------------------------------
(* The job of a yes and of a proposal, and what the executor answers. *)
Yes(r) == [r |-> r, confirmed |-> TRUE]
Proposal(r) == [r |-> r, confirmed |-> FALSE]
Outcome(r, status) == [r |-> r, status |-> status]
Held(r) == Outcome(r, "CONFIRMATION_REQUIRED")

LEMMA Jobs ==
  /\ \A job \in Job : job.r \in Requests /\ job.confirmed \in BOOLEAN
  /\ \A r \in Requests : Yes(r) \in Job /\ Proposal(r) \in Job
BY DEF Job, Yes, Proposal

LEMMA Results ==
  /\ \A m \in Result : m.r \in Requests /\ m.status \in Status /\ m = Outcome(m.r, m.status)
  /\ \A r \in Requests, status \in Status :
       Outcome(r, status) \in Result /\ Outcome(r, status).r = r /\ Outcome(r, status).status = status
BY DEF Result, Outcome

LEMMA OneMore ==
  ASSUME NEW f \in [Requests -> Nat], NEW r \in Requests
  PROVE  [f EXCEPT ![r] = @ + 1] \in [Requests -> Nat]
OBVIOUS

LEMMA Posts ==
  ASSUME NEW post \in Post
  PROVE  /\ post.page \in Pages /\ post.r \in Requests /\ post.what \in {"yes", "no", "ask"}
         /\ \A a \in {"out", "ok", "refused"} :
              /\ [post EXCEPT !.at = a] \in Post
              /\ [post EXCEPT !.at = a].r = post.r /\ [post EXCEPT !.at = a].what = post.what
BY DEF Post

LEMMA JobsFront ==
  ASSUME NEW s \in Seq(Job)
  PROVE  /\ s # <<>> => Head(s) \in Job /\ Tail(s) \in Seq(Job) /\ Len(Tail(s)) = Len(s) - 1
         /\ Len(s) \in Nat
         /\ \A job \in Job : Append(s, job) \in Seq(Job) /\ Len(Append(s, job)) = Len(s) + 1
         /\ \A i \in DOMAIN s : s[i] \in Job
OBVIOUS

LEMMA ResultsFront ==
  ASSUME NEW s \in Seq(Result)
  PROVE  /\ s # <<>> => Head(s) \in Result /\ Tail(s) \in Seq(Result)
         /\ \A m \in Result : Append(s, m) \in Seq(Result)
OBVIOUS

LEMMA RangeOf ==
  ASSUME NEW S, NEW s \in Seq(S)
  PROVE  /\ \A y \in S : Range(Append(s, y)) = Range(s) \cup {y}
         /\ s # <<>> => Head(s) \in Range(s) /\ Range(Tail(s)) \subseteq Range(s)
<1>1. ASSUME NEW y \in S PROVE Range(Append(s, y)) = Range(s) \cup {y}
  <2> DEFINE t == Append(s, y)
  <2>1. /\ DOMAIN t = DOMAIN s \cup {Len(s) + 1} /\ Len(s) + 1 \notin DOMAIN s
        /\ t[Len(s) + 1] = y /\ \A i \in DOMAIN s : t[i] = s[i]
    OBVIOUS
  <2> HIDE DEF t
  <2> QED BY <2>1 DEF Range, t
<1>2. ASSUME s # <<>> PROVE Head(s) \in Range(s) /\ Range(Tail(s)) \subseteq Range(s)
  <2> DEFINE t == Tail(s)
  <2>1. /\ 1 \in DOMAIN s /\ Head(s) = s[1]
        /\ \A i \in DOMAIN t : i + 1 \in DOMAIN s /\ t[i] = s[i + 1]
    BY <1>2
  <2> HIDE DEF t
  <2> QED BY <2>1 DEF Range, t
<1> QED BY <1>1, <1>2

(* The same of the executor's sequences and of the results. *)
LEMMA InJobs ==
  ASSUME NEW s \in Seq(Job), NEW x
  PROVE  /\ Count(s, x) \in Nat
         /\ \A job \in Job :
              /\ Count(Append(s, job), x) = IF job = x THEN Count(s, x) + 1 ELSE Count(s, x)
              /\ Range(Append(s, job)) = Range(s) \cup {job}
         /\ s # <<>> =>
              /\ Count(Tail(s), x) \in Nat
              /\ Count(s, x) = IF Head(s) = x THEN Count(Tail(s), x) + 1 ELSE Count(Tail(s), x)
              /\ Head(s) \in Range(s) /\ Range(Tail(s)) \subseteq Range(s)
<1>1. Count(s, x) \in Nat
  BY CountTyped
<1>2. ASSUME NEW job \in Job
      PROVE  /\ Count(Append(s, job), x) = IF job = x THEN Count(s, x) + 1 ELSE Count(s, x)
             /\ Range(Append(s, job)) = Range(s) \cup {job}
  BY CountAppend, RangeOf
<1>3. ASSUME s # <<>> PROVE Count(Tail(s), x) \in Nat
  <2>1. Tail(s) \in Seq(Job)
    BY <1>3
  <2> QED BY <2>1, CountTyped
<1>4. ASSUME s # <<>>
      PROVE  Count(s, x) = IF Head(s) = x THEN Count(Tail(s), x) + 1 ELSE Count(Tail(s), x)
  BY <1>4, CountTail
<1>5. ASSUME s # <<>> PROVE Head(s) \in Range(s) /\ Range(Tail(s)) \subseteq Range(s)
  BY <1>5, RangeOf
<1> QED BY <1>1, <1>2, <1>3, <1>4, <1>5

LEMMA InResults ==
  ASSUME NEW s \in Seq(Result), NEW x
  PROVE  /\ Count(s, x) \in Nat
         /\ \A m \in Result :
              /\ Count(Append(s, m), x) = IF m = x THEN Count(s, x) + 1 ELSE Count(s, x)
              /\ Range(Append(s, m)) = Range(s) \cup {m}
         /\ s # <<>> =>
              /\ Count(Tail(s), x) \in Nat
              /\ Count(s, x) = IF Head(s) = x THEN Count(Tail(s), x) + 1 ELSE Count(Tail(s), x)
              /\ Head(s) \in Range(s) /\ Range(Tail(s)) \subseteq Range(s)
<1>1. Count(s, x) \in Nat
  BY CountTyped
<1>2. ASSUME NEW m \in Result
      PROVE  /\ Count(Append(s, m), x) = IF m = x THEN Count(s, x) + 1 ELSE Count(s, x)
             /\ Range(Append(s, m)) = Range(s) \cup {m}
  BY CountAppend, RangeOf
<1>3. ASSUME s # <<>> PROVE Count(Tail(s), x) \in Nat
  <2>1. Tail(s) \in Seq(Result)
    BY <1>3
  <2> QED BY <2>1, CountTyped
<1>4. ASSUME s # <<>>
      PROVE  Count(s, x) = IF Head(s) = x THEN Count(Tail(s), x) + 1 ELSE Count(Tail(s), x)
  BY <1>4, CountTail
<1>5. ASSUME s # <<>> PROVE Head(s) \in Range(s) /\ Range(Tail(s)) \subseteq Range(s)
  BY <1>5, RangeOf
<1> QED BY <1>1, <1>2, <1>3, <1>4, <1>5


LEMMA InitTyped == Init => TypeOK
<1> SUFFICES ASSUME Init PROVE TypeOK
  OBVIOUS
<1>1. PICK plan \in Plans : may = plan.may /\ open = plan.open /\ mishaps = plan.mishaps /\ clicks = plan.clicks
  BY DEF Init
<1>2. may \subseteq Requests /\ open \subseteq Pages /\ mishaps \in Nat /\ clicks \in Nat
  BY <1>1, ConsentAssumption DEF ConsentAssumption
<1>3. inbox \in Seq(Job) /\ jobs \in Seq(Job) /\ Len(jobs) <= WorkQueue
      /\ results \in Seq(Result)
  BY ConsentAssumption DEF Init, ConsentAssumption
<1>4. /\ shown \in [Pages -> SUBSET Requests] /\ busy \in [Pages -> SUBSET Requests]
      /\ \A p \in Pages : busy[p] = {}
      /\ done \in [Requests -> Nat] /\ yeses \in [Requests -> Nat]
  BY DEF Init
<1> QED BY <1>2, <1>3, <1>4 DEF Init, TypeOK, Lists

LEMMA StepTyped == TypeOK /\ [Next]_vars => TypeOK'
<1> SUFFICES ASSUME TypeOK, [Next]_vars PROVE TypeOK'
  OBVIOUS
<1>a. inbox \in Seq(Job) /\ jobs \in Seq(Job) /\ Len(jobs) <= WorkQueue /\ WorkQueue \in Nat
      /\ results \in Seq(Result) /\ posts \subseteq Post /\ done \in [Requests -> Nat] /\ yeses \in [Requests -> Nat]
  BY ConsentAssumption DEF TypeOK, ConsentAssumption
<1>1. ASSUME Take PROVE TypeOK'
  <2> DEFINE job == Head(inbox)
  <2>1. job \in Job /\ inbox' \in Seq(Job) /\ job.r \in Requests
    BY <1>a, <1>1, JobsFront, Jobs DEF Take
  <2>2. /\ jobs' = jobs \/ (HasRoom /\ jobs' = Append(jobs, job))
        /\ results' = results \/ results' = Append(results, Outcome(job.r, "UNAVAILABLE"))
    BY <1>1 DEF Take, Outcome
  <2>3. jobs' \in Seq(Job) /\ Len(jobs') <= WorkQueue
    <3> HIDE DEF job
    <3>1. Append(jobs, job) \in Seq(Job) /\ Len(Append(jobs, job)) = Len(jobs) + 1 /\ Len(jobs) \in Nat
      BY <1>a, <2>1, JobsFront
    <3>2. HasRoom => Len(jobs) + 1 <= WorkQueue
      BY <1>a, <3>1 DEF HasRoom
    <3> QED BY <1>a, <2>2, <3>1, <3>2
  <2>4. results' \in Seq(Result)
    <3>1. Outcome(job.r, "UNAVAILABLE") \in Result
      BY <2>1, Results DEF Status
    <3> QED BY <1>a, <2>2, <3>1, ResultsFront
  <2>5. seen' \subseteq Requests
    BY <1>1, <2>1 DEF Take, TypeOK
  <2> QED BY <1>1, <2>1, <2>3, <2>4, <2>5 DEF Take, TypeOK, console, page, bounds, history
<1>2. ASSUME Work PROVE TypeOK'
  <2> DEFINE job == Head(jobs)
  <2>1. job \in Job /\ jobs' \in Seq(Job) /\ Len(jobs') <= WorkQueue /\ job.r \in Requests
    BY <1>a, <1>2, JobsFront, Jobs DEF Work
  <2>2. PICK status \in Outcomes(job) : Ran(job, status) /\ results' = Append(results, Outcome(job.r, status))
    BY <1>2 DEF Work, Outcome
  <2>3. status \in Status
    BY DEF Outcomes, Status
  <2>4. results' \in Seq(Result)
    BY <1>a, <2>1, <2>2, <2>3, ResultsFront, Results
  <2>5. done' \in [Requests -> Nat]
    <3>1. done' = done \/ done' = [done EXCEPT ![job.r] = @ + 1]
      BY <2>2 DEF Ran
    <3>2. done \in [Requests -> Nat] /\ job.r \in Requests
      BY <1>a, <2>1
    <3> HIDE DEF job
    <3> QED BY <3>1, <3>2
  <2> QED BY <1>2, <2>1, <2>4, <2>5 DEF Work, TypeOK, console, page, bounds
<1>3. ASSUME Restart PROVE TypeOK'
  BY <1>3 DEF Restart, TypeOK, console, page, bounds, history
<1>4. ASSUME Fold PROVE TypeOK'
  <2>1. Head(results) \in Result /\ Tail(results) \in Seq(Result) /\ Head(results).r \in Requests
    BY <1>a, <1>4, ResultsFront, Results DEF Fold
  <2>2. Head(results).r \in known => Head(results).r \in asked
    BY DEF TypeOK
  <2> QED BY <1>4, <2>1, <2>2 DEF Fold, Told, TypeOK, executor, page, bounds
<1>5. ASSUME NEW p \in Pages, Deliver(p) PROVE TypeOK'
  BY <1>5 DEF Deliver, TypeOK, Lists, executor, console, bounds, history
<1>6. ASSUME NEW post \in posts, Answer(post) PROVE TypeOK'
  <2>1. post.r \in Requests /\ posts' \subseteq Post
    <3>1. PICK at \in {"out", "ok", "refused"} : posts' = (posts \ {post}) \cup {[post EXCEPT !.at = at]}
      BY <1>6 DEF Answer
    <3>2. post \in Post
      BY <1>a
    <3>3. post.r \in Requests /\ [post EXCEPT !.at = at] \in Post
      BY <3>2, Posts
    <3> QED BY <1>a, <3>1, <3>3
  <2>2. inbox' \in Seq(Job)
    <3>1. inbox' = inbox \/ inbox' = Append(inbox, Yes(post.r))
      BY <1>6 DEF Answer, Publish, Yes
    <3> QED BY <1>a, <2>1, <3>1, Jobs, JobsFront
  <2>3. /\ lost' \subseteq lost \cup {post.r} /\ settled' \subseteq settled \cup {post.r}
        /\ yeses' = yeses \/ yeses' = [yeses EXCEPT ![post.r] = @ + 1]
        /\ waiting' \subseteq waiting /\ agreed' \subseteq agreed \cup waiting
    BY <1>6 DEF Answer, Publish, Settle
  <2>4. yeses' \in [Requests -> Nat]
    BY <1>a, <2>1, <2>3, OneMore
  <2> QED BY <1>6, <2>1, <2>2, <2>3, <2>4 DEF Answer, TypeOK, bounds
<1>7. ASSUME NEW post \in posts, Book(post) PROVE TypeOK'
  <2>1. post.r \in Requests /\ posts' \subseteq Post
    <3>1. posts' = (posts \ {post}) \cup {[post EXCEPT !.at = "ok"]}
      BY <1>7 DEF Book
    <3> QED BY <1>a, <3>1, Posts
  <2>2. inbox' \in Seq(Job)
    <3>1. inbox' = inbox \/ inbox' = Append(inbox, Proposal(post.r))
      BY <1>7 DEF Book, Proposed, Publish, Proposal
    <3> QED BY <1>a, <2>1, <3>1, Jobs, JobsFront
  <2> QED BY <1>7, <2>1, <2>2 DEF Book, Proposed, Publish, TypeOK, bounds
<1>8. ASSUME NEW post \in posts, Respond(post) PROVE TypeOK'
  <2>1. post.page \in Pages /\ post.r \in Requests
    BY <1>a, Posts
  <2>2. busy' \in [Pages -> SUBSET Requests] /\ \A p \in Pages : busy'[p] \subseteq busy[p]
    BY <1>8, <2>1 DEF Respond, Free, TypeOK
  <2>3. pushed' \subseteq Requests /\ posts' \subseteq Post
    BY <1>8 DEF Respond, Push, TypeOK
  <2> QED BY <1>8, <2>2, <2>3 DEF Respond, TypeOK, executor, bounds, history, Lists
<1>9. ASSUME NEW r \in Requests, Propose(r) PROVE TypeOK'
  <2>1. inbox' \in Seq(Job)
    <3>1. inbox' = inbox \/ inbox' = Append(inbox, Proposal(r))
      BY <1>9 DEF Propose, Proposed, Publish, Proposal
    <3> QED BY <1>a, <3>1, Jobs, JobsFront
  <2> QED BY <1>9, <2>1 DEF Propose, Proposed, Publish, TypeOK, page, bounds
<1>10. ASSUME NEW r \in Requests, Forget(r) PROVE TypeOK'
  BY <1>10 DEF Forget, Mishap, TypeOK, executor, page
<1>11. ASSUME NEW r \in Requests, Expire(r) PROVE TypeOK'
  BY <1>11 DEF Expire, Mishap, TypeOK, executor, console, page, history
<1>12. ASSUME NEW p \in Pages, NEW r \in Requests, Submit(p, r) PROVE TypeOK'
  <2>1. [page |-> p, r |-> r, what |-> "ask", at |-> "out"] \in Post
    BY DEF Post
  <2> QED BY <1>12, <2>1 DEF Submit, TypeOK, executor, console, bounds, history
<1>13. ASSUME NEW p \in Pages, NEW r \in Requests, NEW what \in {"yes", "no"}, Click(p, r, what) PROVE TypeOK'
  <2>1. [page |-> p, r |-> r, what |-> what, at |-> "out"] \in Post
    BY DEF Post
  <2>2. busy' \in [Pages -> SUBSET Requests] /\ \A q \in Lists : \A x, y \in busy'[q] : x = y
    BY <1>13 DEF Click, Offered, Lists, TypeOK
  <2> QED BY <1>13, <2>1, <2>2 DEF Click, TypeOK, executor, console, history
<1>14. ASSUME NEW post \in posts, Lose(post) PROVE TypeOK'
  <2>1. post.page \in Pages /\ post.r \in Requests
    BY <1>a, Posts
  <2>2. busy' \in [Pages -> SUBSET Requests] /\ \A p \in Pages : busy'[p] \subseteq busy[p]
    BY <1>14, <2>1 DEF Lose, Free, TypeOK
  <2> QED BY <1>14, <2>2 DEF Lose, Mishap, TypeOK, executor, console, history, Lists
<1>15. ASSUME NEW p \in Pages, Leave(p) PROVE TypeOK'
  BY <1>15 DEF Leave, TypeOK, executor, console, bounds, history
<1>16. ASSUME Die PROVE TypeOK'
  <2>1. \A m \in {inbox[i] : i \in DOMAIN inbox} \cup {jobs[i] : i \in DOMAIN jobs} : m.r \in Requests
    BY <1>a, JobsFront, Jobs
  <2>2. done' \in [Requests -> Nat]
    <3>1. done' = done \/ (jobs # <<>> /\ done' = [done EXCEPT ![Head(jobs).r] = @ + 1])
      BY <1>16 DEF Die, Ran
    <3>2. ASSUME jobs # <<>> PROVE [done EXCEPT ![Head(jobs).r] = @ + 1] \in [Requests -> Nat]
      <4>1. Head(jobs) \in Job
        BY <1>a, <3>2, JobsFront
      <4>2. Head(jobs).r \in Requests
        BY <4>1, Jobs
      <4> QED BY <1>a, <4>2, OneMore
    <3> QED BY <1>a, <3>1, <3>2
  <2>3. lost' \subseteq Requests
    <3>1. lost' = lost \cup {m.r : m \in {inbox[i] : i \in DOMAIN inbox} \cup {jobs[i] : i \in DOMAIN jobs}}
      BY <1>16 DEF Die
    <3> QED BY <2>1, <3>1 DEF TypeOK
  <2>4. inbox' \in Seq(Job) /\ jobs' \in Seq(Job) /\ Len(jobs') <= WorkQueue
    BY <1>a, <1>16 DEF Die
  <2>5. /\ up' = FALSE /\ seen' = {} /\ mishaps' = mishaps - 1 /\ mishaps > 0 /\ deaths' = deaths + 1
        /\ UNCHANGED <<results, known, waiting, agreed, pushed, shown, busy, posts, asked, expired>>
        /\ UNCHANGED <<may, open, clicks, yeses, settled, said>>
    BY <1>16 DEF Die, Mishap, console, page
  <2>6. mishaps' \in Nat /\ deaths' \in Nat
    BY <2>5 DEF TypeOK
  <2> QED BY <1>a, <2>2, <2>3, <2>4, <2>5, <2>6 DEF TypeOK
<1>17. ASSUME Reopen PROVE TypeOK'
  <2>1. posts' \subseteq Post
    <3>1. posts' = {[post EXCEPT !.at = "refused"] : post \in posts}
      BY <1>17 DEF Reopen
    <3> QED BY <1>a, <3>1, Posts
  <2> QED BY <1>17, <2>1 DEF Reopen, Mishap, TypeOK, executor
<1>18. CASE UNCHANGED vars
  BY <1>18 DEF vars, TypeOK, executor, console, page, bounds, history
<1> QED
  BY <1>1, <1>2, <1>3, <1>4, <1>5, <1>6, <1>7, <1>8, <1>9, <1>10, <1>11, <1>12, <1>13, <1>14, <1>15,
     <1>16, <1>17, <1>18 DEF Next, Handle, Serve

-----------------------------------------------------------------------------
(* What is under way. *)

(* A yes is on its way, queued, or carried out. *)
Paid(r) == done[r] + Count(inbox, Yes(r)) + Count(jobs, Yes(r)) <= yeses[r]

(* In one life of the executor a request gets into the queue confirmed once. *)
Once(r) == done[r] + Count(jobs, Yes(r)) <= deaths + (IF r \in seen THEN 1 ELSE 0)

(* The first asking is in one place at most, and until the console has folded *)
(* the hold nobody can have seen the request, let alone answered it.          *)
Pending(r) == Count(inbox, Proposal(r)) + Count(jobs, Proposal(r)) + Count(results, Held(r))

Untouched(r) ==
  /\ r \notin waiting /\ r \notin settled /\ r \notin pushed
  /\ \A p \in Pages : r \notin shown[p]
  /\ \A post \in posts : post.r = r => post.what = "ask"
  /\ Yes(r) \notin Range(inbox) /\ Yes(r) \notin Range(jobs)
  /\ \A m \in Range(results) : m.r = r => m = Held(r)

Asking(r) ==
  /\ Pending(r) <= 1
  /\ r \notin asked => Pending(r) = 0
  /\ Pending(r) = 1 \/ r \notin asked => Untouched(r)

IInv ==
  /\ TypeOK
  /\ \A r \in Requests : Paid(r) /\ Once(r) /\ Asking(r)
  /\ NobodyIsAskedTwice

(* The steps that change neither the executor nor what is under way to it. *)
Others ==
  \/ Restart \/ Fold
  \/ \E p \in Pages : Deliver(p) \/ Leave(p)
  \/ \E post \in posts : Respond(post) \/ Lose(post)
  \/ \E r \in Requests : Forget(r) \/ Expire(r)
  \/ \E p \in Pages, r \in Requests : Submit(p, r) \/ \E what \in {"yes", "no"} : Click(p, r, what)
  \/ UNCHANGED vars

LEMMA StepCases ==
  [Next]_vars =>
    \/ Take \/ Work \/ Die \/ Reopen \/ Others
    \/ \E post \in posts : Answer(post) \/ Book(post)
    \/ \E r \in Requests : Propose(r)
BY DEF Next, Handle, Serve, Others

LEMMA Counts ==
  ASSUME TypeOK, NEW x
  PROVE  Count(inbox, x) \in Nat /\ Count(jobs, x) \in Nat /\ Count(results, x) \in Nat
BY CountTyped DEF TypeOK

LEMMA TheTwoJobs ==
  ASSUME NEW job \in Job, NEW r
  PROVE  /\ job = Yes(r) <=> job.r = r /\ job.confirmed
         /\ job = Proposal(r) <=> job.r = r /\ ~job.confirmed
         /\ Yes(r) # Proposal(r) /\ Yes(r).r = r /\ Proposal(r).r = r
BY DEF Job, Yes, Proposal

LEMMA InitInv == Init => IInv
<1> SUFFICES ASSUME Init PROVE IInv
  OBVIOUS
<1>1. TypeOK
  BY InitTyped
<1>2. ASSUME NEW r \in Requests PROVE Paid(r) /\ Once(r) /\ Asking(r)
  <2>1. /\ inbox = <<>> /\ jobs = <<>> /\ results = <<>> /\ done[r] = 0 /\ yeses[r] = 0
        /\ deaths = 0 /\ r \notin seen
    BY DEF Init
  <2>2. \A x : Count(inbox, x) = 0 /\ Count(jobs, x) = 0 /\ Count(results, x) = 0
    BY <2>1, CountEmpty
  <2>3. Untouched(r)
    BY DEF Init, Untouched, Range
  <2> QED BY <2>1, <2>2, <2>3 DEF Paid, Once, Asking, Pending
<1>3. NobodyIsAskedTwice
  BY DEF Init, NobodyIsAskedTwice
<1> QED BY <1>1, <1>2, <1>3 DEF IInv

-----------------------------------------------------------------------------
(* Yeses. *)

LEMMA YesesStep ==
  ASSUME TypeOK, TypeOK', [Next]_vars, NEW r \in Requests, Paid(r), Once(r)
  PROVE  Paid(r)' /\ Once(r)'
<1> DEFINE y == Yes(r)
           inb == Count(inbox, y)
           job == Count(jobs, y)
           inbN == Count(inbox', y)
           jobN == Count(jobs', y)
           in == IF r \in seen THEN 1 ELSE 0
           inN == IF r \in seen' THEN 1 ELSE 0
<1>1. /\ inbox \in Seq(Job) /\ jobs \in Seq(Job) /\ y \in Job
      /\ inbox' \in Seq(Job) /\ jobs' \in Seq(Job) /\ posts \subseteq Post
      /\ done \in [Requests -> Nat] /\ yeses \in [Requests -> Nat]
  BY Jobs DEF TypeOK
<1>2. /\ inb \in Nat /\ job \in Nat /\ inbN \in Nat /\ jobN \in Nat
      /\ done[r] \in Nat /\ yeses[r] \in Nat /\ deaths \in Nat /\ in \in {0, 1} /\ inN \in {0, 1}
      /\ done[r] + inb + job <= yeses[r] /\ done[r] + job <= deaths + in
  <2>1. inb \in Nat /\ job \in Nat /\ inbN \in Nat /\ jobN \in Nat
    BY <1>1, InJobs
  <2>2. done[r] \in Nat /\ yeses[r] \in Nat /\ deaths \in Nat
    BY DEF TypeOK
  <2>3. done[r] + inb + job <= yeses[r] /\ done[r] + job <= deaths + in
    BY DEF Paid, Once
  <2> QED BY <2>1, <2>2, <2>3
<1>3. ASSUME done'[r] + inbN + jobN <= yeses'[r], done'[r] + jobN <= deaths' + inN
      PROVE  Paid(r)' /\ Once(r)'
  BY <1>3 DEF Paid, Once
<1>4. ASSUME Take PROVE Paid(r)' /\ Once(r)'
  <2> DEFINE first == Head(inbox)
  <2>1. first \in Job /\ inbox' = Tail(inbox) /\ inbox # <<>> /\ UNCHANGED <<done, yeses, deaths>>
    BY <1>1, <1>4, JobsFront DEF Take, history
  <2>2. inb = IF first = y THEN inbN + 1 ELSE inbN
    BY <1>1, <2>1, InJobs
  <2>3. Count(Append(jobs, first), y) = IF first = y THEN job + 1 ELSE job
    BY <1>1, <2>1, InJobs
  <2>4. \/ jobs' = jobs /\ (r \in seen => r \in seen')
        \/ first # y /\ jobs' = Append(jobs, first) /\ (r \in seen => r \in seen')
        \/ first = y /\ jobs' = Append(jobs, first) /\ r \notin seen /\ r \in seen'
    BY <1>4, <2>1, TheTwoJobs DEF Take, Repeated
  <2>5. \/ jobN = job /\ (in = inN \/ inN = 1)
        \/ first = y /\ jobN = job + 1 /\ in = 0 /\ inN = 1
    <3>1. CASE jobs' = jobs
      BY <2>4, <3>1
    <3>2. CASE first # y /\ jobs' = Append(jobs, first) /\ (r \in seen => r \in seen')
      BY <2>3, <3>2
    <3>3. CASE first = y /\ jobs' = Append(jobs, first) /\ r \notin seen /\ r \in seen'
      BY <2>3, <3>3
    <3> QED BY <2>4, <3>1, <3>2, <3>3
  <2>a. done'[r] = done[r] /\ yeses'[r] = yeses[r] /\ deaths' = deaths
    BY <2>1
  <2>6. done'[r] + inbN + jobN <= yeses'[r] /\ done'[r] + jobN <= deaths' + inN
    <3> HIDE DEF y, inb, job, inbN, jobN, in, inN, first
    <3>1. inbN + jobN <= inb + job /\ jobN + in <= job + inN
      BY <1>2, <2>2, <2>5
    <3> QED BY <1>2, <2>a, <3>1
  <2> QED BY <1>3, <2>6
<1>5. ASSUME Work PROVE Paid(r)' /\ Once(r)'
  <2> DEFINE first == Head(jobs)
  <2>1. first \in Job /\ jobs' = Tail(jobs) /\ jobs # <<>> /\ inbN = inb /\ inN = in /\ UNCHANGED <<yeses, deaths>>
    BY <1>1, <1>5, JobsFront DEF Work
  <2>2. job = IF first = y THEN jobN + 1 ELSE jobN
    BY <1>1, <2>1, InJobs
  <2>3. done'[r] = done[r] \/ (first = y /\ done'[r] = done[r] + 1)
    BY <1>1, <1>5, <2>1, TheTwoJobs DEF Work, Ran, Outcomes
  <2>a. yeses'[r] = yeses[r] /\ deaths' = deaths /\ inbN = inb /\ inN = in
    BY <2>1
  <2>4. done'[r] + inbN + jobN <= yeses'[r] /\ done'[r] + jobN <= deaths' + inN
    <3> HIDE DEF y, inb, job, inbN, jobN, in, inN, first
    <3>1. done'[r] + jobN <= done[r] + job /\ done'[r] \in Nat
      BY <1>2, <2>2, <2>3
    <3> QED BY <1>2, <2>a, <3>1
  <2> QED BY <1>3, <2>4
<1>6. ASSUME Die PROVE Paid(r)' /\ Once(r)'
  <2>1. yeses' = yeses /\ deaths' = deaths + 1 /\ inbN = 0 /\ jobN = 0
    BY <1>6, CountEmpty DEF Die
  <2>2. done'[r] = done[r] \/ (done'[r] = done[r] + 1 /\ job >= 1)
    <3>1. CASE UNCHANGED done
      BY <3>1
    <3>2. CASE jobs # <<>> /\ \E status \in Outcomes(Head(jobs)) : Ran(Head(jobs), status)
      <4>1. Head(jobs) \in Job
        BY <1>1, <3>2, JobsFront
      <4>2. done'[r] = done[r] \/ (Head(jobs) = y /\ done'[r] = done[r] + 1)
        BY <1>1, <3>2, <4>1, TheTwoJobs DEF Ran, Outcomes
      <4>3. /\ job = IF Head(jobs) = y THEN Count(Tail(jobs), y) + 1 ELSE Count(Tail(jobs), y)
            /\ Count(Tail(jobs), y) \in Nat
        BY <1>1, <3>2, InJobs
      <4> HIDE DEF y, job
      <4> QED BY <4>2, <4>3
    <3> QED BY <1>6, <3>1, <3>2 DEF Die
  <2>3. done'[r] + inbN + jobN <= yeses'[r] /\ done'[r] + jobN <= deaths' + inN
    <3> HIDE DEF y, inb, job, inbN, jobN, in, inN
    <3> QED BY <1>2, <2>1, <2>2
  <2> QED BY <1>3, <2>3
<1>7. ASSUME NEW post \in posts, Answer(post) PROVE Paid(r)' /\ Once(r)'
  <2>1. jobN = job /\ inN = in /\ UNCHANGED <<done, deaths>>
    BY <1>7 DEF Answer
  <2>2. post.r \in Requests /\ Yes(post.r) \in Job /\ (Yes(post.r) = y <=> post.r = r)
    BY <1>1, Posts, Jobs DEF Yes
  <2>3. \/ UNCHANGED <<inbox, yeses>>
        \/ /\ inbox' = inbox \/ inbox' = Append(inbox, Yes(post.r))
           /\ yeses' = [yeses EXCEPT ![post.r] = @ + 1]
    BY <1>7 DEF Answer, Publish, Yes
  <2>4. Count(Append(inbox, Yes(post.r)), y) = IF post.r = r THEN inb + 1 ELSE inb
    BY <1>1, <2>2, InJobs
  <2>5. [yeses EXCEPT ![post.r] = @ + 1][r] = IF post.r = r THEN yeses[r] + 1 ELSE yeses[r]
    BY <1>1, <2>2
  <2>6. (inbN = inb /\ (yeses'[r] = yeses[r] \/ yeses'[r] = yeses[r] + 1)) \/ (inbN = inb + 1 /\ yeses'[r] = yeses[r] + 1)
    BY <2>3, <2>4, <2>5
  <2>7. done'[r] + inbN + jobN <= yeses'[r] /\ done'[r] + jobN <= deaths' + inN
    <3> HIDE DEF y, inb, job, inbN, jobN, in, inN
    <3> QED BY <1>2, <2>1, <2>6
  <2> QED BY <1>3, <2>7
<1>8. ASSUME NEW q \in Requests, Proposed(q), UNCHANGED <<jobs, seen, done, yeses, deaths>>
      PROVE  Paid(r)' /\ Once(r)'
  <2>1. Proposal(q) \in Job /\ Proposal(q) # y
    BY Jobs DEF Proposal, Yes
  <2>2. inbox' = inbox \/ inbox' = Append(inbox, Proposal(q))
    BY <1>8 DEF Proposed, Publish, Proposal
  <2>3. Count(Append(inbox, Proposal(q)), y) = inb
    BY <1>1, <2>1, InJobs
  <2>4. inbN = inb /\ jobN = job /\ inN = in
    BY <1>8, <2>2, <2>3
  <2>5. done'[r] + inbN + jobN <= yeses'[r] /\ done'[r] + jobN <= deaths' + inN
    <3> HIDE DEF y, inb, job, inbN, jobN, in, inN
    <3> QED BY <1>2, <1>8, <2>4
  <2> QED BY <1>3, <2>5
<1>9. ASSUME UNCHANGED <<inbox, jobs, seen, done, yeses, deaths>>
      PROVE  Paid(r)' /\ Once(r)'
  BY <1>9 DEF Paid, Once
<1>10. ASSUME Reopen PROVE Paid(r)' /\ Once(r)'
  BY <1>9, <1>10 DEF Reopen, executor
<1>11. ASSUME NEW post \in posts, Book(post) PROVE Paid(r)' /\ Once(r)'
  BY <1>1, <1>8, <1>11, Posts DEF Book
<1>12. ASSUME NEW q \in Requests, Propose(q) PROVE Paid(r)' /\ Once(r)'
  BY <1>8, <1>12 DEF Propose
<1>13. ASSUME Others PROVE Paid(r)' /\ Once(r)'
  BY <1>9, <1>13 DEF Others, Fold, Respond, Deliver, Forget, Expire, Submit, Click, Lose, Leave, Restart,
       executor, history, vars
<1> QED
  BY <1>4, <1>5, <1>6, <1>7, <1>10, <1>11, <1>12, <1>13, StepCases

-----------------------------------------------------------------------------
(* The first asking. *)

LEMMA AskingStep ==
  ASSUME TypeOK, TypeOK', [Next]_vars, NEW r \in Requests, Asking(r)
  PROVE  Asking(r)'
<1> DEFINE x == Proposal(r)
           h == Held(r)
           inb == Count(inbox, x)
           job == Count(jobs, x)
           res == Count(results, h)
           inbN == Count(inbox', x)
           jobN == Count(jobs', x)
           resN == Count(results', h)
<1>2. /\ inbox \in Seq(Job) /\ jobs \in Seq(Job) /\ x \in Job /\ Yes(r) \in Job
      /\ inbox' \in Seq(Job) /\ jobs' \in Seq(Job) /\ posts \subseteq Post
      /\ results \in Seq(Result) /\ results' \in Seq(Result)
  BY Jobs DEF TypeOK
<1>1. /\ inb \in Nat /\ job \in Nat /\ res \in Nat /\ inbN \in Nat /\ jobN \in Nat /\ resN \in Nat
      /\ Pending(r) = inb + job + res
      /\ Pending(r)' = inbN + jobN + resN
  <2>1. inb \in Nat /\ job \in Nat /\ inbN \in Nat /\ jobN \in Nat
    BY <1>2, InJobs
  <2>2. res \in Nat /\ resN \in Nat
    BY <1>2, InResults
  <2> QED BY <2>1, <2>2 DEF Pending
<1>3. ASSUME Pending(r)' = Pending(r), asked' = asked, Untouched(r) => Untouched(r)'
      PROVE  Asking(r)'
  BY <1>3 DEF Asking
<1>a. Pending(r) \in Nat /\ Pending(r)' \in Nat
  <2> HIDE DEF x, h, inb, job, res, inbN, jobN, resN
  <2> QED BY <1>1
<1>b. ASSUME Pending(r)' <= Pending(r), asked' = asked, Untouched(r) => Untouched(r)'
      PROVE  Asking(r)'
  <2>1. /\ Pending(r)' <= 1 /\ (Pending(r)' = 1 => Pending(r) = 1)
        /\ (Pending(r) = 0 => Pending(r)' = 0)
    BY <1>a, <1>b DEF Asking
  <2> QED BY <1>b, <2>1 DEF Asking
(* What is done to a request that was pending, or answered already. *)
<1>4. ASSUME r \in asked, asked' = asked, Pending(r)' = 0
      PROVE  Asking(r)'
  <2> SUFFICES Pending(r)' <= 1 /\ Pending(r)' # 1
    BY <1>4 DEF Asking
  <2> QED BY <1>4
<1>5. ASSUME ~Untouched(r)
      PROVE  r \in asked /\ Pending(r) = 0 /\ inb = 0 /\ job = 0 /\ res = 0
  <2>1. r \in asked /\ Pending(r) # 1 /\ Pending(r) <= 1
    BY <1>5 DEF Asking
  <2> HIDE DEF inb, job, res, inbN, jobN, resN
  <2> QED BY <1>1, <2>1
<1>6. ASSUME Take PROVE Asking(r)'
  <2> DEFINE first == Head(inbox)
             no == Outcome(first.r, "UNAVAILABLE")
  <2>1. /\ first \in Job /\ inbox' = Tail(inbox) /\ first \in Range(inbox) /\ Range(inbox') \subseteq Range(inbox)
        /\ UNCHANGED <<waiting, settled, pushed, shown, posts, asked>>
    BY <1>2, <1>6, JobsFront, InJobs DEF Take, console, page, history
  <2>2. inb = IF first = x THEN inbN + 1 ELSE inbN
    BY <1>2, <1>6, <2>1, InJobs DEF Take
  <2>3. \/ first.confirmed /\ UNCHANGED <<jobs, results>>
        \/ jobs' = Append(jobs, first) /\ UNCHANGED results
        \/ results' = Append(results, no) /\ UNCHANGED jobs
    BY <1>6 DEF Take, Repeated, Outcome
  <2>4. no \in Result /\ no # h /\ no.r = first.r
    BY <2>1, Jobs, Results DEF Held, Status
  <2>a. /\ Count(Append(jobs, first), x) = IF first = x THEN job + 1 ELSE job
        /\ Range(Append(jobs, first)) = Range(jobs) \cup {first}
    BY <1>2, <2>1, InJobs
  <2>b. /\ Count(Append(results, no), h) = res
        /\ Range(Append(results, no)) = Range(results) \cup {no}
    BY <1>2, <2>4, InResults
  <2>5. /\ jobs' = Append(jobs, first) => jobN = IF first = x THEN job + 1 ELSE job
        /\ jobs' = jobs => jobN = job
        /\ results' = results \/ results' = Append(results, no) => resN = res
        /\ first.confirmed => first # x
    BY <2>1, <2>a, <2>b, TheTwoJobs
  <2>6. CASE first = x
    <3>1. first # Yes(r) /\ ~first.confirmed /\ first.r = r
      BY <2>1, <2>6, TheTwoJobs
    <3>2. CASE jobs' = Append(jobs, first) /\ UNCHANGED results
      <4>1. Pending(r)' = Pending(r)
        <5> HIDE DEF x, h, inb, job, res, inbN, jobN, resN, first, no
        <5> QED BY <1>1, <2>2, <2>5, <2>6, <3>2
      <4>2. Untouched(r) => Untouched(r)'
        BY <2>1, <2>a, <3>1, <3>2 DEF Untouched
      <4> QED BY <1>3, <2>1, <4>1, <4>2
    <3>3. CASE results' = Append(results, no) /\ UNCHANGED jobs
      <4>1. Pending(r)' = Pending(r) - 1 /\ Pending(r) # 0
        <5> HIDE DEF x, h, inb, job, res, inbN, jobN, resN, first, no
        <5> QED BY <1>1, <2>2, <2>5, <2>6, <3>3
      <4>2. r \in asked /\ Pending(r)' = 0
        BY <1>1, <4>1 DEF Asking
      <4> QED BY <1>4, <2>1, <4>2
    <3> QED BY <2>3, <3>1, <3>2, <3>3
  <2>7. CASE first # x
    <3>1. Pending(r)' = Pending(r)
      <4> HIDE DEF x, h, inb, job, res, inbN, jobN, resN, first, no
      <4> QED BY <1>1, <2>2, <2>3, <2>5, <2>7
    <3>2. Untouched(r) => Untouched(r)'
      <4>1. Untouched(r) => first # Yes(r)
        BY <2>1 DEF Untouched
      <4>2. Untouched(r) => no.r # r
        BY <2>1, <2>4, <2>7, <4>1, TheTwoJobs
      <4> HIDE DEF x, h, inb, job, res, inbN, jobN, resN, first, no
      <4> QED BY <2>1, <2>3, <2>a, <2>b, <4>1, <4>2 DEF Untouched
    <3> QED BY <1>3, <2>1, <3>1, <3>2
  <2> QED BY <2>6, <2>7
<1>7. ASSUME Work PROVE Asking(r)'
  <2> DEFINE first == Head(jobs)
  <2>1. PICK status \in Outcomes(first) : results' = Append(results, Outcome(first.r, status))
    BY <1>7 DEF Work, Outcome
  <2> DEFINE end == Outcome(first.r, status)
  <2>2. /\ first \in Job /\ jobs' = Tail(jobs) /\ first \in Range(jobs) /\ Range(jobs') \subseteq Range(jobs)
        /\ UNCHANGED <<inbox, waiting, settled, pushed, shown, posts, asked>>
    BY <1>2, <1>7, JobsFront, InJobs DEF Work, console, page
  <2>3. job = IF first = x THEN jobN + 1 ELSE jobN
    BY <1>2, <1>7, <2>2, InJobs DEF Work
  <2>4. end \in Result /\ end.r = first.r /\ (end = h => first = x)
    <3>1. status \in Status /\ (status = "CONFIRMATION_REQUIRED" => ~first.confirmed)
      BY DEF Outcomes, Status
    <3>2. first.r \in Requests
      BY <2>2, Jobs
    <3>3. end \in Result /\ end.r = first.r /\ end.status = status
      BY <3>1, <3>2, Results
    <3>4. h.r = r /\ h.status = "CONFIRMATION_REQUIRED"
      BY Results DEF Held, Status
    <3> QED BY <2>2, <3>1, <3>3, <3>4, TheTwoJobs
  <2>5. /\ resN = IF end = h THEN res + 1 ELSE res
        /\ Range(results') = Range(results) \cup {end}
        /\ inbN = inb
    BY <1>2, <2>1, <2>2, <2>4, InResults
  <2>6. CASE first = x /\ end = h
    <3>1. Pending(r)' = Pending(r)
      <4> HIDE DEF x, h, inb, job, res, inbN, jobN, resN, first, end
      <4> QED BY <1>1, <2>2, <2>3, <2>5, <2>6
    <3>2. Untouched(r) => Untouched(r)'
      <4> HIDE DEF x, inb, job, res, inbN, jobN, resN, first, end
      <4> QED BY <2>2, <2>5, <2>6 DEF Untouched
    <3> QED BY <1>3, <2>2, <3>1, <3>2
  <2>7. CASE first = x /\ end # h
    <3>1. Pending(r)' = Pending(r) - 1 /\ Pending(r) # 0
      <4> HIDE DEF x, h, inb, job, res, inbN, jobN, resN, first, end
      <4> QED BY <1>1, <2>2, <2>3, <2>5, <2>7
    <3>2. r \in asked /\ Pending(r)' = 0
      BY <1>1, <3>1 DEF Asking
    <3> QED BY <1>4, <2>2, <3>2
  <2>8. CASE first # x
    <3>1. Pending(r)' = Pending(r)
      <4> HIDE DEF x, h, inb, job, res, inbN, jobN, resN, first, end
      <4> QED BY <1>1, <2>2, <2>3, <2>4, <2>5, <2>8
    <3>2. Untouched(r) => Untouched(r)'
      <4>1. Untouched(r) => first # Yes(r)
        BY <2>2 DEF Untouched
      <4>2. Untouched(r) => end.r # r
        BY <2>2, <2>4, <2>8, <4>1, TheTwoJobs
      <4> HIDE DEF x, h, inb, job, res, inbN, jobN, resN, first, end
      <4> QED BY <2>2, <2>5, <4>1, <4>2 DEF Untouched
    <3> QED BY <1>3, <2>2, <3>1, <3>2
  <2> QED BY <2>6, <2>7, <2>8
<1>8. ASSUME Die PROVE Asking(r)'
  <2>1. /\ inbox' = <<>> /\ jobs' = <<>> /\ inbN = 0 /\ jobN = 0
        /\ UNCHANGED <<results, waiting, settled, pushed, shown, posts, asked>>
    BY <1>8, CountEmpty DEF Die, console, page
  <2>2. Pending(r)' <= Pending(r)
    <3>1. resN = res
      BY <2>1
    <3> HIDE DEF x, h, inb, job, res, inbN, jobN, resN
    <3> QED BY <1>1, <2>1, <3>1
  <2>3. Untouched(r) => Untouched(r)'
    BY <2>1 DEF Untouched, Range
  <2> QED BY <1>b, <2>1, <2>2, <2>3
<1>9. ASSUME Reopen PROVE Asking(r)'
  <2>1. /\ results' = <<>> /\ resN = 0 /\ waiting' = {} /\ settled' = {} /\ pushed' = {}
        /\ posts' = {[post EXCEPT !.at = "refused"] : post \in posts}
        /\ UNCHANGED <<inbox, jobs, shown, asked>>
    BY <1>9, CountEmpty DEF Reopen, executor
  <2>2. Pending(r)' <= Pending(r)
    <3>1. inbN = inb /\ jobN = job
      BY <2>1
    <3> HIDE DEF x, h, inb, job, res, inbN, jobN, resN
    <3> QED BY <1>1, <2>1, <3>1
  <2>3. \A new \in posts' : \E post \in posts : new.r = post.r /\ new.what = post.what
    <3> SUFFICES ASSUME NEW new \in posts' PROVE \E post \in posts : new.r = post.r /\ new.what = post.what
      OBVIOUS
    <3>1. PICK post \in posts : new = [post EXCEPT !.at = "refused"]
      BY <2>1
    <3>2. post \in Post
      BY <1>2
    <3>3. new.r = post.r /\ new.what = post.what
      BY <3>1, <3>2, Posts
    <3> QED BY <3>3
  <2>4. Untouched(r) => Untouched(r)'
    BY <2>1, <2>3 DEF Untouched, Range
  <2> QED BY <1>b, <2>1, <2>2, <2>4
<1>10. ASSUME NEW post \in posts, Answer(post) PROVE Asking(r)'
  <2>1. /\ UNCHANGED <<jobs, results, pushed, shown, asked>> /\ post.what # "ask"
        /\ waiting' \subseteq waiting /\ settled' \subseteq settled \cup {post.r}
    BY <1>10 DEF Answer, Settle
  <2>2. post.r \in Requests /\ Yes(post.r) \in Job /\ Yes(post.r) # x
    BY <1>2, Posts, Jobs DEF Yes, Proposal
  <2>3. inbox' = inbox \/ inbox' = Append(inbox, Yes(post.r))
    BY <1>10 DEF Answer, Publish, Yes
  <2>4. /\ inbN = inb
        /\ Range(inbox') \subseteq Range(inbox) \cup {Yes(post.r)}
    <3>1. /\ Count(Append(inbox, Yes(post.r)), x) = inb
          /\ Range(Append(inbox, Yes(post.r))) = Range(inbox) \cup {Yes(post.r)}
      BY <1>2, <2>2, InJobs
    <3> QED BY <2>3, <3>1
  <2>5. Pending(r)' = Pending(r)
    <3>1. jobN = job /\ resN = res
      BY <2>1
    <3> HIDE DEF x, h, inb, job, res, inbN, jobN, resN
    <3> QED BY <1>1, <2>4, <3>1
  <2>6. Untouched(r) => Untouched(r)'
    <3> SUFFICES ASSUME Untouched(r) PROVE Untouched(r)'
      OBVIOUS
    <3>1. post.r # r /\ Yes(post.r) # Yes(r)
      BY <2>1 DEF Untouched, Yes
    <3>2. \A new \in posts' : \E old \in posts : new.r = old.r /\ new.what = old.what
      <4>1. PICK at \in {"out", "ok", "refused"} : posts' = (posts \ {post}) \cup {[post EXCEPT !.at = at]}
        BY <1>10 DEF Answer
      <4>2. post \in Post
        BY <1>2
      <4>3. [post EXCEPT !.at = at].r = post.r /\ [post EXCEPT !.at = at].what = post.what
        BY <4>2, Posts
      <4> QED BY <4>1, <4>3
    <3> QED BY <2>1, <2>4, <3>1, <3>2 DEF Untouched
  <2> QED BY <1>3, <2>1, <2>5, <2>6
<1>11. ASSUME NEW q \in Requests, Proposed(q),
              UNCHANGED <<jobs, results, waiting, settled, pushed, shown>>,
              \A new \in posts' : \E old \in posts : new.r = old.r /\ new.what = old.what
       PROVE  Asking(r)'
  <2>1. /\ inbox' = inbox \/ inbox' = Append(inbox, Proposal(q))
        /\ asked' = asked \cup {q} /\ q \notin asked
    BY <1>11 DEF Proposed, Publish, Proposal
  <2>2. Proposal(q) \in Job /\ (Proposal(q) = x <=> q = r) /\ Proposal(q) # Yes(r)
    BY Jobs DEF Proposal, Yes
  <2>3. /\ Count(Append(inbox, Proposal(q)), x) = IF q = r THEN inb + 1 ELSE inb
        /\ Range(Append(inbox, Proposal(q))) = Range(inbox) \cup {Proposal(q)}
    BY <1>2, <2>2, InJobs
  <2>4. Untouched(r) => Untouched(r)'
    BY <1>11, <2>1, <2>2, <2>3 DEF Untouched
  <2>5. jobN = job /\ resN = res /\ inbN = inb + (IF q = r /\ inbox' # inbox THEN 1 ELSE 0)
    <3>1. jobN = job /\ resN = res
      BY <1>11
    <3>2. CASE inbox' = inbox
      <4>1. inbN = inb
        BY <3>2
      <4> HIDE DEF inb, inbN
      <4> QED BY <1>1, <3>1, <3>2, <4>1
    <3>3. CASE inbox' = Append(inbox, Proposal(q)) /\ inbox' # inbox
      <4>1. inbN = IF q = r THEN inb + 1 ELSE inb
        BY <2>3, <3>3
      <4> HIDE DEF inb, inbN
      <4> QED BY <1>1, <3>1, <3>3, <4>1
    <3> QED BY <2>1, <3>2, <3>3
  <2>6. CASE q = r
    <3>1. Pending(r) = 0 /\ Untouched(r)
      BY <2>1, <2>6 DEF Asking
    <3>2. Pending(r)' <= 1
      <4> HIDE DEF x, h, inb, job, res, inbN, jobN, resN
      <4> QED BY <1>1, <2>5, <2>6, <3>1
    <3> QED BY <2>1, <2>4, <2>6, <3>1, <3>2 DEF Asking
  <2>7. CASE q # r
    <3>1. Pending(r)' = Pending(r)
      <4> HIDE DEF x, h, inb, job, res, inbN, jobN, resN
      <4> QED BY <1>1, <2>5, <2>7
    <3> QED BY <2>1, <2>4, <2>7, <3>1 DEF Asking
  <2> QED BY <2>6, <2>7
<1>12. ASSUME NEW post \in posts, Book(post) PROVE Asking(r)'
  <2>1. post.r \in Requests /\ \A new \in posts' : \E old \in posts : new.r = old.r /\ new.what = old.what
    <3>1. posts' = (posts \ {post}) \cup {[post EXCEPT !.at = "ok"]}
      BY <1>12 DEF Book
    <3>2. post \in Post
      BY <1>2
    <3>3. post.r \in Requests
          /\ [post EXCEPT !.at = "ok"].r = post.r /\ [post EXCEPT !.at = "ok"].what = post.what
      BY <3>2, Posts
    <3> QED BY <3>1, <3>3
  <2> QED BY <1>11, <1>12, <2>1 DEF Book
<1>13. ASSUME NEW q \in Requests, Propose(q) PROVE Asking(r)'
  BY <1>11, <1>13 DEF Propose, page
<1>14. ASSUME Fold PROVE Asking(r)'
  <2> DEFINE m == Head(results)
  <2>1. /\ m \in Result /\ results' = Tail(results) /\ m \in Range(results) /\ Range(results') \subseteq Range(results)
        /\ UNCHANGED <<inbox, jobs, shown, posts, asked>>
    BY <1>2, <1>14, ResultsFront, InResults DEF Fold, executor, page
  <2>2. res = IF m = h THEN resN + 1 ELSE resN
    BY <1>2, <1>14, <2>1, InResults DEF Fold
  <2>3. inbN = inb /\ jobN = job
    BY <2>1
  <2>4. CASE m = h
    <3>1. Pending(r)' = Pending(r) - 1 /\ Pending(r) # 0
      <4> HIDE DEF x, h, inb, job, res, inbN, jobN, resN, m
      <4> QED BY <1>1, <2>2, <2>3, <2>4
    <3>2. r \in asked /\ Pending(r)' = 0
      BY <1>1, <3>1 DEF Asking
    <3> QED BY <1>4, <2>1, <3>2
  <2>5. CASE m # h
    <3>1. Pending(r)' = Pending(r)
      <4> HIDE DEF x, h, inb, job, res, inbN, jobN, resN, m
      <4> QED BY <1>1, <2>2, <2>3, <2>5
    <3>2. Untouched(r) => m.r # r
      BY <2>1, <2>5 DEF Untouched
    <3>3. /\ waiting' \subseteq waiting \cup {m.r} /\ settled' \subseteq settled \cup {m.r}
          /\ pushed' \subseteq pushed \cup waiting \cup {m.r}
      BY <1>14 DEF Fold
    <3>4. Untouched(r) => Untouched(r)'
      <4> HIDE DEF x, h, inb, job, res, inbN, jobN, resN, m
      <4> QED BY <2>1, <3>2, <3>3 DEF Untouched
    <3> QED BY <1>3, <2>1, <3>1, <3>4
  <2> QED BY <2>4, <2>5
(* What the pages, the bounds and the memory of the console do. *)
<1>15. ASSUME UNCHANGED <<inbox, jobs, results, asked, waiting, settled>>,
              pushed' \subseteq pushed \cup waiting,
              \A p \in Pages : shown'[p] \subseteq shown[p] \cup pushed,
              \A new \in posts' \ posts : new.r = r => new.what = "ask" \/ \E p \in Pages : r \in shown[p]
       PROVE  Asking(r)'
  <2>1. Pending(r)' = Pending(r)
    BY <1>15 DEF Pending
  <2>2. Untouched(r) => Untouched(r)'
    BY <1>15 DEF Untouched
  <2> QED BY <1>3, <1>15, <2>1, <2>2
<1>16. ASSUME Others, ~Fold PROVE Asking(r)'
  <2>1. ASSUME NEW p \in Pages, Deliver(p) PROVE Asking(r)'
    BY <1>15, <2>1 DEF Deliver, executor, console, history, TypeOK
  <2>2. ASSUME NEW post \in posts, Respond(post) PROVE Asking(r)'
    BY <1>15, <2>2 DEF Respond, Push, executor, history
  <2>3. ASSUME NEW p \in Pages, NEW q \in Requests, Submit(p, q) PROVE Asking(r)'
    BY <1>15, <2>3 DEF Submit, executor, console, history
  <2>4. ASSUME NEW p \in Pages, NEW q \in Requests, NEW what \in {"yes", "no"}, Click(p, q, what)
        PROVE  Asking(r)'
    BY <1>15, <2>4 DEF Click, Offered, executor, console, history
  <2>5. ASSUME \/ Restart
               \/ UNCHANGED vars
               \/ \E p \in Pages : Leave(p)
               \/ \E post \in posts : Lose(post)
               \/ \E q \in Requests : Forget(q) \/ Expire(q)
        PROVE  Asking(r)'
    BY <1>15, <2>5 DEF Restart, Leave, Lose, Forget, Expire, executor, console, page, history, vars
  <2> QED BY <1>16, <2>1, <2>2, <2>3, <2>4, <2>5 DEF Others
<1> QED
  BY <1>6, <1>7, <1>8, <1>9, <1>10, <1>12, <1>13, <1>14, <1>16, StepCases

-----------------------------------------------------------------------------
(* A request leaves the list for good when it is settled: only the hold of   *)
(* its first asking puts it there, and then nothing has settled it.          *)
LEMMA ListStep ==
  ASSUME IInv, [Next]_vars
  PROVE  NobodyIsAskedTwice'
<1> USE DEF NobodyIsAskedTwice
<1>1. ASSUME Fold PROVE NobodyIsAskedTwice'
  <2> DEFINE m == Head(results)
  <2>1. CASE m.status = "CONFIRMATION_REQUIRED"
    <3>1. m \in Result
      BY <1>1, ResultsFront DEF Fold, IInv, TypeOK
    <3>2. m.r \in Requests /\ m = Held(m.r)
      BY <2>1, <3>1, Results DEF Held
    <3>3. Count(results, Held(m.r)) # 0
      <4>1. 1 \in DOMAIN results /\ results[1] = m
        BY <1>1 DEF Fold, IInv, TypeOK
      <4>2. results \in Seq(Result)
        BY DEF IInv, TypeOK
      <4> QED BY <3>2, <4>1, <4>2, CountTyped
    <3>4. Pending(m.r) # 0
      <4>1. TypeOK
        BY DEF IInv
      <4> HIDE DEF m
      <4> QED BY <3>3, <4>1, Counts DEF Pending
    <3>5. m.r \notin settled
      <4>1. Pending(m.r) \in Nat /\ Asking(m.r)
        BY <3>2, Counts DEF IInv, Pending
      <4> HIDE DEF m
      <4> QED BY <3>4, <4>1 DEF Asking, Untouched
    <3> QED BY <1>1, <2>1, <3>5 DEF Fold, IInv
  <2>2. CASE m.status # "CONFIRMATION_REQUIRED"
    BY <1>1, <2>2 DEF Fold, IInv
  <2> QED BY <2>1, <2>2
<1>2. ASSUME NEW post \in posts, Answer(post) PROVE NobodyIsAskedTwice'
  BY <1>2 DEF Answer, Settle, IInv
<1>3. ASSUME Reopen PROVE NobodyIsAskedTwice'
  BY <1>3 DEF Reopen
<1>4. ASSUME UNCHANGED <<waiting, settled>> PROVE NobodyIsAskedTwice'
  BY <1>4 DEF IInv
<1>5. CASE Take \/ Work \/ Die
  BY <1>4, <1>5 DEF Take, Work, Die, console, history
<1>6. ASSUME NEW post \in posts, Book(post) PROVE NobodyIsAskedTwice'
  BY <1>4, <1>6 DEF Book
<1>7. ASSUME NEW r \in Requests, Propose(r) PROVE NobodyIsAskedTwice'
  BY <1>4, <1>7 DEF Propose
<1>8. CASE Others /\ ~Fold
  BY <1>4, <1>8 DEF Others, Restart, Deliver, Leave, Respond, Lose, Forget, Expire, Submit, Click,
       console, history, vars
<1> QED BY <1>1, <1>2, <1>3, <1>5, <1>6, <1>7, <1>8, StepCases

LEMMA InvStep == IInv /\ [Next]_vars => IInv'
<1> SUFFICES ASSUME IInv, [Next]_vars PROVE IInv'
  OBVIOUS
<1>1. TypeOK /\ TypeOK'
  BY StepTyped DEF IInv
<1>2. ASSUME NEW r \in Requests PROVE Paid(r)' /\ Once(r)' /\ Asking(r)'
  BY <1>1, <1>2, YesesStep, AskingStep DEF IInv
<1> QED BY <1>1, <1>2, ListStep DEF IInv

LEMMA InvImplies == IInv => ConsentIsKept
<1> SUFFICES ASSUME IInv PROVE ConsentIsKept
  OBVIOUS
<1>1. ASSUME NEW r \in Requests PROVE done[r] <= yeses[r] /\ done[r] <= 1 + deaths
  <2>1. /\ Count(inbox, Yes(r)) \in Nat /\ Count(jobs, Yes(r)) \in Nat
        /\ done[r] \in Nat /\ yeses[r] \in Nat /\ deaths \in Nat
    BY Counts DEF IInv, TypeOK
  <2> QED BY <2>1 DEF IInv, Paid, Once
<1> QED BY <1>1 DEF IInv, ConsentIsKept, EveryDeedHasItsYes

(* Whatever is asked, answered, lost or restarted, in any order and on any  *)
(* number of pages: nothing is carried out more often than a person's yes   *)
(* to it was published, nor more than once in a life of the executor        *)
(* besides the one begun when it died, and no request that was answered or  *)
(* that ended is put on the list of what waits again (executor.py,          *)
(* actions.py, state.py).                                                   *)
THEOREM ConsentKept == Spec => []ConsentIsKept
<1>1. IInv /\ UNCHANGED vars => IInv'
  BY InvStep
<1> QED BY InitInv, InvStep, InvImplies, PTL DEF Spec

-----------------------------------------------------------------------------
(* The calendar. *)

(* An entry of the calendar is the only one its own words and day can      *)
(* single out.                                                             *)
LEMMA MatchesItself ==
  ASSUME IsFiniteSet(diary), NEW e \in diary
  PROVE  OneMatching(e.subject, e.day) \subseteq {e}
<1> DEFINE found == {f \in diary : e.subject # {} /\ e.subject \subseteq f.subject}
           onDay == {f \in found : f.day = e.day}
           left == IF Cardinality(found) > 1 /\ onDay # {} THEN onDay ELSE found
<1>1. OneMatching(e.subject, e.day) = IF Cardinality(left) = 1 THEN left ELSE {}
  BY DEF OneMatching
<1>2. left \subseteq found /\ found \subseteq diary
  OBVIOUS
<1>3. CASE e.subject = {}
  <2>1. found = {}
    BY <1>3
  <2> QED BY <1>1, <1>2, <2>1
<1>4. CASE e.subject # {}
  <2>1. e \in left
    BY <1>4
  <2>2. IsFiniteSet(left)
    BY <1>2, FS_Subset
  <2> HIDE DEF left
  <2>3. Cardinality(left) = 1 => left = {e}
    BY <2>1, <2>2, FS_Singleton
  <2> QED BY <1>1, <2>3
<1> QED BY <1>3, <1>4

(* One entry more, where there is room. *)
LEMMA Enters ==
  ASSUME CalendarTypeOK, HasSpace, NEW p \in Plan, NEW t \in BOOLEAN
  PROVE  LET D == diary \cup {Made(p, t)} IN
         /\ D \subseteq Entry /\ Distinct(D)
         /\ IsFiniteSet(D) /\ Cardinality(D) <= MaxEvents
         /\ \A e \in D : e.id < nextId + 1
         /\ Cardinality(D) = Cardinality(diary) + 1
<1> DEFINE new == Made(p, t)
<1>1. new \in Entry /\ new.id = nextId /\ nextId \in Nat
  BY DEF Made, Entry, Plan, CalendarTypeOK
<1>2. \A e \in diary : e.id \in Nat /\ e.id < nextId
  BY DEF CalendarTypeOK, Entry
<1>3. new \notin diary
  BY <1>1, <1>2
<1> HIDE DEF new
<1>4. /\ IsFiniteSet(diary \cup {new}) /\ Cardinality(diary \cup {new}) = Cardinality(diary) + 1
  BY <1>3, FS_AddElement DEF CalendarTypeOK
<1>5. Cardinality(diary) \in Nat
  BY FS_CardinalityType DEF CalendarTypeOK
<1>6. Distinct(diary \cup {new})
  BY <1>1, <1>2 DEF CalendarTypeOK, Distinct
<1>7. \A e \in diary \cup {new} : e.id < nextId + 1
  BY <1>1, <1>2
<1>8. Cardinality(diary \cup {new}) <= MaxEvents
  BY <1>4, <1>5, CalendarAssumption DEF HasSpace
<1>9. diary \cup {new} \subseteq Entry
  BY <1>1 DEF CalendarTypeOK
<1> QED BY <1>4, <1>6, <1>7, <1>8, <1>9 DEF new

(* Some entries less. *)
LEMMA Goes ==
  ASSUME CalendarTypeOK, NEW D \in SUBSET diary
  PROVE  /\ D \subseteq Entry /\ Distinct(D)
         /\ IsFiniteSet(D) /\ Cardinality(D) <= MaxEvents
         /\ \A e \in D : e.id < nextId
         /\ ~(Cardinality(D) > Cardinality(diary))
<1>1. IsFiniteSet(diary) /\ Cardinality(diary) <= MaxEvents /\ MaxEvents \in Nat
  BY CalendarAssumption DEF CalendarTypeOK
<1>2. IsFiniteSet(D) /\ Cardinality(D) <= Cardinality(diary)
  BY <1>1, FS_Subset
<1>3. Cardinality(D) \in Nat /\ Cardinality(diary) \in Nat
  BY <1>1, <1>2, FS_CardinalityType
<1> QED BY <1>1, <1>2, <1>3 DEF CalendarTypeOK, Distinct

(* Entries changed one by one, each keeping its id. *)
LEMMA Becomes ==
  ASSUME CalendarTypeOK, NEW f \in [diary -> Entry], \A e \in diary : f[e].id = e.id
  PROVE  LET D == {f[e] : e \in diary} IN
         /\ D \subseteq Entry /\ Distinct(D)
         /\ IsFiniteSet(D) /\ Cardinality(D) <= MaxEvents
         /\ \A e \in D : e.id < nextId
         /\ ~(Cardinality(D) > Cardinality(diary))
<1> DEFINE D == {f[e] : e \in diary}
<1>1. IsFiniteSet(diary) /\ Cardinality(diary) <= MaxEvents /\ MaxEvents \in Nat
  BY CalendarAssumption DEF CalendarTypeOK
<1>2. f \in Surjection(diary, D)
  BY DEF Surjection
<1>3. D \subseteq Entry
  OBVIOUS
<1>4. Distinct(D) /\ \A e \in D : e.id < nextId
  BY DEF Distinct, CalendarTypeOK
<1> HIDE DEF D
<1>5. IsFiniteSet(D) /\ Cardinality(D) <= Cardinality(diary)
  BY <1>1, <1>2, FS_Surjection
<1>6. Cardinality(D) \in Nat /\ Cardinality(diary) \in Nat
  BY <1>1, <1>5, FS_CardinalityType
<1> QED BY <1>1, <1>3, <1>4, <1>5, <1>6 DEF D

LEMMA KindsOfWork ==
  ASSUME NEW job \in Invocation
  PROVE  /\ job.kind \in {"read", "add", "pencil", "remove", "keep", "move"}
         /\ job.kind \in {"add", "pencil"} => job.entry \in Plan
         /\ job.kind \in {"remove", "keep", "move"} => job.entry \in Entry
BY DEF Invocation

LEMMA Sums == \A m, n \in Nat : m + n \in Nat
OBVIOUS

LEMMA ReadTyped == \A n \in Nat : Read(n) \in Invocation
BY DEF Read, Invocation

(* What an invocation leaves is a calendar again. *)
LEMMA AfterTyped ==
  ASSUME CalendarTypeOK, NEW job \in Invocation, NEW D, D = After(job)
  PROVE  /\ D \subseteq Entry /\ Distinct(D)
         /\ IsFiniteSet(D) /\ Cardinality(D) <= MaxEvents
         /\ \A e \in D : e.id < IF Cardinality(D) > Cardinality(diary) THEN nextId + 1 ELSE nextId
<1>0. Cardinality(diary) \in Nat /\ diary \subseteq Entry
  BY FS_CardinalityType DEF CalendarTypeOK
<1>1. CASE job.kind = "add" /\ HasSpace
  <2>1. D = diary \cup {Made(job.entry, FALSE)}
    BY <1>1 DEF After
  <2>2. job.entry \in Plan
    BY <1>1, KindsOfWork
  <2>3. /\ D \subseteq Entry /\ Distinct(D) /\ IsFiniteSet(D) /\ Cardinality(D) <= MaxEvents
        /\ \A e \in D : e.id < nextId + 1
        /\ Cardinality(D) = Cardinality(diary) + 1
    BY <1>1, <2>1, <2>2, Enters
  <2>4. Cardinality(D) > Cardinality(diary)
    BY <1>0, <2>3
  <2> QED BY <2>3, <2>4
<1>2. CASE job.kind = "pencil" /\ HasSpace /\ ~SamePlan(job.entry.subject, job.entry.day)
  <2>1. D = diary \cup {Made(job.entry, TRUE)}
    BY <1>2 DEF After
  <2>2. job.entry \in Plan
    BY <1>2, KindsOfWork
  <2>3. /\ D \subseteq Entry /\ Distinct(D) /\ IsFiniteSet(D) /\ Cardinality(D) <= MaxEvents
        /\ \A e \in D : e.id < nextId + 1
        /\ Cardinality(D) = Cardinality(diary) + 1
    BY <1>2, <2>1, <2>2, Enters
  <2>4. Cardinality(D) > Cardinality(diary)
    BY <1>0, <2>3
  <2> QED BY <2>3, <2>4
<1>3. CASE job.kind = "remove"
  <2>1. D \in SUBSET diary
    BY <1>3 DEF After
  <2> QED BY <2>1, Goes
<1>4. CASE job.kind = "keep"
  <2> DEFINE f == [e \in diary |-> IF e.id = job.entry.id THEN [e EXCEPT !.tentative = FALSE] ELSE e]
  <2>1. f \in [diary -> Entry] /\ \A e \in diary : f[e].id = e.id
    BY <1>0 DEF Entry
  <2>2. D = {f[e] : e \in diary}
    BY <1>4 DEF After
  <2> HIDE DEF f
  <2> QED BY <2>1, <2>2, Becomes
<1>5. CASE job.kind = "move"
  <2> DEFINE f == [e \in diary |-> IF e.id = job.entry.id THEN [e EXCEPT !.day = job.entry.day] ELSE e]
  <2>0. job.entry.day \in Days
    BY <1>5, KindsOfWork DEF Entry
  <2>1. f \in [diary -> Entry] /\ \A e \in diary : f[e].id = e.id
    BY <1>0, <2>0 DEF Entry
  <2>2. D = {f[e] : e \in diary}
    BY <1>5 DEF After
  <2> HIDE DEF f
  <2> QED BY <2>1, <2>2, Becomes
<1>6. CASE /\ ~(job.kind = "add" /\ HasSpace)
           /\ ~(job.kind = "pencil" /\ HasSpace /\ ~SamePlan(job.entry.subject, job.entry.day))
           /\ job.kind \notin {"remove", "keep", "move"}
  <2>1. D = diary
    BY <1>6 DEF After
  <2> QED BY <2>1, Goes
<1> QED BY <1>1, <1>2, <1>3, <1>4, <1>5, <1>6

-----------------------------------------------------------------------------
LEMMA CalendarStarts == CalendarInit => CalendarTypeOK /\ RemovesWhatWasChosen
<1> SUFFICES ASSUME CalendarInit PROVE CalendarTypeOK /\ RemovesWhatWasChosen
  OBVIOUS
<1>1. /\ diary \subseteq Entry /\ Distinct(diary) /\ \A e \in diary : e.id <= MaxEvents
      /\ IsFiniteSet(diary) /\ Cardinality(diary) <= MaxEvents
  BY CalendarAssumption DEF CalendarInit
<1>2. MaxEvents \in Nat /\ nextId = MaxEvents + 1 /\ Taps \in Nat /\ Elsewhere \in Nat
  BY CalendarAssumption DEF CalendarInit
<1>3. \A e \in diary : e.id \in Nat /\ e.id < nextId
  BY <1>1, <1>2 DEF Entry
<1>4. requests \subseteq Invocation
  BY DEF CalendarInit, Read, Invocation
<1>5. work \in Seq(Invocation) /\ outcomes \in Seq(Report) /\ news \in Seq(Notice)
  BY EmptySeq DEF CalendarInit
<1>6. taps \in 0..Taps /\ elsewhere \in 0..Elsewhere /\ nextId \in Nat
  BY <1>2 DEF CalendarInit
<1>7. listing = {} /\ listed = {} /\ selected = NoEntry /\ owed = FALSE /\ strange = {}
  BY DEF CalendarInit
<1> QED BY <1>1, <1>3, <1>4, <1>5, <1>6, <1>7 DEF CalendarTypeOK, RemovesWhatWasChosen

LEMMA Performed == CalendarTypeOK /\ RemovesWhatWasChosen /\ Perform => CalendarTypeOK' /\ RemovesWhatWasChosen'
<1> SUFFICES ASSUME CalendarTypeOK, RemovesWhatWasChosen, Perform
             PROVE  CalendarTypeOK' /\ RemovesWhatWasChosen'
  OBVIOUS
<1> DEFINE job == Head(work)
<1>1. job \in Invocation /\ work' \in Seq(Invocation)
  BY HeadTailProperties DEF Perform, CalendarTypeOK
<1>2. /\ diary' = After(job)
      /\ nextId' = IF Cardinality(diary') > Cardinality(diary) THEN nextId + 1 ELSE nextId
      /\ strange' = IF job.kind = "remove" /\ job.entry \in diary
                      THEN strange \cup ((diary \ diary') \ {job.entry}) ELSE strange
      /\ UNCHANGED <<listing, news, listed, selected, requests, taps>>
  BY DEF Perform, pageC
<1>3. /\ outcomes' \in Seq(Report) /\ owed' \in BOOLEAN
      /\ elsewhere' \in 0..Elsewhere
  <2>1. /\ [kind |-> IF job.kind = "read" THEN "read" ELSE "done", ok |-> Tells(job),
             entries |-> IF job.kind = "read" THEN diary ELSE {}] \in Report
        /\ [kind |-> "failed", ok |-> FALSE, entries |-> {}] \in Report
    <3>1. Tells(job) \in BOOLEAN
      BY DEF Tells
    <3>2. diary \in SUBSET Entry
      BY DEF CalendarTypeOK
    <3> HIDE DEF job
    <3> QED BY <3>1, <3>2 DEF Report
  <2>2. outcomes \in Seq(Report) /\ owed \in BOOLEAN /\ elsewhere \in 0..Elsewhere /\ Elsewhere \in Nat
    BY CalendarAssumption DEF CalendarTypeOK
  <2>3. CASE /\ outcomes' = Append(outcomes, [kind |-> IF job.kind = "read" THEN "read" ELSE "done", ok |-> Tells(job),
                                          entries |-> IF job.kind = "read" THEN diary ELSE {}])
             /\ owed' = IF job.kind = "read" THEN FALSE ELSE owed
             /\ UNCHANGED elsewhere
    BY <2>1, <2>2, <2>3, AppendProperties
  <2>4. CASE /\ elsewhere < Elsewhere /\ elsewhere' = elsewhere + 1
             /\ outcomes' = Append(outcomes, [kind |-> "failed", ok |-> FALSE, entries |-> {}])
             /\ owed' = TRUE
    BY <2>1, <2>2, <2>4, AppendProperties
  <2> QED BY <2>3, <2>4 DEF Perform
<1> HIDE DEF job
<1>4. /\ diary' \subseteq Entry /\ Distinct(diary')
      /\ IsFiniteSet(diary') /\ Cardinality(diary') <= MaxEvents
      /\ \A e \in diary' : e.id < nextId'
  BY <1>1, <1>2, AfterTyped
<1>5. nextId' \in Nat
  BY <1>2 DEF CalendarTypeOK
<1>6. strange' = {}
  <2>1. CASE job.kind = "remove" /\ job.entry \in diary
    <3>1. diary' = diary \ OneMatching(job.entry.subject, job.entry.day)
      BY <1>2, <2>1 DEF After
    <3>2. OneMatching(job.entry.subject, job.entry.day) \subseteq {job.entry}
      BY <2>1, MatchesItself DEF CalendarTypeOK
    <3> QED BY <1>2, <2>1, <3>1, <3>2 DEF RemovesWhatWasChosen
  <2> QED BY <1>2, <2>1 DEF RemovesWhatWasChosen
<1> QED BY <1>1, <1>2, <1>3, <1>4, <1>5, <1>6 DEF CalendarTypeOK, RemovesWhatWasChosen

(* Requests and messages are well formed, wherever they are. *)
LEMMA OthersTyped ==
  CalendarTypeOK /\ [CalendarNext]_calendarVars /\ ~Perform /\ ~WriteSilently => CalendarTypeOK'
<1> SUFFICES ASSUME CalendarTypeOK, [CalendarNext]_calendarVars, ~Perform, ~WriteSilently
             PROVE  CalendarTypeOK'
  OBVIOUS
<1>0. /\ Taps \in Nat /\ Elsewhere \in Nat /\ taps \in 0..Taps /\ elsewhere \in 0..Elsewhere
      /\ Additions \subseteq Plan
  BY CalendarAssumption DEF CalendarTypeOK
<1>1. CASE OnOutcome
  <2>1. /\ Head(outcomes) \in Report /\ outcomes' \in Seq(Report)
    BY <1>1, HeadTailProperties DEF OnOutcome, CalendarTypeOK
  <2>2. listing' \in SUBSET Entry
    BY <1>1, <2>1 DEF OnOutcome, CalendarTypeOK, Report
  <2>3. [stale |-> FALSE, entries |-> listing'] \in Notice /\ [stale |-> TRUE, entries |-> {}] \in Notice
    BY <2>2 DEF Notice
  <2>4. news \in Seq(Notice)
    BY DEF CalendarTypeOK
  <2>5. \/ news' = news
        \/ news' = Append(news, [stale |-> FALSE, entries |-> listing'])
        \/ news' = Append(news, [stale |-> TRUE, entries |-> {}])
    BY <1>1 DEF OnOutcome
  <2>6. news' \in Seq(Notice)
    BY <2>3, <2>4, <2>5, AppendProperties
  <2> QED BY <1>1, <2>1, <2>2, <2>6 DEF OnOutcome, CalendarTypeOK, executorC
<1>2. CASE DrawCalendar
  <2>1. PICK n \in 1..Len(news) :
          LET lists == {i \in 1..n : ~news[i].stale}
          IN /\ news' = SubSeq(news, n + 1, Len(news))
             /\ \/ lists = {} /\ listed' = listed
                \/ \E last \in lists : (\A i \in lists : i <= last) /\ listed' = news[last].entries
             /\ requests' = IF lists = 1..n THEN requests ELSE requests \cup {Fresh}
    BY <1>2 DEF DrawCalendar
  <2>2. news \in Seq(Notice) /\ Len(news) \in Nat /\ \A i \in 1..Len(news) : news[i] \in Notice
    BY LenProperties, ElementOfSeq DEF CalendarTypeOK
  <2>3. news' \in Seq(Notice)
    BY <2>1, <2>2, SubSeqProperties
  <2>4. listed' \subseteq Entry
    BY <2>1, <2>2 DEF CalendarTypeOK, Notice
  <2>5. Fresh \in Invocation
    BY <1>0, ReadTyped DEF Fresh
  <2>6. requests' \subseteq Invocation
    BY <2>1, <2>5 DEF CalendarTypeOK
  <2> QED BY <1>2, <2>3, <2>4, <2>6 DEF DrawCalendar, CalendarTypeOK, executorC
<1>3. ASSUME NEW r \in requests, TakeRequest(r) PROVE CalendarTypeOK'
  <2>1. work' \in Seq(Invocation)
    BY <1>3, AppendProperties DEF TakeRequest, CalendarTypeOK
  <2> QED BY <1>3, <2>1 DEF TakeRequest, CalendarTypeOK
<1>4. ASSUME NEW e \in (listed \cup {selected}) \ {NoEntry}, Select(e) PROVE CalendarTypeOK'
  BY <1>0, <1>4 DEF Select, Tap, CalendarTypeOK, executorC
<1>5. ASSUME NEW kind \in {"remove", "keep"}, NEW e \in (listed \cup {selected}) \ {NoEntry}, PressEntry(kind, e)
      PROVE  CalendarTypeOK'
  <2>1. e \in Entry
    BY <1>5 DEF CalendarTypeOK
  <2>2. taps' \in 0..Taps
    BY <1>0, <1>5 DEF PressEntry, Tap
  <2>3. [kind |-> kind, entry |-> e, n |-> taps' + elsewhere] \in Invocation
    <3>1. taps' \in Nat /\ elsewhere \in Nat
      BY <1>0, <2>2
    <3>2. taps' + elsewhere \in Nat
      BY <3>1, Sums
    <3> QED BY <2>1, <3>2 DEF Invocation
  <2>4. requests' \subseteq Invocation
    BY <1>5, <2>3 DEF PressEntry, Request, CalendarTypeOK
  <2> QED BY <1>5, <2>2, <2>4 DEF PressEntry, CalendarTypeOK, executorC, pageC
<1>6. ASSUME NEW p \in Additions, AddNew(p) PROVE CalendarTypeOK'
  <2>1. taps' \in 0..Taps
    BY <1>0, <1>6 DEF AddNew, Tap
  <2>2. [kind |-> "add", entry |-> p, n |-> taps' + elsewhere] \in Invocation
    <3>1. taps' \in Nat /\ elsewhere \in Nat /\ p \in Plan
      BY <1>0, <2>1
    <3>2. taps' + elsewhere \in Nat
      BY <3>1, Sums
    <3> QED BY <3>1, <3>2 DEF Invocation
  <2>3. requests' \subseteq Invocation
    BY <1>6, <2>2 DEF AddNew, Request, CalendarTypeOK
  <2> QED BY <1>6, <2>1, <2>3 DEF AddNew, CalendarTypeOK, executorC, pageC
<1>7. ASSUME NEW job \in Invocation, AskAloud(job) PROVE CalendarTypeOK'
  <2>1. work' \in Seq(Invocation)
    BY <1>7, AppendProperties DEF AskAloud, CalendarTypeOK
  <2> QED BY <1>0, <1>7, <2>1 DEF AskAloud, CalendarTypeOK, pageC
<1>8. \A p \in Additions : [kind |-> "pencil", entry |-> p, n |-> 0] \in Invocation
  BY <1>0 DEF Invocation
<1>9. \A e \in diary, d \in Days : [kind |-> "move", entry |-> [e EXCEPT !.day = d], n |-> 0] \in Invocation
  BY DEF Invocation, CalendarTypeOK, Entry
<1>10. CASE OpenAgain
  <2>1. taps' \in 0..Taps
    BY <1>0, <1>10 DEF OpenAgain, Tap
  <2>2. Read(taps' + elsewhere) \in Invocation
    <3>1. taps' \in Nat /\ elsewhere \in Nat
      BY <1>0, <2>1
    <3> QED BY <3>1, ReadTyped
  <2> QED BY <1>10, <2>1, <2>2 DEF OpenAgain, CalendarTypeOK, executorC
<1>11. CASE CutCalendar
  <2>1. news' \in Seq(Notice)
    BY <1>11, EmptySeq DEF CutCalendar
  <2> QED BY <1>0, <1>11, <2>1 DEF CutCalendar, CalendarTypeOK, executorC
<1>12. ASSUME NEW r \in requests, LoseRequest(r) PROVE CalendarTypeOK'
  BY <1>0, <1>12 DEF LoseRequest, CalendarTypeOK, executorC, pageC
<1>13. CASE UNCHANGED calendarVars
  BY <1>13 DEF calendarVars, CalendarTypeOK
<1> QED BY <1>1, <1>2, <1>3, <1>4, <1>5, <1>6, <1>7, <1>8, <1>9, <1>10, <1>11, <1>12, <1>13
        DEF CalendarNext, CalendarActs

LEMMA Silently == CalendarTypeOK /\ WriteSilently => CalendarTypeOK'
<1> SUFFICES ASSUME CalendarTypeOK, WriteSilently PROVE CalendarTypeOK'
  OBVIOUS
<1>0. /\ Elsewhere \in Nat /\ elsewhere \in 0..Elsewhere /\ Additions \subseteq Plan
  BY CalendarAssumption DEF CalendarTypeOK
<1>1. /\ elsewhere' \in 0..Elsewhere /\ owed' \in BOOLEAN
      /\ UNCHANGED <<work, outcomes, listing, news, listed, selected, requests, taps, strange>>
  BY <1>0 DEF WriteSilently, pageC
<1>2. ASSUME HasSpace, NEW p \in Additions, diary' = diary \cup {Made(p, FALSE)}, nextId' = nextId + 1
      PROVE  /\ diary' \subseteq Entry /\ Distinct(diary') /\ IsFiniteSet(diary')
             /\ Cardinality(diary') <= MaxEvents /\ \A e \in diary' : e.id < nextId'
             /\ nextId' \in Nat
  <2>1. /\ p \in Plan /\ FALSE \in BOOLEAN /\ nextId \in Nat
    BY <1>0 DEF CalendarTypeOK
  <2> DEFINE D == diary \cup {Made(p, FALSE)}
  <2>2. /\ D \subseteq Entry /\ Distinct(D) /\ IsFiniteSet(D)
        /\ Cardinality(D) <= MaxEvents /\ \A e \in D : e.id < nextId + 1
    BY <1>2, <2>1, Enters
  <2>3. diary' = D /\ nextId' = nextId + 1 /\ nextId' \in Nat
    BY <1>2, <2>1
  <2> HIDE DEF D
  <2> QED BY <2>2, <2>3
<1>3. ASSUME NEW e \in diary, diary' = diary \ {e}, nextId' = nextId
      PROVE  /\ diary' \subseteq Entry /\ Distinct(diary') /\ IsFiniteSet(diary')
             /\ Cardinality(diary') <= MaxEvents /\ \A f \in diary' : f.id < nextId'
             /\ nextId' \in Nat
  <2>1. diary' \in SUBSET diary
    BY <1>3
  <2> QED BY <1>3, <2>1, Goes DEF CalendarTypeOK
<1>4. /\ diary' \subseteq Entry /\ Distinct(diary') /\ IsFiniteSet(diary')
      /\ Cardinality(diary') <= MaxEvents /\ \A e \in diary' : e.id < nextId'
      /\ nextId' \in Nat
  BY <1>2, <1>3 DEF WriteSilently
<1> QED BY <1>1, <1>4 DEF CalendarTypeOK

LEMMA NothingStrange == [CalendarNext]_calendarVars /\ ~Perform => UNCHANGED strange
BY DEF CalendarNext, CalendarActs, OnOutcome, DrawCalendar, TakeRequest, Select, PressEntry,
       AddNew, AskAloud, WriteSilently, OpenAgain, CutCalendar, LoseRequest, calendarVars

(* The calendar never holds more than its cap nor an id twice, and what    *)
(* goes when an entry is removed from the page is that entry               *)
(* (local_calendar.py, Calendar.tsx).                                      *)
THEOREM CalendarKept == CalendarInit /\ [][CalendarNext]_calendarVars => []CalendarIsKept
<1>1. CalendarIsKept /\ [CalendarNext]_calendarVars => CalendarIsKept'
  BY Performed, OthersTyped, Silently, NothingStrange DEF CalendarIsKept, RemovesWhatWasChosen
<1> QED BY <1>1, CalendarStarts, PTL DEF CalendarIsKept
=============================================================================
