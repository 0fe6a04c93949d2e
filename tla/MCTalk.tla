------------------------------- MODULE MCTalk -------------------------------
(***************************************************************************)
(* The Talk page opened on one of its two tabs.                            *)
(*                                                                         *)
(* Ask: one phone, with a recording and a typed request, two typed ones    *)
(* beside somebody else, two presses of one button beside somebody else,   *)
(* or three typed requests in a row.                                       *)
(*                                                                         *)
(* Message home: three messages where two are kept, one of them played     *)
(* again, one restart of the speech service, a voice queue of one.         *)
(***************************************************************************)
EXTENDS RemoteTalk, MessageHome

VARIABLE mode  \* Talk.tsx: the tab

MCWords == {"warmer", "weather"}

NothingToAsk == [takes |-> 0, asks |-> 0, extras |-> 0]

MCBudgets == {[takes |-> 1, asks |-> 2, extras |-> 0],
              [takes |-> 0, asks |-> 2, extras |-> 1],
              [takes |-> 2, asks |-> 1, extras |-> 1],
              [takes |-> 0, asks |-> 3, extras |-> 0],
              NothingToAsk}

TalkInit ==
  /\ Init /\ HomeInit
  /\ mode \in {"ask", "message"}
  /\ mode = "message" <=> (extras = 0 /\ \A a \in Asks : posts[a].at = "over")

TalkNext ==
  \/ mode = "ask" /\ Next /\ UNCHANGED <<homeVars, mode>>
  \/ mode = "message" /\ HomeNext /\ UNCHANGED <<vars, mode>>

TalkSpec == TalkInit /\ [][TalkNext]_<<vars, homeVars, mode>> /\ Fairness /\ HomeFairness

(* Talking and messages come to an end: the button comes back, the last *)
(* question is answered or the page says that it was not, the ticks of  *)
(* every message settle, and an answer is there to be heard             *)
(* (useRemoteTalk.ts, speech/messages.py, useMessageHome.ts).           *)
TalksEnd ==
  /\ ButtonComesBack
  /\ LastIsAnswered
  /\ EveryMessageSettles
  /\ AnswerIsThere
=============================================================================
