---------------------------- MODULE MusicPlayer ----------------------------
(***************************************************************************)
(* The music player (src/src/devices/music): one song at a time, held back *)
(* while the room's voice is about to say that it plays it, followed by    *)
(* another when it ends; what the sound card does meanwhile; and the       *)
(* remote that shows it (remotes/MusicRemote.tsx).                         *)
(*                                                                         *)
(* Commands, the room's voice and the board come on the service's network  *)
(* thread, check() on its main thread, what plays next on a thread of its  *)
(* own: each takes the player's lock once.  Reading the state and          *)
(* publishing it is one step here.  Volume, names, searching by words and  *)
(* the place in a song are left out.                                       *)
(***************************************************************************)
EXTENDS Naturals, Sequences, FiniteSets, Functions

CONSTANTS
  Files, Streams, \* the songs of the library, and those found online
  NoSong,
  Charts,         \* bound: what may be found to follow a song, sequences of Streams
  MaxFetches,     \* bound: fetches under way of what follows one song
  MaxRefusals,    \* bound: times that a stream cannot be opened or found
  MaxAsked        \* bound: commands, and restarts

ASSUME MusicAssumption ==
  /\ NoSong \notin Files \cup Streams /\ Files \cap Streams = {} /\ Files # {}
  /\ Charts \subseteq Seq(Streams) /\ {MaxFetches, MaxRefusals, MaxAsked} \subseteq Nat

Songs == Files \cup Streams

VARIABLES
  track, paused,  \* _track, _paused
  cued,           \* _cued_until: "no", "yes", or "due" once its time has passed
  autoplay,       \* _autoplay
  upNext,         \* _up_next
  played,         \* _played
  unpublished,    \* _unpublished
  fetching,       \* how many threads fetch what follows each song
  out,            \* the sound card: the song open, whether held, run out, its stream broken
  room,           \* RoomVoice
  tile,           \* the state on the board, which the remote shows
  left,           \* bound: refusals and commands still to come
  failed,         \* history: the last opening failed
  lineFor         \* history: the song upNext was fetched for

musicVars == <<track, paused, cued, autoplay, upNext, played, unpublished, fetching, out, room, tile, left,
               failed, lineFor>>

Closed == [song |-> NoSong, held |-> FALSE, over |-> FALSE, broken |-> FALSE]
Quiet == [asked |-> "no", replied |-> FALSE, aloud |-> FALSE, since |-> FALSE, speaking |-> FALSE]

Idle == [song \in Streams |-> 0]

(* state(): the fields the remote reads.                                     *)
State == [playing |-> track # NoSong /\ ~paused /\ cued = "no", paused |-> paused, starting |-> cued # "no",
          track |-> track, autoplay |-> autoplay, upNext |-> IF upNext = <<>> THEN NoSong ELSE Head(upNext)]
Publish == tile' = State'

MusicTypeOK ==
  /\ track \in Songs \cup {NoSong} /\ paused \in BOOLEAN /\ cued \in {"no", "yes", "due"}
  /\ autoplay \in BOOLEAN /\ unpublished \in BOOLEAN /\ failed \in BOOLEAN
  /\ upNext \in Seq(Streams) /\ played \subseteq Streams /\ fetching \in [Streams -> 0..MaxFetches]
  /\ out \in [song : Songs \cup {NoSong}, held : BOOLEAN, over : BOOLEAN, broken : BOOLEAN]
  /\ room \in [asked : {"no", "recent", "old"}, replied : BOOLEAN, aloud : BOOLEAN, since : BOOLEAN, speaking : BOOLEAN]
  /\ tile.paused \in BOOLEAN /\ left \in [refusals : 0..MaxRefusals, asked : 0..MaxAsked]
  /\ lineFor \in Streams \cup {NoSong}
  /\ paused => track # NoSong /\ cued = "no"
  /\ cued # "no" => track # NoSong

MusicInit ==
  /\ track = NoSong /\ paused = FALSE /\ cued = "no" /\ autoplay = TRUE
  /\ upNext = <<>> /\ played = {} /\ unpublished = FALSE /\ fetching = Idle
  /\ out = Closed /\ room = Quiet /\ tile = State
  /\ left \in [refusals : 0..MaxRefusals, asked : 0..MaxAsked]
  /\ failed = FALSE /\ lineFor = NoSong

-----------------------------------------------------------------------------
(* The room's voice. *)

AwaitingReply == room.asked = "recent" /\ ~room.replied
ReplySaid == room.replied /\ (room.aloud => room.since /\ ~room.speaking)

(* A held song is let go once the reply has been said, or its time has passed. *)
Released(said) == cued = "due" \/ (cued = "yes" /\ said)
(* follow_room: the player's part in a change of the room. *)
FollowRoom ==
  /\ cued' = IF Released(ReplySaid') THEN "no" ELSE cued
  /\ out' = IF Released(ReplySaid') THEN [out EXCEPT !.held = FALSE] ELSE out
  /\ unpublished' = (unpublished \/ Released(ReplySaid'))

roomless == <<track, paused, autoplay, upNext, played, fetching, tile, left, failed, lineFor>>

(* on_request: something was said aloud in the room.                         *)
OnRequest ==
  /\ room' = [room EXCEPT !.asked = "recent", !.replied = FALSE, !.since = FALSE]
  /\ UNCHANGED <<roomless, cued, out, unpublished>>

(* on_reply: the answer, which is said aloud or not.                         *)
OnReply ==
  /\ room.asked # "no" /\ ~room.replied
  /\ \E aloud \in BOOLEAN : room' = [room EXCEPT !.replied = TRUE, !.aloud = aloud]
  /\ FollowRoom
  /\ UNCHANGED roomless

(* on_status: the room begins or ceases to speak.                            *)
OnSpeech ==
  /\ room' = [room EXCEPT !.speaking = ~@, !.since = @ \/ (room.replied /\ ~room.speaking)]
  /\ FollowRoom
  /\ UNCHANGED roomless

(* The time a request counts for, and the time a song is held for, pass.     *)
WindowPasses ==
  /\ room.asked = "recent" /\ room' = [room EXCEPT !.asked = "old"]
  /\ UNCHANGED <<roomless, cued, out, unpublished>>
TimePasses ==
  /\ cued = "yes" /\ cued' = "due"
  /\ UNCHANGED <<roomless, out, unpublished, room>>

-----------------------------------------------------------------------------
(* Playing. *)

(* MiniaudioPlayer.play: whatever was open is closed first, so that a stream *)
(* that cannot be opened leaves nothing open, and "finished" as it was.      *)
Opened(song, held) == [song |-> song, held |-> held, over |-> FALSE, broken |-> FALSE]
CannotOpen == [Closed EXCEPT !.over = out.over]

(* Whether a stream can be refused in this step.                             *)
Trouble(bad) ==
  /\ bad => left.refusals > 0
  /\ left' = [left EXCEPT !.refusals = IF bad THEN @ - 1 ELSE @]

Fetch(song) ==
  IF autoplay' /\ song \in Streams /\ fetching[song] < MaxFetches THEN [fetching EXCEPT ![song] = @ + 1] ELSE fetching
Lined(song) ==
  /\ UNCHANGED autoplay
  /\ played' = played \cup ({song} \cap Streams)
  /\ fetching' = Fetch(song)

(* Mutant: what was lined up after another song stays.                       *)
StartLinedUp(song, asked) ==
  /\ track' = song /\ paused' = FALSE /\ failed' = FALSE
  /\ cued' = IF asked /\ AwaitingReply THEN "yes" ELSE "no"
  /\ out' = Opened(song, asked /\ AwaitingReply)
  /\ UNCHANGED <<upNext, lineFor>>
  /\ Lined(song)
(* _start, of a song that opens. *)
Start(song, asked) ==
  /\ track' = song /\ paused' = FALSE /\ failed' = FALSE
  /\ cued' = IF asked /\ AwaitingReply THEN "yes" ELSE "no"
  /\ out' = Opened(song, asked /\ AwaitingReply)
  /\ upNext' = <<>> /\ lineFor' = NoSong
  /\ Lined(song)

(* _following: the first of those lined up that can be found, with those then *)
(* left; NoSong once YouTube cannot be reached; with none left, nothing after *)
(* a stream, else another file.                                              *)
Following(bad) ==
  LET rest(i) == SubSeq(upNext, i + 1, Len(upNext))
      found == {<<upNext[i], rest(i)>> : i \in IF bad THEN DOMAIN upNext ELSE DOMAIN upNext \cap {1}}
      unreached == {<<NoSong, rest(i)>> : i \in IF bad THEN DOMAIN upNext ELSE {}}
      others == IF track \in Streams \/ Files \ {track} = {} THEN {NoSong} ELSE Files \ {track}
  IN found \cup unreached \cup {<<song, <<>>>> : song \in IF bad \/ upNext = <<>> THEN others ELSE {}}

-----------------------------------------------------------------------------
(* The commands: a handler that answers has the state published, one that    *)
(* refuses does not.                                                         *)

CanPause == track # NoSong /\ ~paused
CanResume == track # NoSong /\ paused
CanStop == track # NoSong

Spend(bad) ==
  /\ left.asked > 0 /\ (bad => left.refusals > 0)
  /\ left' = [asked |-> left.asked - 1, refusals |-> IF bad THEN left.refusals - 1 ELSE left.refusals]

(* play, of a song found (with no words and a song paused, it is resume).    *)
Play(song) ==
  /\ Spend(FALSE)
  /\ Start(song, TRUE)
  /\ UNCHANGED <<unpublished, room>>
  /\ Publish

(* ... of a stream that cannot be opened: the song that played is cut off.   *)
PlayRefused ==
  /\ Spend(TRUE)
  /\ out' = CannotOpen /\ failed' = TRUE
  /\ UNCHANGED <<track, paused, cued, autoplay, upNext, played, unpublished, fetching, room, tile, lineFor>>

(* pause; and stop, which keeps the place and is allowed of a paused song.   *)
Hold ==
  /\ paused' = TRUE /\ cued' = "no" /\ out' = [out EXCEPT !.held = TRUE]
  /\ UNCHANGED <<track, autoplay, upNext, played, unpublished, fetching, room, failed, lineFor>>
Pause == CanPause /\ Spend(FALSE) /\ Hold /\ Publish
Stop ==
  /\ CanStop /\ Spend(FALSE)
  /\ \/ ~paused /\ Hold
     \/ paused /\ UNCHANGED <<track, paused, cued, autoplay, upNext, played, unpublished, fetching, out, room, failed, lineFor>>
  /\ Publish

(* resume: through a fresh connection if the stream has dropped.             *)
Kept == <<track, cued, autoplay, upNext, played, unpublished, fetching, room, lineFor>>
Resume ==
  /\ CanResume /\ Spend(FALSE)
  /\ paused' = FALSE
  /\ \/ out.broken /\ out' = Opened(track, FALSE) /\ failed' = FALSE
     \/ ~out.broken /\ out' = [out EXCEPT !.held = FALSE] /\ UNCHANGED failed
  /\ UNCHANGED Kept
  /\ Publish
ResumeRefused ==
  /\ CanResume /\ out.broken /\ Spend(TRUE)
  /\ out' = CannotOpen /\ failed' = TRUE
  /\ UNCHANGED <<Kept, paused, tile>>

(* next; and next refused: with nothing to play, or with a song that does    *)
(* not open and has gone from the line.                                      *)
Skip ==
  /\ \E bad \in BOOLEAN :
       /\ Spend(bad)
       /\ \E next \in Following(bad) : next[1] # NoSong /\ Start(next[1], TRUE)
  /\ UNCHANGED <<unpublished, room>>
  /\ Publish
SkipRefused ==
  /\ \E bad \in BOOLEAN :
       /\ Spend(bad)
       /\ \E next \in Following(bad) :
            /\ upNext' = next[2]
            /\ \/ next[1] = NoSong /\ UNCHANGED <<out, failed>>
               \/ bad /\ next[1] \in Streams /\ out' = CannotOpen /\ failed' = TRUE
  /\ UNCHANGED <<track, paused, cued, autoplay, played, unpublished, fetching, room, tile, lineFor>>

SetAutoplay ==
  /\ Spend(FALSE)
  /\ autoplay' = ~autoplay
  /\ fetching' = IF upNext = <<>> THEN Fetch(track) ELSE fetching
  /\ UNCHANGED <<track, paused, cued, upNext, played, unpublished, out, room, failed, lineFor>>
  /\ Publish

(* The service dies and is started again: it publishes what it starts with.  *)
Restarts ==
  /\ Spend(FALSE)
  /\ track' = NoSong /\ paused' = FALSE /\ cued' = "no" /\ autoplay' = TRUE
  /\ upNext' = <<>> /\ played' = {} /\ unpublished' = FALSE /\ fetching' = Idle
  /\ out' = Closed /\ room' = Quiet /\ failed' = FALSE /\ lineFor' = NoSong
  /\ Publish

-----------------------------------------------------------------------------
(* What follows a song, fetched on a thread of its own. *)

StillPlays(song) == track = song
(* Those of a chart that have not been played, in its order.                 *)
NewOnes(chart) ==
  LET places == {i \in DOMAIN chart : chart[i] \notin played}
      inOrder == {h \in [1..Cardinality(places) -> places] : \A a, b \in DOMAIN h : a < b => h[a] < h[b]}
  IN {[n \in DOMAIN h |-> chart[h[n]]] : h \in inOrder}

(* _fetch_up_next: the board is not told.                                    *)
Fetched(song) ==
  /\ fetching[song] > 0 /\ fetching' = [fetching EXCEPT ![song] = @ - 1]
  /\ \/ UNCHANGED <<upNext, lineFor>>
     \/ /\ StillPlays(song) /\ lineFor' = song
        /\ \E chart \in Charts : song \notin Range(chart) /\ \E line \in NewOnes(chart) : upNext' = upNext \o line
  /\ UNCHANGED <<track, paused, cued, autoplay, played, unpublished, out, room, tile, left, failed>>

-----------------------------------------------------------------------------
(* The sound card: a song runs out; a stream breaks off. *)

carded == <<track, paused, cued, autoplay, upNext, played, unpublished, fetching, room, tile, left, failed, lineFor>>
RunsOut ==
  /\ out.song # NoSong /\ ~out.held /\ ~out.over
  /\ out' = [out EXCEPT !.over = TRUE]
  /\ UNCHANGED carded
BreaksOff ==
  /\ out.song \in Streams /\ ~out.broken /\ ~out.over
  /\ out' = [out EXCEPT !.broken = TRUE]
  /\ UNCHANGED carded

-----------------------------------------------------------------------------
(* check(), once a tick. *)

Ended == track # NoSong /\ ~paused /\ out.over

LetGo == cued' = IF Released(ReplySaid) THEN "no" ELSE cued

(* _after_the_end: the same song again if its stream only broke off, else    *)
(* what follows if autoplay is on, else nothing.                             *)
Reopens ==
  /\ out.broken /\ out' = Opened(track, FALSE) /\ failed' = FALSE
  /\ LetGo /\ UNCHANGED <<track, paused, autoplay, upNext, played, fetching, lineFor>>
CarriesOn(bad) ==
  /\ autoplay /\ (out.broken => bad)
  /\ \E next \in Following(bad) : next[1] # NoSong /\ Start(next[1], FALSE)
Ceases(bad) ==
  /\ out.broken => bad
  /\ \/ ~autoplay /\ UNCHANGED upNext
     \/ autoplay /\ \E next \in Following(bad) :
          (next[1] = NoSong \/ (bad /\ next[1] \in Streams)) /\ upNext' = next[2]
  /\ track' = NoSong /\ paused' = FALSE /\ out' = CannotOpen
  /\ LetGo /\ UNCHANGED <<autoplay, played, fetching, failed, lineFor>>

CheckEnd ==
  /\ Ended
  /\ \E bad \in BOOLEAN : Trouble(bad) /\ ((~bad /\ Reopens) \/ CarriesOn(bad) \/ Ceases(bad))
CheckRoom ==
  /\ ~Ended /\ (Released(ReplySaid) \/ unpublished)
  /\ LetGo /\ out' = IF Released(ReplySaid) THEN [out EXCEPT !.held = FALSE] ELSE out
  /\ UNCHANGED <<track, paused, autoplay, upNext, played, fetching, left, failed, lineFor>>

(* What of a tick's changes is seen to be one.                               *)
Moment == [track |-> track, paused |-> paused, held |-> cued # "no", autoplay |-> autoplay,
           next |-> IF upNext = <<>> THEN NoSong ELSE Head(upNext)]
Check ==
  /\ CheckEnd \/ CheckRoom
  /\ tile' = IF unpublished \/ Released(ReplySaid) \/ Moment' # Moment THEN State' ELSE tile
  /\ unpublished' = FALSE
  /\ UNCHANGED room

-----------------------------------------------------------------------------
(* The remote. *)

(* The commands its buttons send, of those not greyed out: MusicRemote.      *)
Buttons(shown) ==
  {IF shown.playing THEN "pause" ELSE IF shown.paused THEN "resume" ELSE "play"}
    \cup (IF shown.track # NoSong THEN {"next"} ELSE {})
    \cup (IF shown.playing \/ shown.paused THEN {"stop"} ELSE {})
    \cup {"set_autoplay", "play"}

(* The commands that the player would not refuse as they stand.              *)
Accepted ==
  {"play", "set_autoplay"}
    \cup (IF CanPause THEN {"pause"} ELSE {}) \cup (IF CanResume THEN {"resume"} ELSE {})
    \cup (IF CanStop THEN {"stop"} ELSE {}) \cup {"next"}

-----------------------------------------------------------------------------
MusicNext ==
  \/ OnRequest \/ OnReply \/ OnSpeech \/ WindowPasses \/ TimePasses
  \/ \E song \in Songs : Play(song)
  \/ PlayRefused \/ Pause \/ Stop \/ Resume \/ ResumeRefused \/ Skip \/ SkipRefused \/ SetAutoplay \/ Restarts
  \/ \E song \in Streams : Fetched(song)
  \/ RunsOut \/ BreaksOff \/ Check

(* The main thread keeps checking, and a held song's time passes.            *)
MusicFairness == WF_musicVars(Check) /\ WF_musicVars(TimePasses)
MusicSpec == MusicInit /\ [][MusicNext]_musicVars /\ MusicFairness

-----------------------------------------------------------------------------
(* What is said to play is what is heard, and a song that is paused or waits *)
(* for the room's voice is silent -- until a stream was refused, after which *)
(* nothing is heard whatever is said.                                        *)
SoundIsAsShown ==
  ~failed => /\ out.song = track
             /\ track # NoSong => (out.held <=> paused \/ cued # "no")

(* Songs are lined up only behind the song that they were fetched for, the   *)
(* last one that was started.                                                *)
LineIsItsOwn == upNext # <<>> /\ track # NoSong => lineFor = track

(* Left alone, the player never starts a song that it has played before,     *)
(* except from the library.                                                  *)
NothingComesBack == [][CheckEnd /\ track' # track => track' \notin played]_musicVars

(* The board shows the player's state, but for what is lined up, unless the  *)
(* next check is going to tell it.                                           *)
TileIsTrue == unpublished \/ [tile EXCEPT !.upNext = NoSong] = [State EXCEPT !.upNext = NoSong]

(* A song that waits for the room's voice is let go, paused or replaced.     *)
HeldSongStarts == cued # "no" ~> cued = "no"

(* A song that has run out is followed by another or put away.              *)
EndIsNoticed == track # NoSong /\ ~paused /\ out.over ~> ~(track # NoSong /\ ~paused /\ out.over)

(* Of what the tile shows no button is offered that the player would refuse  *)
(* for the state it is in.                                                   *)
ButtonsWork == ~unpublished => Buttons(tile) \subseteq Accepted

(* The player plays what its tile says it plays: the sound is the shown  *)
(* song's, songs are lined up only behind the one they were fetched for, *)
(* the board shows the player's state, and the buttons offered are ones  *)
(* the player accepts; and left alone it starts no song again            *)
(* (devices/music/__init__.py, MusicRemote.tsx).                         *)
MusicIsAsShown ==
  /\ [](MusicTypeOK /\ SoundIsAsShown /\ LineIsItsOwn /\ TileIsTrue /\ ButtonsWork)
  /\ NothingComesBack
============================================================================
