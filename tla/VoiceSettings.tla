---------------------------- MODULE VoiceSettings ----------------------------
(***************************************************************************)
(* How the room listens and speaks, changed from the console (FR-79,       *)
(* FR-82).                                                                 *)
(*                                                                         *)
(* Pages (src/console/web/src/pages/Settings.tsx Voice, Home.tsx Talk):    *)
(* switches, a volume and quiet hours drafted on the page; each control    *)
(* sends the one setting it changes.                                       *)
(*                                                                         *)
(* Console (actions.speech_settings, state._on_speech_settings): the       *)
(* change is laid over the settings last heard from the board, and the     *)
(* whole is published, retained.                                           *)
(*                                                                         *)
(* Speech service (speech/voice.py, speech/__main__.py): starts with the   *)
(* defaults, and keeps what it hears; while listening is off it drops      *)
(* every frame.                                                            *)
(*                                                                         *)
(* One switch stands for the four, and a time of day is set or not.        *)
(***************************************************************************)
EXTENDS Naturals, Sequences

CONSTANTS
  Pages,       \* the pages open on the settings
  Volumes,     \* what the slider can show
  NoSettings,  \* nothing on the board yet
  Uses,        \* bound: controls used
  Upsets       \* bound: requests lost, services restarted

VARIABLES
  settings,    \* board: the retained settings
  toConsole,   \* board: settings on their way to the console
  toSpeech,    \* board: the same on their way to the speech service
  seen,        \* console: _speech_settings
  events,      \* each page: speech_settings events on their way
  shown,       \* each page: state.speech_settings, or the defaults
  volume,      \* each page: the volume's draft
  quiet,       \* each page: the quiet hours' draft
  changes,     \* requests in flight, unordered
  obeyed,      \* speech service: Voice._settings
  used,        \* bound
  upset,       \* bound
  last,        \* history: each setting as last changed
  stale,       \* history: a change was taken before an earlier one was heard back
  unsent,      \* history: a request was lost
  blinked      \* history: pages that drew a volume only after it was changed back

boardV == <<settings, toConsole, toSpeech>>
pagesV == <<events, shown, volume, quiet>>
boundV == <<used, upset>>
histV == <<last, stale, unsent, blinked>>
voiceVars == <<boardV, seen, pagesV, changes, obeyed, boundV, histV>>

Hours == [from : BOOLEAN, to : BOOLEAN]
NoHours == [from |-> FALSE, to |-> FALSE]
AllHours == [from |-> TRUE, to |-> TRUE]

Settings == [listening : BOOLEAN, volume : Volumes, quiet : {NoHours, AllHours}]

(* SpeechSettings' defaults, and DEFAULT_SPEECH_SETTINGS. *)
Loudest == CHOOSE v \in Volumes : \A w \in Volumes : w <= v
Defaults == [listening |-> TRUE, volume |-> Loudest, quiet |-> NoHours]

(* A request names one setting alone, and leaves the others as they are. *)
Only(field, to) == [f \in {field} |-> to]
Over(base, change) == [f \in DOMAIN base |-> IF f \in DOMAIN change THEN change[f] ELSE base[f]]
Change == [listening : BOOLEAN] \cup [volume : Volumes] \cup [quiet : {NoHours, AllHours}]

ASSUME VoiceSettingsAssumption ==
  /\ Volumes \subseteq Nat /\ NoSettings \notin Settings
  /\ \E loudest \in Volumes : \A v \in Volumes : v <= loudest
  /\ Uses \in Nat /\ Upsets \in Nat

VoiceTypeOK ==
  /\ settings \in Settings \cup {NoSettings} /\ seen \in Settings \cup {NoSettings}
  /\ toConsole \in Seq(Settings) /\ toSpeech \in Seq(Settings)
  /\ events \in [Pages -> Seq(Settings)]
  /\ shown \in [Pages -> Settings] /\ volume \in [Pages -> Volumes] /\ quiet \in [Pages -> Hours]
  /\ changes \subseteq [n : 1..Uses, change : Change]
  /\ obeyed \in Settings /\ last \in Settings
  /\ used \in 0..Uses /\ upset \in 0..Upsets
  /\ stale \in BOOLEAN /\ unsent \in BOOLEAN /\ blinked \subseteq Pages

VoiceInit ==
  /\ settings = NoSettings /\ toConsole = <<>> /\ toSpeech = <<>>
  /\ seen = NoSettings /\ events = [p \in Pages |-> <<>>]
  /\ shown = [p \in Pages |-> Defaults]
  /\ volume = [p \in Pages |-> Defaults.volume] /\ quiet = [p \in Pages |-> NoHours]
  /\ changes = {} /\ obeyed = Defaults
  /\ used = 0 /\ upset = 0
  /\ last = Defaults /\ stale = FALSE /\ unsent = FALSE /\ blinked = {}

-----------------------------------------------------------------------------
(* A page. *)

Ask(field, to) ==
  /\ used < Uses /\ used' = used + 1
  /\ changes' = changes \cup {[n |-> used', change |-> Only(field, to)]}
  /\ UNCHANGED <<boardV, seen, events, shown, obeyed, upset, histV>>

(* A switch asks for the opposite of what it shows. *)
Toggle(p) == Ask("listening", ~shown[p].listening) /\ UNCHANGED <<volume, quiet>>

(* The slider follows the pointer, and asks when it is let go. *)
Slide(p, v) == volume' = [volume EXCEPT ![p] = v] /\ Ask("volume", v) /\ UNCHANGED quiet

(* Save quiet hours is disabled while one of the two is missing. *)
WholeHours(h) == h.from = h.to

(* One of the two times is filled in or emptied: nothing is asked yet. *)
EditHours(p, h) ==
  /\ used < Uses /\ used' = used + (IF quiet[p].from = quiet[p].to THEN 1 ELSE 0)
  /\ h # quiet[p] /\ (h.from = quiet[p].from \/ h.to = quiet[p].to)
  /\ quiet' = [quiet EXCEPT ![p] = h]
  /\ UNCHANGED <<boardV, seen, events, shown, volume, changes, obeyed, upset, histV>>

SaveHours(p) == WholeHours(quiet[p]) /\ Ask("quiet", quiet[p]) /\ UNCHANGED <<volume, quiet>>

ClearHours(p) ==
  /\ shown[p].quiet.from \/ quiet[p].from
  /\ quiet' = [quiet EXCEPT ![p] = NoHours]
  /\ Ask("quiet", NoHours) /\ UNCHANGED volume

(* useEffect on a setting: a draft is redrawn when the setting changes. *)
Redrawn(draft, old, new) == IF new # old THEN new ELSE draft

(* The page draws what came in one batch: only the last of it. *)
Draw(p) ==
  \E n \in 1..Len(events[p]) :
    LET new == events[p][n]
        old == shown[p]
    IN /\ events' = [events EXCEPT ![p] = SubSeq(@, n + 1, Len(@))]
       /\ shown' = [shown EXCEPT ![p] = new]
       /\ volume' = [volume EXCEPT ![p] = Redrawn(@, old.volume, new.volume)]
       /\ quiet' = [quiet EXCEPT ![p] = Redrawn(@, old.quiet, new.quiet)]
       /\ blinked' = IF new.volume = old.volume /\ \E i \in 1..n : events[p][i].volume # new.volume
                       THEN blinked \cup {p} ELSE blinked
       /\ UNCHANGED <<boardV, seen, changes, obeyed, boundV, last, stale, unsent>>

LoseChange(c) ==
  /\ c \in changes /\ upset < Upsets /\ upset' = upset + 1
  /\ changes' = changes \ {c}
  /\ unsent' = TRUE
  /\ UNCHANGED <<boardV, seen, pagesV, obeyed, used, last, stale, blinked>>

-----------------------------------------------------------------------------
(* The console and the board. *)

(* Mutant: what is not named takes its default. *)
Afresh(base) == Defaults
(* "The rest stays": what is not named is as last heard, or its default. *)
Laid(base) == IF base = NoSettings THEN Defaults ELSE base

ChangeSettings(c) ==
  /\ c \in changes
  /\ changes' = changes \ {c}
  /\ settings' = Over(Laid(seen), c.change)
  /\ toConsole' = Append(toConsole, settings') /\ toSpeech' = Append(toSpeech, settings')
  /\ last' = Over(last, c.change)
  /\ stale' = (stale \/ toConsole # <<>>)
  /\ UNCHANGED <<seen, pagesV, obeyed, boundV, unsent, blinked>>

TellPages(s) == <<s>>

HearSettings ==
  /\ toConsole # <<>>
  /\ seen' = Head(toConsole) /\ toConsole' = Tail(toConsole)
  /\ events' = [p \in Pages |-> events[p] \o TellPages(Head(toConsole))]
  /\ UNCHANGED <<settings, toSpeech, shown, volume, quiet, changes, obeyed, boundV, histV>>

(* on_settings: obeyed from the next frame on. *)
Obey ==
  /\ toSpeech # <<>>
  /\ obeyed' = Head(toSpeech) /\ toSpeech' = Tail(toSpeech)
  /\ UNCHANGED <<settings, toConsole, seen, pagesV, changes, boundV, histV>>

Retained(s) == IF s = NoSettings THEN <<>> ELSE <<s>>

(* Started again, each takes the defaults until the board answers; the pages *)
(* connect to the new console and are shown its state.                       *)
RestartConsole ==
  /\ upset < Upsets /\ upset' = upset + 1
  /\ seen' = NoSettings
  /\ toConsole' = Retained(settings)
  /\ events' = [p \in Pages |-> Append(events[p], Defaults)]
  /\ UNCHANGED <<settings, toSpeech, shown, volume, quiet, changes, obeyed, used, histV>>

RestartSpeech ==
  /\ upset < Upsets /\ upset' = upset + 1
  /\ obeyed' = Defaults
  /\ toSpeech' = Retained(settings)
  /\ UNCHANGED <<settings, toConsole, seen, pagesV, changes, used, histV>>

-----------------------------------------------------------------------------
VoiceActs == HearSettings \/ Obey \/ (\E c \in changes : ChangeSettings(c)) \/ (\E p \in Pages : Draw(p))

VoiceNext ==
  \/ VoiceActs
  \/ \E p \in Pages :
       \/ Toggle(p) \/ SaveHours(p) \/ ClearHours(p)
       \/ \E v \in Volumes : Slide(p, v)
       \/ \E h \in Hours : EditHours(p, h)
  \/ \E c \in changes : LoseChange(c)
  \/ RestartConsole \/ RestartSpeech

(* Requests and messages arrive, and pages draw. *)
VoiceFairness == WF_voiceVars(VoiceActs)
VoiceSpec == VoiceInit /\ [][VoiceNext]_voiceVars /\ VoiceFairness

-----------------------------------------------------------------------------
(* Changing one setting leaves the others as they were last changed, from    *)
(* whatever page: quiet hours saved on one do not undo a volume set on       *)
(* another.  Not so when a change is taken before an earlier one has been    *)
(* heard back from the board (actions.py:181): the earlier one is undone.    *)
TheRestStays == ~stale => settings = (IF settings = NoSettings THEN NoSettings ELSE last)

(* Once the speech service has heard the board, a microphone last muted      *)
(* captures nothing, over restarts of either service too.                    *)
MutedIsMuted == ~stale /\ ~last.listening /\ toSpeech = <<>> => ~obeyed.listening

(* Every page, the console and the speech service end with the settings on   *)
(* the board.                                                                *)
AllObeyTheBoard ==
  <>[](LET agreed == Laid(settings)
       IN Laid(seen) = agreed /\ obeyed = agreed /\ \A p \in Pages : shown[p] = agreed)

(* The slider comes to the volume in force, on the page that moved it and on *)
(* the others.  It stays where it was let go if its request was lost or      *)
(* undone, or if the volume had been changed back when the page drew it.     *)
SliderComesBack == <>[](unsent \/ stale \/ \A p \in Pages : p \in blinked \/ volume[p] = shown[p].volume)

(* The voice settings are obeyed: a change of one leaves the others, and a *)
(* microphone that was muted captures nothing (Settings.tsx, actions.py,   *)
(* speech/voice.py).                                                       *)
VoiceIsObeyed ==
  /\ VoiceTypeOK
  /\ TheRestStays
  /\ MutedIsMuted
=============================================================================
