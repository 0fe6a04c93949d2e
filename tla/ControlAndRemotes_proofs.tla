----------------------- MODULE ControlAndRemotes_proofs -----------------------
(***************************************************************************)
(* What is asked of a device and comes about.                              *)
(*                                                                         *)
(* The compressor: the gate protects it from any proposer; and the         *)
(* regulatory loop behind it: its type, the gate's contract seen through   *)
(* it, prompt stops, and SAFE_HOLD's bounded stop.  The gate never sees    *)
(* the unit: what makes its bookkeeping enough is that on a path that      *)
(* loses nothing its record is the unit's state, which Coupled says and    *)
(* the proof carries along.                                                *)
(*                                                                         *)
(* Any other device: its remote, whatever its manifest, asks for nothing   *)
(* that its service would refuse.                                          *)
(*                                                                         *)
(* The music player: it plays what its tile says it plays.                 *)
(***************************************************************************)
EXTENDS CompressorControl, Remotes, MusicPlayer, FiniteSetTheorems, SequenceTheorems, TLAPS

-----------------------------------------------------------------------------
(* The remotes. *)

(* A call that the device has, may be asked and can read, and in which every *)
(* number is one that a level can be.                                        *)
Understood(m, call) ==
  /\ Verdict(m, call) = "OK"
  /\ \A name \in DOMAIN call.args : call.args[name].of = "number" => call.args[name].is \in Nat

LEMMA OfTheDevice ==
  ASSUME NEW m \in Manifests, NEW c \in m.capabilities
  PROVE  /\ \A d \in m.capabilities : c.name = d.name => c = d
         /\ c.name \in {"turn_on", "turn_off"} => c.params = {}
         /\ IsFiniteSet(c.params)
         /\ \A p \in c.params : p.type \in Numbers => p.low \in Nat /\ p.high \in Nat /\ p.low <= p.high /\ Bounded(p)
         /\ Shown(c) = c.params
<1>1. NoBound \notin Nat
  BY RemotesAssumption
<1>2. /\ \A d \in m.capabilities : c.name = d.name => c = d
      /\ c.name \in {"turn_on", "turn_off"} => c.params = {}
      /\ IsFiniteSet(c.params)
      /\ \A p \in c.params : ~p.system
      /\ \A p \in c.params : p.type \in Numbers => p.low \in Nat /\ p.high \in Nat /\ p.low <= p.high
  BY RemotesAssumption
<1>3. \A p \in c.params : p.type \in Numbers => Bounded(p)
  BY <1>1, <1>2 DEF Bounded
<1>4. Shown(c) = c.params
  BY <1>2 DEF Shown
<1> QED BY <1>2, <1>3, <1>4

(* A capability of at most one parameter: the one it has, or none.         *)
LEMMA OnlyParameter ==
  ASSUME NEW m \in Manifests, NEW c \in m.capabilities
  PROVE  /\ \A p \in Only(c) : p \in c.params /\ c.params = {p}
         /\ Cardinality(Shown(c)) <= 1 => c.params = {} \/ \E p \in Only(c) : TRUE
<1>1. IsFiniteSet(c.params) /\ Shown(c) = c.params
  BY OfTheDevice
<1>2. /\ Cardinality(c.params) \in Nat
      /\ Cardinality(c.params) = 0 <=> c.params = {}
      /\ Cardinality(c.params) = 1 <=> \E x : c.params = {x}
  BY <1>1, FS_CardinalityType, FS_EmptySet, FS_Singleton
<1>3. ASSUME NEW p \in Only(c)
      PROVE  p \in c.params /\ c.params = {p}
  BY <1>1, <1>2, <1>3 DEF Only
<1>4. ASSUME Cardinality(Shown(c)) <= 1, c.params # {}
      PROVE  \E p \in Only(c) : TRUE
  <2>1. Cardinality(c.params) = 1
    BY <1>1, <1>2, <1>4
  <2> QED BY <1>1, <1>4, <2>1 DEF Only
<1> QED BY <1>3, <1>4

(* A capability that the remote may offer, called with a value it takes.   *)
LEMMA VerdictOfOpen ==
  ASSUME NEW m \in Manifests, NEW c \in Open(m), NEW call, call.tool = c.name,
         DOMAIN call.args = {p.name : p \in c.params},
         \A p \in c.params : Suits(p, call.args[p.name])
  PROVE  Verdict(m, call) = "OK"
<1>1. c \in m.capabilities /\ ~c.plant
  BY DEF Open
<1>2. {d \in m.capabilities : d.name = call.tool} = {c}
  BY <1>1, OfTheDevice
<1> QED BY <1>1, <1>2 DEF Verdict

LEMMA PlainCall ==
  ASSUME NEW m \in Manifests, NEW c \in Open(m), c.params = {}, NEW call, call.tool = c.name, call.args = Nowhere
  PROVE  Understood(m, call)
<1>1. DOMAIN call.args = {}
  BY DEF Nowhere
<1>2. Verdict(m, call) = "OK"
  BY <1>1, VerdictOfOpen
<1> QED BY <1>1, <1>2 DEF Understood

LEMMA CallOfOne ==
  ASSUME NEW m \in Manifests, NEW c \in Open(m), NEW p \in Only(c), NEW value, Suits(p, value),
         value.of = "number" => value.is \in Nat
  PROVE  Understood(m, Call(c, Given(p, value)))
<1> DEFINE call == Call(c, Given(p, value))
<1>1. c \in m.capabilities
  BY DEF Open
<1>2. c.params = {p}
  BY <1>1, OnlyParameter
<1>3. call.tool = c.name /\ call.args = [name \in {p.name} |-> value]
  BY DEF Call, Given
<1> HIDE DEF call
<1>4. DOMAIN call.args = {q.name : q \in c.params} /\ call.args[p.name] = value
  BY <1>2, <1>3
<1>5. Verdict(m, call) = "OK"
  BY <1>2, <1>3, <1>4, VerdictOfOpen
<1>6. Understood(m, call)
  BY <1>3, <1>5 DEF Understood
<1> QED BY <1>6 DEF call

LEMMA CallOfNumber ==
  ASSUME NEW m \in Manifests, NEW c \in Open(m), NEW p \in Only(c), Bounded(p),
         NEW n \in Nat, p.low <= n, n <= p.high
  PROVE  Understood(m, Call(c, Number(p, n)))
<1> DEFINE value == [of |-> "number", is |-> n]
<1>1. Suits(p, value) /\ value.is \in Nat
  <2>1. Within(p, n) /\ p.type \in Numbers
    BY DEF Within, Bounded
  <2> QED BY <2>1 DEF Suits, Numbers
<1> HIDE DEF value
<1>2. Understood(m, Call(c, Given(p, value)))
  BY <1>1, CallOfOne
<1> QED BY <1>2 DEF Number, value

LEMMA RangeOf ==
  ASSUME NEW m \in Manifests, NEW c \in Open(m), NEW p \in Only(c), Bounded(p)
  PROVE  p.low \in Nat /\ p.high \in Nat /\ p.low <= p.high
<1>1. c \in m.capabilities
  BY DEF Open
<1>2. p \in c.params /\ p.type \in Numbers
  BY <1>1, OnlyParameter DEF Bounded
<1> QED BY <1>1, <1>2, OfTheDevice

LEMMA SlidIsUnderstood ==
  ASSUME NEW m \in Manifests, NEW c \in Open(m), NEW p \in Only(c), Bounded(p), NEW call \in Slid(c, p)
  PROVE  Understood(m, call)
<1>1. p.low \in Nat /\ p.high \in Nat
  BY RangeOf
<1>2. PICK n \in p.low..p.high : call = Call(c, Number(p, n))
  BY DEF Slid
<1>3. n \in Nat /\ p.low <= n /\ n <= p.high
  BY <1>1, <1>2
<1> QED BY <1>2, <1>3, CallOfNumber

LEMMA PowerIsUnderstood ==
  ASSUME NEW m \in Manifests, Has(m, "turn_on"), Has(m, "turn_off"), NEW call \in Power
  PROVE  Understood(m, call)
<1>1. PICK name \in {"turn_on", "turn_off"} : call = [tool |-> name, args |-> Nowhere]
  BY DEF Power
<1>2. PICK c \in Open(m) : c.name = name
  BY DEF Has, Named
<1>3. c.params = {}
  BY <1>1, <1>2, OfTheDevice DEF Open
<1> QED BY <1>1, <1>2, <1>3, PlainCall

LEMMA FanStepIsUnderstood ==
  ASSUME NEW m \in Manifests, NEW call \in FanSteps(m)
  PROVE  Understood(m, call)
<1>0. PICK c \in Named(m, "set_speed") :
        call \in UNION {{Call(c, Number(p, step)) : step \in (IF p.low = 0 THEN 1 ELSE p.low)..p.high} : p \in BoundedNumber(c)}
  BY DEF FanSteps
<1> PICK p \in BoundedNumber(c) :
      call \in {Call(c, Number(p, step)) : step \in (IF p.low = 0 THEN 1 ELSE p.low)..p.high}
  BY <1>0
<1>1. PICK step \in (IF p.low = 0 THEN 1 ELSE p.low)..p.high : call = Call(c, Number(p, step))
  OBVIOUS
<1>2. c \in Open(m) /\ p \in Only(c) /\ Bounded(p)
  BY DEF Named, BoundedNumber
<1>3. p.low \in Nat /\ p.high \in Nat
  BY <1>2, RangeOf
<1>4. step \in Nat /\ p.low <= step /\ step <= p.high
  BY <1>1, <1>3
<1> QED BY <1>1, <1>2, <1>4, CallOfNumber

LEMMA ControlIsUnderstood ==
  ASSUME NEW m \in Manifests, NEW c \in Open(m), NEW call \in Control(c)
  PROVE  Understood(m, call)
<1>1. c \in m.capabilities /\ Shown(c) = c.params
  BY OfTheDevice DEF Open
<1>2. CASE Shown(c) = {}
  <2>1. call = Call(c, Nowhere)
    BY <1>2 DEF Control
  <2>2. call.tool = c.name /\ call.args = Nowhere /\ c.params = {}
    BY <1>1, <1>2, <2>1 DEF Call
  <2> QED BY <2>2, PlainCall
<1>3. CASE Shown(c) # {}
  <2>1. PICK p \in Only(c) :
          call \in IF Bounded(p) THEN Slid(c, p)
                   ELSE IF p.type = "boolean" THEN {Call(c, Other(p, "boolean", value)) : value \in BOOLEAN}
                   ELSE IF p.choices # {} THEN {Call(c, Other(p, "string", choice)) : choice \in p.choices}
                   ELSE {Call(c, Other(p, "string", "text"))}
    BY <1>3 DEF Control
  <2>2. CASE Bounded(p)
    BY <2>1, <2>2, SlidIsUnderstood
  <2>3. ASSUME ~Bounded(p) PROVE p.type \notin Numbers
    <3>1. p \in c.params
      BY <1>1, OnlyParameter
    <3> QED BY <1>1, <2>3, <3>1, OfTheDevice
  <2>4. CASE ~Bounded(p) /\ p.type = "boolean"
    <3>1. PICK value \in BOOLEAN : call = Call(c, Given(p, [of |-> "boolean", is |-> value]))
      BY <2>1, <2>4 DEF Other
    <3> DEFINE v == [of |-> "boolean", is |-> value]
    <3>2. Suits(p, v) /\ v.of # "number"
      BY <2>3, <2>4 DEF Suits
    <3>3. call = Call(c, Given(p, v))
      BY <3>1
    <3> HIDE DEF v
    <3> QED BY <3>2, <3>3, CallOfOne
  <2>5. CASE ~Bounded(p) /\ p.type # "boolean"
    <3>1. PICK w : call = Call(c, Given(p, [of |-> "string", is |-> w])) /\ (p.choices # {} => w \in p.choices)
      BY <2>1, <2>5 DEF Other
    <3> DEFINE v == [of |-> "string", is |-> w]
    <3>2. Suits(p, v) /\ v.of # "number"
      BY <2>3, <2>5, <3>1 DEF Suits
    <3>3. call = Call(c, Given(p, v))
      BY <3>1
    <3> HIDE DEF v
    <3> QED BY <3>2, <3>3, CallOfOne
  <2> QED BY <2>2, <2>4, <2>5
<1> QED BY <1>2, <1>3

(* No control of a remote asks for what its device would refuse.           *)
LEMMA OffersAreUnderstood ==
  ASSUME NEW m \in Manifests, NEW call \in Offers(m)
  PROVE  Understood(m, call)
<1>1. Own(m) # "ac"
  BY DEF Offers
<1>2. CASE Own(m) = "fan"
  <2>1. Has(m, "turn_on") /\ Has(m, "turn_off")
    BY <1>2 DEF Own, FanFits
  <2>2. call \in Power \/ call \in FanSteps(m)
    BY <1>2 DEF Offers, FanRemote
  <2> QED BY <2>1, <2>2, PowerIsUnderstood, FanStepIsUnderstood
<1>3. CASE Own(m) = "light"
  <2>1. Has(m, "turn_on") /\ Has(m, "turn_off")
    BY <1>3 DEF Own, LightFits
  <2>2. call \in LightRemote(m)
    BY <1>3 DEF Offers
  <2>3. CASE call \in Power
    BY <2>1, <2>3, PowerIsUnderstood
  <2>4. CASE call \notin Power
    <3> DEFINE c == CHOOSE d \in Dimmers(m) : TRUE
    <3>1. Dimmers(m) # {} /\ call \in UNION {Slid(c, p) : p \in BoundedNumber(c)}
      BY <2>2, <2>4 DEF LightRemote
    <3>2. c \in Dimmers(m)
      BY <3>1
    <3> HIDE DEF c
    <3>3. PICK p \in BoundedNumber(c) : call \in Slid(c, p)
      BY <3>1
    <3>4. c \in Open(m) /\ p \in Only(c) /\ Bounded(p)
      BY <3>2 DEF Dimmers, BoundedNumber
    <3> QED BY <3>3, <3>4, SlidIsUnderstood
  <2> QED BY <2>3, <2>4
<1>4. CASE Own(m) \notin {"ac", "fan", "light"}
  <2>1. call \in GenericRemote(m)
    BY <1>4 DEF Offers
  <2>2. PICK c \in Open(m) : call \in Control(c)
    BY <2>1 DEF GenericRemote
  <2> QED BY <2>2, ControlIsUnderstood
<1> QED BY <1>1, <1>2, <1>3, <1>4

-----------------------------------------------------------------------------
(* The device. *)

(* Whatever a remote of the device may ask, whatever the page shows; and    *)
(* of that, what the device understands: all of it.                        *)
Askable(m) ==
  {[tool |-> name, args |-> Nowhere] : name \in {"turn_on", "turn_off"}} \cup FanSteps(m) \cup GenericRemote(m)
    \cup UNION {UNION {Slid(c, p) : p \in BoundedNumber(c)} : c \in Dimmers(m)}
Understandable(m) == {call \in Askable(m) : Understood(m, call)}

LEMMA OffersAreAskable == ASSUME NEW m, NEW call \in Offers(m) PROVE call \in Askable(m)
<1>1. Power \subseteq Askable(m)
  BY DEF Power, Askable
<1>2. Own(m) # "ac"
  BY DEF Offers
<1>3. CASE Own(m) = "fan"
  BY <1>1, <1>3 DEF Offers, FanRemote, Askable
<1>4. CASE Own(m) = "light"
  <2>1. call \in LightRemote(m)
    BY <1>4 DEF Offers
  <2>2. CASE call \notin Power
    <3> DEFINE c == CHOOSE d \in Dimmers(m) : TRUE
    <3>1. Dimmers(m) # {} /\ call \in UNION {Slid(c, p) : p \in BoundedNumber(c)}
      BY <2>1, <2>2 DEF LightRemote
    <3>2. c \in Dimmers(m)
      BY <3>1
    <3> HIDE DEF c
    <3> QED BY <3>1, <3>2 DEF Askable
  <2> QED BY <1>1, <2>2
<1>5. CASE Own(m) \notin {"ac", "fan", "light"}
  BY <1>5 DEF Offers, Askable
<1> QED BY <1>2, <1>3, <1>4, <1>5

RemotesInv ==
  /\ manifest \in Manifests
  /\ level \in Nat /\ on \in BOOLEAN
  /\ on => level > 0
  /\ last \in {"none", "OK", "FAILED"}
  /\ calls \in Seq(Understandable(manifest))

LEMMA RemotesStart == RemotesInit => RemotesInv
<1> SUFFICES ASSUME RemotesInit PROVE RemotesInv
  OBVIOUS
<1>1. <<>> \in Seq(Understandable(manifest))
  BY EmptySeq
<1> QED BY <1>1 DEF RemotesInit, RemotesInv

(* A call that is carried out leaves a device that is on with a level.     *)
LEMMA CarriedOut ==
  ASSUME NEW m, NEW call, Understood(m, call), Carry(call), level \in Nat, on \in BOOLEAN, on => level > 0
  PROVE  level' \in Nat /\ on' \in BOOLEAN /\ (on' => level' > 0)
<1>1. CASE call.tool = "turn_on"
  <2>1. on' = TRUE /\ level' = IF level = 0 THEN 1 ELSE level
    BY <1>1 DEF Carry
  <2> QED BY <2>1
<1>2. CASE call.tool = "turn_off"
  <2>1. on' = FALSE /\ level' = level
    BY <1>2 DEF Carry
  <2> QED BY <2>1
<1>3. CASE call.tool \notin {"turn_on", "turn_off"} /\ Levels(call) = {}
  <2>1. on' = on /\ level' = level
    BY <1>3 DEF Carry
  <2> QED BY <2>1
<1>4. CASE call.tool \notin {"turn_on", "turn_off"} /\ Levels(call) # {}
  <2>1. PICK value \in Levels(call) : Set(value.is)
    BY <1>4 DEF Carry
  <2>2. value.is \in Nat
    BY DEF Levels, Understood
  <2>3. \/ value.is = 0 /\ on' = FALSE /\ level' = level
        \/ value.is # 0 /\ on' = TRUE /\ level' = value.is
    BY <2>1 DEF Set
  <2> DEFINE n == value.is
  <2>4. n \in Nat /\ (n = 0 \/ n # 0)
    BY <2>2
  <2>5. CASE value.is = 0 /\ on' = FALSE /\ level' = level
    BY <2>5
  <2>6. CASE n # 0 /\ on' = TRUE /\ level' = n
    <3> HIDE DEF n
    <3> QED BY <2>4, <2>6
  <2> QED BY <2>3, <2>5, <2>6
<1> QED BY <1>1, <1>2, <1>3, <1>4

LEMMA RemotesStep == RemotesInv /\ [RemotesNext]_remoteVars => RemotesInv'
<1> SUFFICES ASSUME RemotesInv, [RemotesNext]_remoteVars PROVE RemotesInv'
  OBVIOUS
<1>0. /\ manifest \in Manifests /\ level \in Nat /\ on \in BOOLEAN /\ (on => level > 0)
      /\ last \in {"none", "OK", "FAILED"} /\ calls \in Seq(Understandable(manifest))
  BY DEF RemotesInv
<1>1. CASE Use
  <2>1. PICK call \in Offers(manifest) : calls' = Append(calls, call)
    BY <1>1 DEF Use
  <2>2. UNCHANGED <<manifest, on, level, page, last>>
    BY <1>1 DEF Use
  <2>3. call \in Understandable(manifest)
    BY <1>0, OffersAreAskable, OffersAreUnderstood DEF Understandable
  <2>4. calls' \in Seq(Understandable(manifest))
    BY <1>0, <2>1, <2>3, AppendProperties
  <2> QED BY <1>0, <2>2, <2>4 DEF RemotesInv
<1>2. CASE Handle
  <2>1. /\ calls # <<>> /\ calls' = Tail(calls) /\ UNCHANGED <<manifest, page>>
    BY <1>2 DEF Handle
  <2> DEFINE call == Head(calls)
  <2>2. calls' \in Seq(Understandable(manifest)) /\ call \in Understandable(manifest)
    BY <1>0, <2>1, HeadTailProperties
  <2>3. Understood(manifest, call) /\ Verdict(manifest, call) = "OK"
    BY <2>2 DEF Understandable, Understood
  <2>4. \/ last' = "OK" /\ Carry(call)
        \/ last' = "FAILED" /\ UNCHANGED <<on, level>>
    BY <1>2, <2>3 DEF Handle
  <2>5. level' \in Nat /\ on' \in BOOLEAN /\ (on' => level' > 0)
    BY <1>0, <2>3, <2>4, CarriedOut
  <2> QED BY <1>0, <2>1, <2>2, <2>4, <2>5 DEF RemotesInv
<1>3. CASE Hear
  BY <1>0, <1>3 DEF Hear, RemotesInv
<1>4. CASE UNCHANGED remoteVars
  BY <1>0, <1>4 DEF remoteVars, RemotesInv
<1> QED BY <1>1, <1>2, <1>3, <1>4 DEF RemotesNext

(* What a remote leaves no way to ask.                                     *)
LEMMA Reachable == manifest \in Manifests => StillControllable
<1> SUFFICES ASSUME manifest \in Manifests PROVE StillControllable
  OBVIOUS
<1>1. ASSUME Own(manifest) = "generic", NEW c \in Open(manifest), Cardinality(Shown(c)) <= 1
      PROVE  c.name \in Tools
  <2>1. Offers(manifest) = GenericRemote(manifest)
    BY <1>1 DEF Offers
  <2>2. c \in manifest.capabilities /\ Shown(c) = c.params
    BY OfTheDevice DEF Open
  <2>3. \E call \in Control(c) : call.tool = c.name
    <3>1. CASE Shown(c) = {}
      BY <3>1 DEF Control, Call
    <3>2. CASE Shown(c) # {}
      <4>1. PICK p \in Only(c) : TRUE
        BY <1>1, <2>2, <3>2, OnlyParameter
      <4> DEFINE drawn == IF Bounded(p) THEN Slid(c, p)
                          ELSE IF p.type = "boolean" THEN {Call(c, Other(p, "boolean", value)) : value \in BOOLEAN}
                          ELSE IF p.choices # {} THEN {Call(c, Other(p, "string", choice)) : choice \in p.choices}
                          ELSE {Call(c, Other(p, "string", "text"))}
      <4>2. drawn \subseteq Control(c)
        BY <3>2 DEF Control
      <4>3. \E call \in drawn : call.tool = c.name
        <5>1. CASE Bounded(p)
          <6>1. p.low \in p.low..p.high
            BY <5>1, RangeOf
          <6>2. Call(c, Number(p, p.low)) \in drawn
            BY <5>1, <6>1 DEF Slid
          <6> QED BY <6>2 DEF Call
        <5>2. CASE ~Bounded(p) /\ p.type = "boolean"
          <6>1. Call(c, Other(p, "boolean", TRUE)) \in drawn
            BY <5>2
          <6> QED BY <6>1 DEF Call
        <5>3. CASE ~Bounded(p) /\ p.type # "boolean" /\ p.choices # {}
          <6>1. PICK choice \in p.choices : TRUE
            BY <5>3
          <6>2. Call(c, Other(p, "string", choice)) \in drawn
            BY <5>3
          <6> QED BY <6>2 DEF Call
        <5>4. CASE ~Bounded(p) /\ p.type # "boolean" /\ p.choices = {}
          <6>1. Call(c, Other(p, "string", "text")) \in drawn
            BY <5>4
          <6> QED BY <6>1 DEF Call
        <5> QED BY <5>1, <5>2, <5>3, <5>4
      <4> QED BY <4>2, <4>3
    <3> QED BY <3>1, <3>2
  <2> QED BY <2>1, <2>3 DEF Tools, GenericRemote
<1>2. ASSUME Own(manifest) \in {"fan", "light"}
      PROVE  \E name \in {"turn_on", "turn_off"} : name \in Tools
  <2>1. PICK call \in Power : call.tool \in {"turn_on", "turn_off"}
    BY DEF Power
  <2>2. call \in Offers(manifest)
    BY <1>2, <2>1 DEF Offers, FanRemote, LightRemote
  <2> QED BY <2>1, <2>2 DEF Tools
<1> QED BY <1>1, <1>2 DEF StillControllable

(* A remote and the device behind it understand each other: no control of  *)
(* any device asks for what would be refused, what takes one parameter or  *)
(* none stays within reach, and what is switched on has a level            *)
(* (remotes/, devices/service.py, devices/fan, devices/home).              *)
THEOREM RemotesKept == RemotesSpec => []RemotesAreUnderstood
<1>1. RemotesInit => RemotesInv
  BY RemotesStart
<1>2. RemotesInv /\ [RemotesNext]_remoteVars => RemotesInv'
  BY RemotesStep
<1>3. RemotesInv => RemotesAreUnderstood
  <2> SUFFICES ASSUME RemotesInv PROVE RemotesAreUnderstood
    OBVIOUS
  <2>1. ControlsAreUnderstood
    BY DEF RemotesInv, ControlsAreUnderstood, Note
  <2>2. OnMeansALevel
    BY DEF RemotesInv, OnMeansALevel
  <2> QED BY <2>1, <2>2, Reachable DEF RemotesInv, RemotesAreUnderstood
<1> QED BY <1>1, <1>2, <1>3, PTL DEF RemotesSpec

-----------------------------------------------------------------------------
(* The gate. *)

(* The gate's record of the compressor is the unit, its dwell clock is the *)
(* unit's while it rests, and its rate clock while it runs.                *)
Coupled ==
  /\ vOn = unitOn
  /\ ~unitOn => vSinceOff = settled
  /\ unitOn => vSinceChange = Capped(settled, MinInterval)

GateInv == TypeOK /\ Coupled

USE GateAssumption DEF GateAssumption

(* A capped clock stays in its range, and capping at the longer interval   *)
(* loses nothing to the shorter.                                           *)
LEMMA CappedInRange ==
  ASSUME NEW t \in Nat, NEW limit \in Nat
  PROVE  Capped(t, limit) \in 0..limit
  BY DEF Capped

LEMMA CappedTwice ==
  ASSUME NEW t \in Nat, NEW d \in Nat
  PROVE  /\ Capped(Capped(t, MinOff) + d, MinInterval) = Capped(t + d, MinInterval)
         /\ Capped(Capped(t, MinInterval) + d, MinInterval) = Capped(t + d, MinInterval)
         /\ Capped(Capped(t, MinOff), MinInterval) = Capped(t, MinInterval)
  BY DEF Capped

(* Whatever is proposed, the bookkeeping keeps its type. *)
LEMMA RecordTyped ==
  ASSUME TypeOK, NEW kind \in Kind, NEW m \in Mode, NEW d \in 1..Late, Record(kind, m, d)
  PROVE  vOn' \in BOOLEAN /\ vSinceOff' \in 0..MinOff /\ vSinceChange' \in 0..MinInterval
  <1>1. /\ MinInterval \in Nat
        /\ d \in Nat /\ vSinceOff + d \in Nat /\ vSinceChange + d \in Nat
    BY DEF TypeOK
  <1>2. vOn' \in BOOLEAN
    <2>1. CASE Recorded(kind, m)
      <3>1. vOn' = (kind = "COOL")
        BY <2>1 DEF Record
      <3> QED BY <3>1
    <2>2. CASE ~Recorded(kind, m)
      <3>1. vOn' = vOn
        BY <2>2 DEF Record
      <3>2. vOn \in BOOLEAN
        BY DEF TypeOK
      <3> QED BY <3>1, <3>2
    <2> QED BY <2>1, <2>2
  <1>3. vSinceOff' \in {Capped(d, MinOff), Capped(vSinceOff + d, MinOff)}
    BY DEF Record
  <1>4. vSinceChange' \in {Capped(d, MinInterval), Capped(vSinceChange + d, MinInterval)}
    BY DEF Record
  <1>5. vSinceOff' \in 0..MinOff
    BY <1>1, <1>3, CappedInRange
  <1>6. vSinceChange' \in 0..MinInterval
    BY <1>1, <1>4, CappedInRange
  <1> QED BY <1>2, <1>5, <1>6

LEMMA UnitTyped ==
  ASSUME TypeOK, NEW kind \in Kind, NEW delivered \in BOOLEAN, NEW d \in 1..Late,
         Unit(kind, delivered, d)
  PROVE  unitOn' \in BOOLEAN /\ settled' \in 0..MinOff
  <1>1. d \in Nat /\ settled + d \in Nat
    BY DEF TypeOK
  <1> QED BY <1>1, CappedInRange DEF Unit, TypeOK

LEMMA AdmittedKind ==
  ASSUME NEW kind \in Kind, NEW m \in Mode
  PROVE  Admitted(kind, m) \in Kind
  BY DEF Admitted, Kind

LEMMA GateTyped ==
  ASSUME TypeOK, NEW kind \in Kind, NEW m \in Mode, NEW delivered \in BOOLEAN,
         NEW d \in 1..Late, Gate(kind, m, delivered, d)
  PROVE  TypeOK'
  BY RecordTyped, UnitTyped, AdmittedKind DEF Gate, TypeOK

(* What is admitted changes the unit exactly when it is recorded as a      *)
(* change, and by V-3 and V-5 only starts a rested one.                    *)
LEMMA AdmittedStart ==
  ASSUME GateInv, NEW m \in Mode, NEW kind \in Kind, Admitted(kind, m) = "COOL", ~unitOn
  PROVE  /\ kind = "COOL" /\ m \notin NonActuating /\ settled = MinOff
         /\ Recorded(kind, m)
  BY DEF GateInv, TypeOK, Coupled, Admitted, Blocked, AlwaysAdmitted, Reassertion,
         ViolatesDwell, Recorded, StateChanging, Kind

LEMMA AdmittedStop ==
  ASSUME GateInv, NEW m \in Mode, NEW kind \in Kind, Admitted(kind, m) = "OFF", unitOn
  PROVE  kind = "OFF" /\ Recorded(kind, m)
  BY DEF GateInv, TypeOK, Coupled, Admitted, Blocked, AlwaysAdmitted, Reassertion,
         ViolatesDwell, Recorded, StateChanging, Kind

LEMMA RecordedIsAdmitted ==
  ASSUME NEW m \in Mode, NEW kind \in Kind, Recorded(kind, m)
  PROVE  Admitted(kind, m) = kind /\ kind \in {"COOL", "OFF"}
  BY DEF Recorded, StateChanging

(* One judged command keeps the gate's record coupled to the unit.         *)
LEMMA GateCoupled ==
  ASSUME GateInv, NEW kind \in Kind, NEW m \in Mode, NEW d \in 1..Late,
         Gate(kind, m, TRUE, d)
  PROVE  Coupled'
  <1> DEFINE a == Admitted(kind, m)
  <1>a. Record(kind, m, d) /\ Unit(a, TRUE, d) /\ vOn = unitOn
    BY DEF Gate, GateInv, Coupled
  <1>b. /\ d \in Nat /\ settled \in Nat /\ vSinceOff \in Nat /\ vSinceChange \in Nat
        /\ settled <= MinOff /\ vSinceOff <= MinOff /\ vSinceChange <= MinInterval
    BY DEF GateInv, TypeOK
  <1>c. unitOn \in BOOLEAN
    BY DEF GateInv, TypeOK
  <1>1. /\ Record(kind, m, d) /\ Unit(a, TRUE, d) /\ vOn = unitOn /\ unitOn \in BOOLEAN
        /\ d \in Nat /\ settled \in Nat /\ vSinceOff \in Nat /\ vSinceChange \in Nat
        /\ settled <= MinOff /\ vSinceOff <= MinOff /\ vSinceChange <= MinInterval
    BY <1>a, <1>b, <1>c
  <1>2. CASE ~unitOn /\ a = "COOL"
    <2>1. kind = "COOL" /\ Recorded(kind, m)
      BY <1>2, AdmittedStart
    <2>2. vOn' = TRUE /\ unitOn' = TRUE /\ vSinceChange' = Capped(d, MinInterval)
          /\ settled' = Capped(d, MinOff)
      BY <1>1, <1>2, <2>1 DEF Record, Unit, Carries, StateChanging
    <2> QED BY <2>2, <1>1, CappedTwice DEF Coupled
  <1>3. CASE unitOn /\ a = "OFF"
    <2>1. kind = "OFF" /\ Recorded(kind, m)
      BY <1>3, AdmittedStop
    <2>2. vOn' = FALSE /\ unitOn' = FALSE /\ vSinceOff' = Capped(d, MinOff)
          /\ settled' = Capped(d, MinOff)
      BY <1>1, <1>3, <2>1 DEF Record, Unit, Carries, StateChanging
    <2> QED BY <2>2 DEF Coupled
  <1>4. CASE ~(~unitOn /\ a = "COOL") /\ ~(unitOn /\ a = "OFF")
    <2>1. unitOn' = unitOn /\ settled' = Capped(settled + d, MinOff)
      BY <1>1, <1>4 DEF Unit, Carries, StateChanging
    <2>2. Recorded(kind, m) => kind = (IF unitOn THEN "COOL" ELSE "OFF") /\ a = kind
      BY <1>1, <1>4, RecordedIsAdmitted
    <2>3. vOn' = vOn
      BY <1>1, <2>2 DEF Record
    <2>4. CASE ~unitOn
      <3>1. vSinceOff' = Capped(vSinceOff + d, MinOff)
        BY <1>1, <2>4 DEF Record
      <3> QED BY <1>1, <2>1, <2>3, <2>4, <3>1 DEF Coupled, GateInv
    <2>5. CASE unitOn
      <3>1. ~Recorded(kind, m)
        BY <1>1, <2>2, <2>5
           DEF Recorded, AlwaysAdmitted, Reassertion, Admitted, Blocked
      <3>2. vSinceChange' = Capped(vSinceChange + d, MinInterval)
        BY <1>1, <3>1 DEF Record
      <3>3. vSinceChange = Capped(settled, MinInterval)
        BY <2>5 DEF GateInv, Coupled
      <3>4. vSinceChange' = Capped(settled + d, MinInterval)
        BY <1>1, <3>2, <3>3, CappedTwice
      <3>5. settled + d \in Nat
        BY <1>1
      <3>6. Capped(Capped(settled + d, MinOff), MinInterval) = Capped(settled + d, MinInterval)
        BY <1>1, <3>5, CappedTwice
      <3> QED BY <1>1, <2>1, <2>3, <2>5, <3>4, <3>6 DEF Coupled
    <2> QED BY <1>1, <2>4, <2>5
  <1> QED BY <1>2, <1>3, <1>4

(* A judged command takes the unit through a step its contract allows.     *)
LEMMA GateHonoursContract ==
  ASSUME GateInv, NEW kind \in Kind, NEW m \in Mode, NEW d \in 1..Late,
         Gate(kind, m, TRUE, d)
  PROVE  Contract!Next
  <1> DEFINE a == Admitted(kind, m)
  <1>a. Unit(a, TRUE, d) /\ mode' = m
    BY DEF Gate
  <1>b. d \in Nat /\ settled \in 0..MinOff
    BY DEF GateInv, TypeOK
  <1>c. unitOn \in BOOLEAN
    BY DEF GateInv, TypeOK
  <1>1. /\ Unit(a, TRUE, d) /\ mode' = m
        /\ d \in Nat /\ settled \in 0..MinOff /\ unitOn \in BOOLEAN
    BY <1>a, <1>b, <1>c
  <1>2. unitOn' \in BOOLEAN /\ settled' \in 0..MinOff
    BY GateTyped DEF GateInv, TypeOK
  <1>3. CASE ~unitOn /\ a = "COOL"
    <2>1. m \notin NonActuating /\ settled = MinOff
      BY <1>3, AdmittedStart
    <2>2. unitOn' = TRUE
      BY <1>1, <1>3 DEF Unit, Carries, StateChanging
    <2> QED BY <1>1, <1>3, <2>1, <2>2 DEF Contract!Next, Contract!Start
  <1>4. CASE unitOn /\ a = "OFF"
    <2>1. unitOn' = FALSE
      BY <1>1, <1>4 DEF Unit, Carries, StateChanging
    <2> QED BY <1>2, <1>4, <2>1 DEF Contract!Next, Contract!Stop
  <1>5. CASE ~(~unitOn /\ a = "COOL") /\ ~(unitOn /\ a = "OFF")
    <2>1. unitOn' = unitOn /\ settled' = Capped(settled + d, MinOff)
      BY <1>1, <1>5 DEF Unit, Carries, StateChanging
    <2>2. settled' \in settled..MinOff
      BY <1>1, <2>1 DEF Capped
    <2> QED BY <1>1, <2>1, <2>2 DEF Contract!Next, Contract!Wait
  <1> QED BY <1>3, <1>4, <1>5

(* A mode heard moves neither the record nor the unit.                     *)
LEMMA OnModeKeeps ==
  ASSUME GateInv, OnMode
  PROVE  GateInv' /\ Contract!Next
  <1>1. GateInv'
    BY DEF GateInv, TypeOK, Coupled, OnMode, gateVars, Capped
  <1>2. Contract!Wait
    BY DEF GateInv, TypeOK, OnMode, gateVars, Contract!Wait
  <1> QED BY <1>1, <1>2 DEF Contract!Next

LEMMA InitTyped == Init => TypeOK
  <1>1. Init => vOn \in BOOLEAN /\ unitOn \in BOOLEAN /\ mode \in Mode
    BY DEF Init, Booted, Mode
  <1>2. Init => vSinceOff \in 0..MinOff /\ vSinceChange \in 0..MinInterval /\ settled \in 0..MinOff
    BY DEF Init, Booted
  <1> QED BY <1>1, <1>2 DEF TypeOK

LEMMA InitCoupled == Init => GateInv /\ Contract!Init
  BY InitTyped DEF Init, Booted, GateInv, Coupled, Contract!Init

LEMMA StepCoupled ==
  ASSUME Lossy = FALSE, GateInv, [Next]_vars
  PROVE  GateInv' /\ [Contract!Next]_(Contract!vars)
  <1>1. CASE AnyTick
    <2>1. PICK kind \in Kind, m \in Mode, d \in 1..Late : Gate(kind, m, TRUE, d)
      BY <1>1 DEF AnyTick, Delivery
    <2>2. TypeOK' /\ Coupled'
      BY <2>1, GateTyped, GateCoupled DEF GateInv
    <2> QED BY <2>1, <2>2, GateHonoursContract DEF GateInv
  <1>2. CASE OnMode
    BY <1>2, OnModeKeeps
  <1>3. CASE UNCHANGED vars
    BY <1>3 DEF vars, gateVars, GateInv, TypeOK, Coupled, Capped, Contract!vars
  <1> QED BY <1>1, <1>2, <1>3 DEF Next

(* Type correctness of the gate, on any path (validator.py 172-284).       *)
THEOREM GateTypeCorrect == Spec => []TypeOK
  <1>1. Init => TypeOK
    BY InitTyped
  <1>2. TypeOK /\ [Next]_vars => TypeOK'
    <2> SUFFICES ASSUME TypeOK, [Next]_vars PROVE TypeOK'
      OBVIOUS
    <2>1. CASE AnyTick
      <3>1. Delivery \subseteq BOOLEAN
        BY DEF Delivery
      <3> QED BY <2>1, <3>1, GateTyped DEF AnyTick
    <2>2. CASE OnMode
      BY <2>2 DEF OnMode, gateVars, TypeOK
    <2>3. CASE UNCHANGED vars
      BY <2>3 DEF vars, gateVars, TypeOK
    <2> QED BY <2>1, <2>2, <2>3 DEF Next
  <1> QED BY <1>1, <1>2, PTL DEF Spec

(* V-3 and V-5 hold of the unit whatever is proposed: a fault of the       *)
(* controller cannot start the compressor unrested or in a mode that       *)
(* forbids it (validator.py 172-178, 192-244).                             *)
THEOREM AnyProposerIsGated ==
  ASSUME Lossy = FALSE
  PROVE  Spec => ImplementsContract
  <1>1. Init => GateInv /\ Contract!Init
    BY InitCoupled
  <1>2. GateInv /\ [Next]_vars => GateInv' /\ [Contract!Next]_(Contract!vars)
    BY StepCoupled
  <1> QED BY <1>1, <1>2, PTL DEF Spec, ImplementsContract, Contract!Spec

-----------------------------------------------------------------------------
(* The loop. *)

USE ControlAssumption DEF ControlAssumption

(* The inductive invariant behind SafeHoldStops: a unit that still runs    *)
(* while the loop ticks in SAFE_HOLD runs behind the controller's back,    *)
(* and the hold is no older than the controller's last assertion.          *)
HoldInv ==
  /\ heldFor > 0 => mode = "SAFE_HOLD"
  /\ heldFor > 0 /\ unitOn =>
       /\ cOn = FALSE
       /\ heldFor < Reassert + Late
       /\ sinceAssert < Reassert => heldFor <= sinceAssert

Intents == {"START", "STOP", "ASSERT", "HOLD", "MAINTAIN"}

LEMMA IntentTyped ==
  ASSUME NEW m \in Mode, NEW e \in Error
  PROVE  Intent(m, e) \in Intents
  BY DEF Intent, ExcitationIntent, Quietly, Intents

LEMMA CommandTyped ==
  ASSUME NEW i \in Intents
  PROVE  Command(i) \in Kind
  BY DEF Command, Intents, Kind

(* The controller's own record keeps its type. *)
LEMMA ControllerTyped ==
  ASSUME ControlTypeOK, NEW i \in Intents, NEW d \in 1..Late, Controller(i, d)
  PROVE  /\ cOn' \in BOOLEAN /\ cSince' \in 0..ControllerMinOff
         /\ sinceAssert' \in 0..Reassert /\ age' \in 0..ExcitationTicks
  <1>1. cOn' \in BOOLEAN
    <2>1. cOn \in BOOLEAN
      BY DEF ControlTypeOK
    <2>2. cOn' = TRUE \/ cOn' = FALSE \/ cOn' = cOn
      BY DEF Controller
    <2> QED BY <2>1, <2>2
  <1>2. /\ d \in Nat /\ cSince + d \in Nat /\ sinceAssert + d \in Nat /\ age + d \in Nat
        /\ ControllerMinOff \in Nat /\ Reassert \in Nat /\ ExcitationTicks \in Nat
    BY DEF ControlTypeOK
  <1>3. /\ cSince' \in {Capped(d, ControllerMinOff), Capped(cSince + d, ControllerMinOff)}
        /\ sinceAssert' \in {Capped(d, Reassert), Capped(sinceAssert + d, Reassert)}
        /\ age' = Capped(age + d, ExcitationTicks)
    BY DEF Controller
  <1>4. cSince' \in 0..ControllerMinOff
    BY <1>2, <1>3, CappedInRange
  <1>5. sinceAssert' \in 0..Reassert
    BY <1>2, <1>3, CappedInRange
  <1>6. age' \in 0..ExcitationTicks
    BY <1>2, <1>3, CappedInRange
  <1> QED BY <1>1, <1>4, <1>5, <1>6

LEMMA HeldTyped ==
  ASSUME ControlTypeOK, NEW m \in Mode, NEW d \in 1..Late
  PROVE  HeldOn(m, d) \in 0..(Reassert + Late)
  <1>1. heldFor + d \in Nat /\ Reassert + Late \in Nat
    BY DEF ControlTypeOK
  <1>2. HeldOn(m, d) \in {0, Capped(heldFor + d, Reassert + Late)}
    BY DEF HeldOn
  <1>3. 0 \in 0..(Reassert + Late)
    BY <1>1
  <1> QED BY <1>1, <1>2, <1>3, CappedInRange

(* What a tick is made of. *)
LEMMA TickParts ==
  ASSUME ControlTypeOK, Tick
  PROVE  \E m \in Mode, e \in Error, delivered \in Delivery, d \in 1..Late :
           TickIn(m, e, delivered, d)
  <1>1. reading \in Error /\ mode \in Mode
    BY DEF Tick, ControlTypeOK, TypeOK, Unread
  <1>2. Modes \cup {mode} \subseteq Mode /\ Acted(mode) \subseteq Error
    BY <1>1 DEF Acted
  <1>3. PICK m \in Modes \cup {mode}, e \in Acted(mode), delivered \in Delivery, d \in 1..Late :
          TickIn(m, e, delivered, d)
    BY DEF Tick
  <1> QED BY <1>2, <1>3

LEMMA TickTyped ==
  ASSUME ControlTypeOK, NEW m \in Mode, NEW e \in Error, NEW delivered \in Delivery,
         NEW d \in 1..Late, TickIn(m, e, delivered, d)
  PROVE  ControlTypeOK'
  <1> DEFINE i == Intent(mode, e)
  <1>1. mode \in Mode /\ TypeOK /\ delivered \in BOOLEAN
    BY DEF ControlTypeOK, TypeOK, Delivery
  <1>2. i \in Intents /\ Command(i) \in Kind
    BY <1>1, IntentTyped, CommandTyped
  <1>3. Gate(Command(i), m, delivered, d) /\ Controller(i, d)
        /\ heldFor' = HeldOn(m, d) /\ UNCHANGED <<reading, restarts>>
    BY DEF TickIn
  <1>4. TypeOK'
    BY <1>1, <1>2, <1>3, GateTyped
  <1>5. heldFor' \in 0..(Reassert + Late)
    BY <1>3, HeldTyped
  <1> QED BY <1>2, <1>3, <1>4, <1>5, ControllerTyped DEF ControlTypeOK

LEMMA StepTyped ==
  ASSUME ControlTypeOK, [ControlNext]_allVars
  PROVE  ControlTypeOK'
  <1>1. CASE Tick
    BY <1>1, TickParts, TickTyped
  <1>2. CASE BlindTick
    <2>1. PICK d \in 1..Late :
            mode' = mode /\ Record("MAINTAIN", mode, d) /\ Unit("MAINTAIN", TRUE, d)
            /\ Controller("MAINTAIN", d)
      BY <1>2 DEF BlindTick
    <2>2. mode \in Mode /\ "MAINTAIN" \in Kind /\ "MAINTAIN" \in Intents /\ TypeOK /\ TRUE \in BOOLEAN
      BY DEF ControlTypeOK, TypeOK, Kind, Intents
    <2>3. TypeOK'
      BY <2>1, <2>2, RecordTyped, UnitTyped DEF TypeOK
    <2>4. heldFor' \in 0..(Reassert + Late) /\ UNCHANGED <<reading, restarts>>
      BY <1>2 DEF BlindTick
    <2> QED BY <2>1, <2>2, <2>3, <2>4, ControllerTyped DEF ControlTypeOK
  <1>3. CASE OnModeHeard
    <2>1. heldFor' \in 0..(Reassert + Late)
      BY <1>3 DEF OnModeHeard, ControlTypeOK
    <2> QED BY <1>3, <2>1 DEF OnModeHeard, OnMode, ControlTypeOK, TypeOK, gateVars, ctlVars
  <1>4. CASE OnReading
    BY <1>4 DEF OnReading, ControlTypeOK, TypeOK, vars, gateVars, ctlVars
  <1>5. CASE ControlRestart
    <2>1. PICK d \in 1..Late : Unit("HOLD", TRUE, d)
      BY <1>5 DEF ControlRestart
    <2>2. unitOn' \in BOOLEAN /\ settled' \in 0..MinOff
      BY <2>1, UnitTyped DEF ControlTypeOK, Kind
    <2>3. mode' \in Mode /\ vOn' \in BOOLEAN /\ cOn' \in BOOLEAN /\ reading' \in Error \cup {Unread}
      BY <1>5 DEF ControlRestart, Mode
    <2>4. /\ vSinceOff' \in 0..MinOff /\ vSinceChange' \in 0..MinInterval
          /\ cSince' \in 0..ControllerMinOff /\ sinceAssert' \in 0..Reassert
          /\ age' \in 0..ExcitationTicks /\ heldFor' \in 0..(Reassert + Late)
      BY <1>5 DEF ControlRestart
    <2>5. restarts' \in 0..MaxRestarts
      BY <1>5 DEF ControlRestart, ControlTypeOK
    <2> QED BY <2>2, <2>3, <2>4, <2>5 DEF ControlTypeOK, TypeOK
  <1>6. CASE UNCHANGED allVars
    BY <1>6 DEF allVars, vars, gateVars, ctlVars, ControlTypeOK, TypeOK
  <1> QED BY <1>1, <1>2, <1>3, <1>4, <1>5, <1>6 DEF ControlNext

LEMMA ControlInitTyped == ControlInit => ControlTypeOK
  <1> SUFFICES ASSUME ControlInit PROVE ControlTypeOK
    OBVIOUS
  <1>1. TypeOK
    BY InitTyped DEF ControlInit
  <1>2. cOn \in BOOLEAN /\ reading \in Error \cup {Unread}
    BY DEF ControlInit, ControllerBooted
  <1>3. /\ cSince \in 0..ControllerMinOff /\ sinceAssert \in 0..Reassert
        /\ age \in 0..ExcitationTicks /\ heldFor \in 0..(Reassert + Late)
        /\ restarts \in 0..MaxRestarts
    BY DEF ControlInit, ControllerBooted
  <1> QED BY <1>1, <1>2, <1>3 DEF ControlTypeOK

(* Type correctness of the loop, on any path and through restarts.         *)
THEOREM ControlTypeCorrect == ControlSpec => []ControlTypeOK
  BY ControlInitTyped, StepTyped, PTL DEF ControlSpec

(***************************************************************************)
(* The contract and prompt stops.                                          *)
(***************************************************************************)
(* Without a restart, a step of the loop is a step of the gate under some  *)
(* proposer, and no proposal of the loop at all before the first reading.  *)
LEMMA StepIsGated ==
  ASSUME Lossy = FALSE, ControlTypeOK, Coupled, [ControlNext]_allVars, restarts' = 0
  PROVE  Coupled' /\ [Contract!Next]_(Contract!vars)
  <1>1. GateInv
    BY DEF GateInv, ControlTypeOK
  <1>2. CASE Tick
    <2>1. PICK m \in Mode, e \in Error, d \in 1..Late : TickIn(m, e, TRUE, d)
      BY <1>2, TickParts DEF Delivery
    <2>2. Gate(Command(Intent(mode, e)), m, TRUE, d)
      BY <2>1 DEF TickIn
    <2>3. Command(Intent(mode, e)) \in Kind
      BY IntentTyped, CommandTyped DEF ControlTypeOK, TypeOK
    <2> QED BY <1>1, <2>2, <2>3, GateCoupled, GateHonoursContract
  <1>3. CASE BlindTick
    <2>1. PICK d \in 1..Late :
            mode' = mode /\ Record("MAINTAIN", mode, d) /\ Unit("MAINTAIN", TRUE, d)
      BY <1>3 DEF BlindTick
    <2>2. Admitted("MAINTAIN", mode) = "MAINTAIN" /\ "MAINTAIN" \in Kind /\ mode \in Mode
      BY DEF Admitted, Blocked, AlwaysAdmitted, StateChanging, Kind, ControlTypeOK, TypeOK
    <2>3. Gate("MAINTAIN", mode, TRUE, d)
      BY <2>1, <2>2 DEF Gate
    <2> QED BY <1>1, <2>2, <2>3, GateCoupled, GateHonoursContract
  <1>4. CASE OnModeHeard
    BY <1>1, <1>4, OnModeKeeps DEF OnModeHeard, GateInv
  <1>5. CASE OnReading
    BY <1>5 DEF OnReading, vars, gateVars, Coupled, Capped, Contract!vars
  <1>6. CASE ControlRestart
    BY <1>6 DEF ControlRestart, ControlTypeOK
  <1>7. CASE UNCHANGED allVars
    BY <1>7 DEF allVars, vars, gateVars, Coupled, Capped, Contract!vars
  <1> QED BY <1>2, <1>3, <1>4, <1>5, <1>6, <1>7 DEF ControlNext

(* The count of restarts only grows, so the first one ends what is known   *)
(* of the gate's bookkeeping for good.                                     *)
LEMMA RestartsGrow ==
  ASSUME ControlTypeOK, [ControlNext]_allVars, restarts' = 0
  PROVE  restarts = 0
  <1>1. restarts \in Nat
    BY DEF ControlTypeOK
  <1>2. restarts' = restarts \/ restarts' = restarts + 1
    BY DEF ControlNext, Tick, TickIn, BlindTick, OnModeHeard, OnReading, ControlRestart, allVars
  <1> QED BY <1>1, <1>2

(* The regulatory loop starts the unit only on a rested compressor and in  *)
(* a mode that may drive it: the gate's contract, through the loop.        *)
THEOREM LoopIsGated ==
  ASSUME Lossy = FALSE, MaxRestarts = 0
  PROVE  ControlSpec => ImplementsContract
  <1>1. ControlInit => ControlTypeOK /\ Coupled /\ Contract!Init
    BY ControlInitTyped, InitCoupled DEF ControlInit, GateInv
  <1>2. ControlTypeOK /\ Coupled /\ [ControlNext]_allVars
          => ControlTypeOK' /\ Coupled' /\ [Contract!Next]_(Contract!vars)
    <2> SUFFICES ASSUME ControlTypeOK, Coupled, [ControlNext]_allVars
                 PROVE  ControlTypeOK' /\ Coupled' /\ [Contract!Next]_(Contract!vars)
      OBVIOUS
    <2>1. ControlTypeOK'
      BY StepTyped
    <2>2. restarts' = 0
      BY <2>1 DEF ControlTypeOK
    <2> QED BY <2>1, <2>2, StepIsGated
  <1> QED BY <1>1, <1>2, PTL DEF ControlSpec, ImplementsContract, Contract!Spec

(* A tick that stops the controller's compressor but not the unit is one   *)
(* the rate limit suppressed.                                              *)
LEMMA SuppressedStop ==
  ASSUME Lossy = FALSE, ControlTypeOK, Coupled, [ControlNext]_allVars,
         cOn, ~cOn', unitOn', restarts' = 0
  PROVE  settled < MinInterval
  <1>1. CASE Tick
    <2>1. PICK m \in Mode, e \in Error, d \in 1..Late : TickIn(m, e, TRUE, d)
      BY <1>1, TickParts DEF Delivery
    <2> DEFINE i == Intent(mode, e)
    <2>2. i = "STOP"
      BY <2>1 DEF TickIn, Controller
    <2>3. Command(i) = "OFF"
      BY <2>2 DEF Command
    <2>4. Unit(Admitted("OFF", m), TRUE, d)
      BY <2>1, <2>3 DEF TickIn, Gate
    <2>5. Admitted("OFF", m) # "OFF"
      BY <2>4 DEF Unit, Carries, StateChanging
    <2>6. ViolatesRate /\ ~Reassertion("OFF")
      BY <2>5 DEF Admitted, Blocked, AlwaysAdmitted, ViolatesDwell, StateChanging
    <2>7. unitOn /\ vSinceChange < MinInterval
      BY <2>6 DEF ViolatesRate, Reassertion, Coupled, ControlTypeOK, TypeOK
    <2>8. Capped(settled, MinInterval) < MinInterval
      BY <2>7 DEF Coupled
    <2>9. settled \in Nat /\ MinInterval \in Nat
      BY DEF ControlTypeOK, TypeOK
    <2> QED BY <2>8, <2>9 DEF Capped
  <1>2. CASE BlindTick
    BY <1>2 DEF BlindTick, Controller
  <1>3. CASE OnModeHeard \/ OnReading \/ UNCHANGED allVars
    BY <1>3 DEF OnModeHeard, OnReading, allVars, ctlVars
  <1>4. CASE ControlRestart
    BY <1>4 DEF ControlRestart, ControlTypeOK
  <1> QED BY <1>1, <1>2, <1>3, <1>4 DEF ControlNext

(* Until the process restarts, a stop the controller decides on is delayed *)
(* by nothing but the unit's own last change (V-4): re-assertions never    *)
(* delay it.                                                               *)
THEOREM StopsReachTheUnit ==
  ASSUME Lossy = FALSE
  PROVE  ControlSpec => StopsPromptly
  <1> DEFINE Known == restarts = 0 => Coupled
  <1>1. ControlInit => ControlTypeOK /\ Known
    BY ControlInitTyped, InitCoupled DEF ControlInit, GateInv
  <1>2. ControlTypeOK /\ Known /\ [ControlNext]_allVars => ControlTypeOK' /\ Known'
    BY StepTyped, StepIsGated, RestartsGrow
  <1>3. ControlTypeOK /\ Known /\ [ControlNext]_allVars
          => [cOn /\ ~cOn' /\ unitOn' /\ restarts' = 0 => settled < MinInterval]_allVars
    BY SuppressedStop, RestartsGrow
  <1> QED BY <1>1, <1>2, <1>3, PTL DEF ControlSpec, StopsPromptly

(***************************************************************************)
(* SAFE_HOLD stops the unit.                                               *)
(***************************************************************************)
(* In SAFE_HOLD the controller proposes a stop or a hold, and a stop that  *)
(* the gate judges in SAFE_HOLD too reaches the unit.                      *)
LEMMA HoldingTick ==
  ASSUME Lossy = FALSE, ControlTypeOK, mode = "SAFE_HOLD",
         NEW e \in Error, NEW d \in 1..Late, TickIn("SAFE_HOLD", e, TRUE, d), unitOn'
  PROVE  /\ unitOn /\ cOn = FALSE /\ cOn' = FALSE /\ sinceAssert < Reassert
         /\ sinceAssert' = Capped(sinceAssert + d, Reassert)
         /\ heldFor' = Capped(heldFor + d, Reassert + Late)
  <1> DEFINE i == Intent(mode, e)
  <1>1. cOn \in BOOLEAN
    BY DEF ControlTypeOK
  <1>2. Unit(Admitted(Command(i), "SAFE_HOLD"), TRUE, d) /\ Controller(i, d)
    BY DEF TickIn, Gate
  <1>3. CASE cOn \/ ReassertDue
    <2>1. Command(i) = "OFF"
      BY <1>1, <1>3 DEF Intent, StopsInHold, Command
    <2>2. Admitted("OFF", "SAFE_HOLD") = "OFF"
      BY DEF Admitted, Blocked, AlwaysAdmitted, NonActuating
    <2> QED BY <1>2, <2>1, <2>2 DEF Unit, Carries, StateChanging
  <1>4. CASE ~cOn /\ ~ReassertDue
    <2>1. i = "HOLD"
      BY <1>4 DEF Intent, StopsInHold, HeldAsItIs
    <2>2. Command(i) = "HOLD" /\ Admitted("HOLD", "SAFE_HOLD") = "HOLD"
      BY <2>1 DEF Command, Admitted, Blocked, AlwaysAdmitted, StateChanging
    <2>3. unitOn' = unitOn
      BY <1>2, <2>2 DEF Unit, Carries, StateChanging
    <2>4. cOn' = cOn /\ sinceAssert' = Capped(sinceAssert + d, Reassert)
      BY <1>2, <2>1 DEF Controller
    <2>5. sinceAssert < Reassert
      BY <1>4 DEF ReassertDue, ControlTypeOK
    <2>6. heldFor' = Capped(heldFor + d, Reassert + Late)
      BY DEF TickIn, HeldOn
    <2> QED BY <1>1, <1>4, <2>3, <2>4, <2>5, <2>6
  <1> QED BY <1>3, <1>4

LEMMA TickHolds ==
  ASSUME Lossy = FALSE, ControlTypeOK, HoldInv, Tick
  PROVE  HoldInv'
  <1>1. PICK m \in Mode, e \in Error, d \in 1..Late : TickIn(m, e, TRUE, d)
    BY TickParts DEF Delivery
  <1>2. mode' = m /\ heldFor' = HeldOn(m, d)
    BY <1>1 DEF TickIn, Gate
  <1>3. CASE ~(mode = "SAFE_HOLD" /\ m = "SAFE_HOLD")
    BY <1>2, <1>3 DEF HeldOn, HoldInv
  <1>4. CASE mode = "SAFE_HOLD" /\ m = "SAFE_HOLD"
    <2>1. CASE ~unitOn'
      BY <1>2, <1>4, <2>1 DEF HoldInv
    <2>2. CASE unitOn'
      <3>1. /\ unitOn /\ cOn' = FALSE /\ sinceAssert < Reassert
            /\ sinceAssert' = Capped(sinceAssert + d, Reassert)
            /\ heldFor' = Capped(heldFor + d, Reassert + Late)
        BY <1>1, <1>4, <2>2, HoldingTick
      <3>2. heldFor \in Nat /\ sinceAssert \in Nat /\ d \in 1..Late /\ Reassert \in Nat \ {0}
        BY DEF ControlTypeOK
      <3>3. heldFor <= sinceAssert
        BY <3>1, <3>2 DEF HoldInv
      <3>4. heldFor' = heldFor + d /\ heldFor' < Reassert + Late
        BY <3>1, <3>2, <3>3 DEF Capped
      <3>5. sinceAssert' < Reassert => heldFor' <= sinceAssert'
        BY <3>1, <3>2, <3>3, <3>4 DEF Capped
      <3> QED BY <1>2, <1>4, <3>1, <3>4, <3>5 DEF HoldInv
    <2> QED BY <2>1, <2>2
  <1> QED BY <1>3, <1>4

LEMMA StepHolds ==
  ASSUME Lossy = FALSE, ControlTypeOK, HoldInv, [ControlNext]_allVars
  PROVE  HoldInv'
  <1>1. CASE Tick
    BY <1>1, TickHolds
  <1>2. CASE BlindTick \/ ControlRestart
    <2>1. heldFor' = 0
      BY <1>2 DEF BlindTick, ControlRestart
    <2> QED BY <2>1 DEF HoldInv
  <1>3. CASE OnModeHeard
    BY <1>3 DEF OnModeHeard, OnMode, ctlVars, HoldInv
  <1>4. CASE OnReading
    BY <1>4 DEF OnReading, vars, ctlVars, HoldInv
  <1>5. CASE UNCHANGED allVars
    BY <1>5 DEF allVars, vars, ctlVars, HoldInv
  <1> QED BY <1>1, <1>2, <1>3, <1>4, <1>5 DEF ControlNext

(* SAFE_HOLD stops the unit within one re-assertion interval and a tick,   *)
(* whatever controller and gate believe and through any restarts.          *)
THEOREM SafeHoldIsEffective ==
  ASSUME Lossy = FALSE
  PROVE  ControlSpec => []SafeHoldStops
  <1>1. ControlInit => ControlTypeOK /\ HoldInv
    BY ControlInitTyped DEF ControlInit, HoldInv
  <1>2. ControlTypeOK /\ HoldInv /\ [ControlNext]_allVars => ControlTypeOK' /\ HoldInv'
    BY StepTyped, StepHolds
  <1>3. ControlTypeOK /\ HoldInv => SafeHoldStops
    BY DEF ControlTypeOK, HoldInv, SafeHoldStops
  <1> QED BY <1>1, <1>2, <1>3, PTL DEF ControlSpec

-----------------------------------------------------------------------------
(* The music player. *)

Tiles == [playing : BOOLEAN, paused : BOOLEAN, starting : BOOLEAN, track : Songs \cup {NoSong},
          autoplay : BOOLEAN, upNext : Songs \cup {NoSong}]

(* A song held for the room's voice has not run out; once a stream was      *)
(* refused nothing is open; and nothing lined up has been played.           *)
HeldIsWhole == (cued # "no" => ~out.over) /\ (failed => out.song = NoSong)
LineIsNew == \A i \in 1..Len(upNext) : upNext[i] \notin played

PlayerInv ==
  /\ track \in Songs \cup {NoSong} /\ paused \in BOOLEAN /\ cued \in {"no", "yes", "due"}
  /\ autoplay \in BOOLEAN /\ failed \in BOOLEAN /\ lineFor \in Streams \cup {NoSong}
  /\ upNext \in Seq(Streams) /\ played \subseteq Streams /\ fetching \in [Streams -> 0..MaxFetches]
  /\ out \in [song : Songs \cup {NoSong}, held : BOOLEAN, over : BOOLEAN, broken : BOOLEAN]
  /\ paused => track # NoSong /\ cued = "no"
  /\ cued # "no" => track # NoSong
  /\ HeldIsWhole /\ LineIsNew /\ SoundIsAsShown /\ LineIsItsOwn

BoundsInv ==
  /\ room \in [asked : {"no", "recent", "old"}, replied : BOOLEAN, aloud : BOOLEAN, since : BOOLEAN, speaking : BOOLEAN]
  /\ left \in [refusals : 0..MaxRefusals, asked : 0..MaxAsked]

BoardInv == tile \in Tiles /\ unpublished \in BOOLEAN /\ TileIsTrue

MusicInv == PlayerInv /\ BoundsInv /\ BoardInv

LEMMA MusicConstants ==
  /\ NoSong \notin Songs /\ Files \cap Streams = {} /\ Charts \subseteq Seq(Streams)
  /\ MaxFetches \in Nat /\ MaxRefusals \in Nat /\ MaxAsked \in Nat
  /\ Files \subseteq Songs /\ Streams \subseteq Songs
BY MusicAssumption DEF Songs

(* What is left of a line, and what is put behind it.                       *)
LEMMA LineRest ==
  ASSUME NEW S, NEW s \in Seq(S), NEW i \in 1..Len(s)
  PROVE  /\ SubSeq(s, i + 1, Len(s)) \in Seq(S)
         /\ \A j \in 1..Len(SubSeq(s, i + 1, Len(s))) : \E k \in 1..Len(s) : SubSeq(s, i + 1, Len(s))[j] = s[k]
<1> DEFINE N == Len(s)
           a == i + 1
           rest == SubSeq(s, a, N)
<1>1. N \in Nat /\ \A j \in 1..N : s[j] \in S
  BY LenProperties, ElementOfSeq
<1>2. rest = SubSeq(s, a, N)
  OBVIOUS
<1> HIDE DEF rest, N
<1>3. a \in Int /\ N \in Int /\ a >= 1 /\ \A j \in a..N : s[j] \in S
  BY <1>1 DEF N
<1>4. i <= N /\ i \in Nat /\ i >= 1
  BY <1>1 DEF N
<1> HIDE DEF a
<1>5. /\ rest \in Seq(S) /\ Len(rest) = IF a <= N THEN N - a + 1 ELSE 0
      /\ \A j \in 1..N - a + 1 : rest[j] = s[a + j - 1]
  BY <1>2, <1>3, SubSeqProperties
<1>6. Len(rest) = N - a + 1
  BY <1>1, <1>3, <1>4, <1>5 DEF a
<1>7. ASSUME NEW j \in 1..N - a + 1 PROVE \E k \in 1..N : rest[j] = s[k]
  <2>1. a + j - 1 \in 1..N
    BY <1>1, <1>3
  <2> QED BY <1>5, <2>1
<1> QED BY <1>5, <1>6, <1>7 DEF rest, a, N

LEMMA LineMore ==
  ASSUME NEW S, NEW s \in Seq(S), NEW t \in Seq(S), NEW X,
         \A i \in 1..Len(s) : s[i] \notin X, \A i \in 1..Len(t) : t[i] \notin X
  PROVE  /\ s \o t \in Seq(S)
         /\ \A i \in 1..Len(s \o t) : (s \o t)[i] \notin X
<1> DEFINE all == s \o t
           M == Len(s)
           N == Len(t)
<1>1. M \in Nat /\ N \in Nat
  BY LenProperties
<1>2. /\ all \in Seq(S) /\ Len(all) = M + N
      /\ \A i \in 1..M + N : all[i] = IF i <= M THEN s[i] ELSE t[i - M]
  BY ConcatProperties
<1> HIDE DEF all
<1>3. ASSUME NEW i \in 1..M + N PROVE all[i] \notin X
  <2> HIDE DEF M, N
  <2>1. CASE i <= M
    <3>1. i \in 1..M /\ all[i] = s[i]
      BY <1>1, <1>2, <2>1
    <3> QED BY <3>1 DEF M
  <2>2. CASE ~(i <= M)
    <3>1. i - M \in 1..N /\ all[i] = t[i - M]
      BY <1>1, <1>2, <2>2
    <3> QED BY <3>1 DEF N
  <2> QED BY <2>1, <2>2
<1> QED BY <1>2, <1>3 DEF all

LEMMA ChartLine ==
  ASSUME NEW chart \in Seq(Streams), NEW line \in NewOnes(chart)
  PROVE  /\ line \in Seq(Streams)
         /\ \A i \in 1..Len(line) : line[i] \notin played
<1> DEFINE places == {i \in DOMAIN chart : chart[i] \notin played}
           n == Cardinality(places)
<1>1. DOMAIN chart = 1..Len(chart) /\ Len(chart) \in Nat /\ \A i \in 1..Len(chart) : chart[i] \in Streams
  BY LenProperties, ElementOfSeq
<1>2. n \in Nat
  <2>1. IsFiniteSet(1..Len(chart)) /\ places \subseteq 1..Len(chart)
    BY <1>1, FS_Interval
  <2> HIDE DEF places
  <2> QED BY <2>1, FS_Subset, FS_CardinalityType
<1>3. \A i \in places : chart[i] \in Streams /\ chart[i] \notin played
  BY <1>1
<1>4. \E h \in [1..n -> places] : line = [k \in 1..n |-> chart[h[k]]]
  BY DEF NewOnes
<1> HIDE DEF places, n
<1>5. PICK h \in [1..n -> places] : line = [k \in 1..n |-> chart[h[k]]]
  BY <1>4
<1>6. line \in [1..n -> Streams] /\ \A k \in 1..n : line[k] \notin played
  BY <1>3, <1>5
<1>7. line \in Seq(Streams) /\ Len(line) = n
  <2>1. line \in Seq(Streams)
    BY <1>2, <1>6, SeqDef
  <2>2. DOMAIN line = 1..n /\ DOMAIN line = 1..Len(line) /\ Len(line) \in Nat
    BY <1>6, <2>1, LenProperties
  <2> QED BY <1>2, <2>1, <2>2
<1> QED BY <1>6, <1>7

(* What follows a song: one of those lined up, with some of those left of   *)
(* them, a file, or nothing.                                                *)
LEMMA FollowingIs ==
  ASSUME PlayerInv, NEW bad \in BOOLEAN, NEW next \in Following(bad)
  PROVE  /\ next[1] \in Songs \cup {NoSong} /\ next[1] \notin played
         /\ next[2] \in Seq(Streams) /\ (\A i \in 1..Len(next[2]) : next[2][i] \notin played)
         /\ next[2] # << >> => upNext # << >>
<1> DEFINE rest(i) == SubSeq(upNext, i + 1, Len(upNext))
           none == << >>
<1>1. upNext \in Seq(Streams) /\ played \subseteq Streams /\ DOMAIN upNext = 1..Len(upNext) /\ Len(upNext) \in Nat
  BY LenProperties DEF PlayerInv
<1>2. none \in Seq(Streams) /\ Len(none) = 0
  OBVIOUS
<1>3. ASSUME NEW i \in 1..Len(upNext)
      PROVE  /\ upNext[i] \in Streams /\ upNext[i] \notin played /\ upNext # << >>
             /\ rest(i) \in Seq(Streams) /\ \A j \in 1..Len(rest(i)) : rest(i)[j] \notin played
  <2>1. upNext[i] \in Streams /\ upNext[i] \notin played
    BY <1>1, ElementOfSeq DEF PlayerInv, LineIsNew
  <2>2. upNext # none
    BY <1>1, <1>2
  <2>3. /\ rest(i) \in Seq(Streams)
        /\ \A j \in 1..Len(rest(i)) : \E k \in 1..Len(upNext) : rest(i)[j] = upNext[k]
    BY <1>1, LineRest
  <2> HIDE DEF rest
  <2>4. \A j \in 1..Len(rest(i)) : rest(i)[j] \notin played
    BY <2>3 DEF PlayerInv, LineIsNew
  <2> QED BY <2>1, <2>2, <2>3, <2>4
<1> DEFINE others == IF track \in Streams \/ Files \ {track} = {} THEN {NoSong} ELSE Files \ {track}
<1>4. \/ \E i \in DOMAIN upNext : next = <<upNext[i], rest(i)>>
      \/ \E i \in DOMAIN upNext : next = <<NoSong, rest(i)>>
      \/ \E song \in others : next = <<song, none>>
  BY DEF Following
<1>5. \A song \in others : song \in Songs \cup {NoSong} /\ song \notin played
  BY <1>1, MusicConstants
<1> HIDE DEF rest, none, others
<1>6. CASE \E i \in DOMAIN upNext : next = <<upNext[i], rest(i)>>
  <2>1. PICK i \in 1..Len(upNext) : next = <<upNext[i], rest(i)>>
    BY <1>1, <1>6
  <2>2. next[1] = upNext[i] /\ next[2] = rest(i)
    BY <2>1
  <2> QED BY <1>3, <2>2, MusicConstants
<1>7. CASE \E i \in DOMAIN upNext : next = <<NoSong, rest(i)>>
  <2>1. PICK i \in 1..Len(upNext) : next = <<NoSong, rest(i)>>
    BY <1>1, <1>7
  <2>2. next[1] = NoSong /\ next[2] = rest(i)
    BY <2>1
  <2> QED BY <1>1, <1>3, <2>2, MusicConstants
<1>8. CASE \E song \in others : next = <<song, none>>
  <2>1. PICK song \in others : next = <<song, none>>
    BY <1>8
  <2>2. next[1] = song /\ next[2] = none
    BY <2>1
  <2>3. next[2] = << >> /\ \A i \in 1..Len(next[2]) : FALSE
    BY <1>2, <2>2 DEF none
  <2> QED BY <1>2, <1>5, <2>2, <2>3
<1> QED BY <1>4, <1>6, <1>7, <1>8

TileOf(t, p, c, a, u) ==
  [playing |-> t # NoSong /\ ~p /\ c = "no", paused |-> p, starting |-> c # "no",
   track |-> t, autoplay |-> a, upNext |-> IF u = <<>> THEN NoSong ELSE Head(u)]

LEMMA TileTyped ==
  ASSUME NEW t \in Songs \cup {NoSong}, NEW p \in BOOLEAN, NEW c, NEW a \in BOOLEAN, NEW u \in Seq(Streams)
  PROVE  TileOf(t, p, c, a, u) \in Tiles
<1>1. ASSUME u # << >> PROVE Head(u) \in Songs
  <2>1. Head(u) \in Streams
    BY <1>1, HeadTailProperties
  <2> QED BY <2>1, MusicConstants
<1>2. (IF u = << >> THEN NoSong ELSE Head(u)) \in Songs \cup {NoSong}
  BY <1>1
<1>3. (t # NoSong /\ ~p /\ c = "no") \in BOOLEAN /\ (c # "no") \in BOOLEAN
  OBVIOUS
<1> QED BY <1>2, <1>3 DEF Tiles, TileOf

LEMMA Published ==
  ASSUME PlayerInv', Publish
  PROVE  tile' \in Tiles /\ TileIsTrue'
<1>1. /\ track' \in Songs \cup {NoSong} /\ paused' \in BOOLEAN /\ autoplay' \in BOOLEAN
      /\ upNext' \in Seq(Streams)
  BY DEF PlayerInv
<1>2. tile' = State'
  BY DEF Publish
<1>3. State' \in Tiles
  <2>1. State' = TileOf(track', paused', cued', autoplay', upNext')
    BY DEF State, TileOf
  <2> QED BY <1>1, <2>1, TileTyped
<1>4. [tile EXCEPT !.upNext = NoSong]' = [State EXCEPT !.upNext = NoSong]'
  BY <1>2
<1> QED BY <1>2, <1>3, <1>4 DEF TileIsTrue

LEMMA SameTile ==
  ASSUME tile \in Tiles, TileIsTrue, tile' = tile, track' = track, paused' = paused, autoplay' = autoplay,
         cued = "no" <=> cued' = "no", unpublished => unpublished'
  PROVE  tile' \in Tiles /\ TileIsTrue'
<1>1. [State EXCEPT !.upNext = NoSong]' = [State EXCEPT !.upNext = NoSong]
  BY DEF State
<1>2. [tile EXCEPT !.upNext = NoSong]' = [tile EXCEPT !.upNext = NoSong]
  OBVIOUS
<1> QED BY <1>1, <1>2 DEF TileIsTrue

LEMMA Spending ==
  ASSUME BoundsInv, NEW bad \in BOOLEAN, Spend(bad) \/ Trouble(bad)
  PROVE  left' \in [refusals : 0..MaxRefusals, asked : 0..MaxAsked]
<1>1. left \in [refusals : 0..MaxRefusals, asked : 0..MaxAsked] /\ MaxRefusals \in Nat /\ MaxAsked \in Nat
  BY MusicConstants DEF BoundsInv
<1>2. left.refusals \in 0..MaxRefusals
  BY <1>1
<1>3. left.asked \in 0..MaxAsked
  BY <1>1
<1>4. left.refusals > 0 => left.refusals - 1 \in 0..MaxRefusals
  BY <1>1, <1>2
<1>5. left.asked > 0 => left.asked - 1 \in 0..MaxAsked
  BY <1>1, <1>3
<1>6. CASE Spend(bad)
  BY <1>2, <1>4, <1>5, <1>6 DEF Spend
<1>7. CASE Trouble(bad)
  BY <1>1, <1>2, <1>4, <1>7 DEF Trouble
<1> QED BY <1>6, <1>7

LEMMA Fetching ==
  ASSUME fetching \in [Streams -> 0..MaxFetches], NEW song
  PROVE  Fetch(song) \in [Streams -> 0..MaxFetches]
<1>1. MaxFetches \in Nat
  BY MusicConstants
<1>2. ASSUME song \in Streams, fetching[song] < MaxFetches PROVE fetching[song] + 1 \in 0..MaxFetches
  <2>1. fetching[song] \in 0..MaxFetches
    BY <1>2
  <2> QED BY <1>1, <1>2, <2>1
<1> QED BY <1>2 DEF Fetch

(* A song that starts: nothing is lined up behind it.                       *)
LEMMA Starts ==
  ASSUME PlayerInv, NEW song \in Songs, NEW asked \in BOOLEAN, Start(song, asked)
  PROVE  PlayerInv' /\ autoplay' = autoplay /\ track' = song
<1> DEFINE wait == asked /\ AwaitingReply
           none == << >>
<1>1. /\ track' = song /\ paused' = FALSE /\ failed' = FALSE
      /\ cued' = (IF wait THEN "yes" ELSE "no") /\ out' = Opened(song, wait)
      /\ upNext' = none /\ lineFor' = NoSong /\ autoplay' = autoplay
      /\ played' = played \cup ({song} \cap Streams) /\ fetching' = Fetch(song)
  BY DEF Start, Lined
<1>2. wait \in BOOLEAN
  BY DEF AwaitingReply
<1>3. none \in Seq(Streams) /\ \A i \in 1..Len(none) : FALSE
  OBVIOUS
<1> HIDE DEF wait, none
<1>4. song # NoSong
  BY MusicConstants
<1>5. /\ out' \in [song : Songs \cup {NoSong}, held : BOOLEAN, over : BOOLEAN, broken : BOOLEAN]
      /\ out'.song = song /\ out'.held = wait /\ out'.over = FALSE
  BY <1>1, <1>2 DEF Opened
<1>6. fetching' \in [Streams -> 0..MaxFetches]
  BY <1>1, Fetching DEF PlayerInv
<1>7. HeldIsWhole' /\ LineIsNew' /\ LineIsItsOwn'
  BY <1>1, <1>3, <1>5 DEF HeldIsWhole, LineIsNew, LineIsItsOwn, none
<1>8. SoundIsAsShown'
  BY <1>1, <1>2, <1>4, <1>5 DEF SoundIsAsShown
<1> QED BY <1>1, <1>3, <1>4, <1>5, <1>6, <1>7, <1>8 DEF PlayerInv

(* A song held for the room's voice is let go, or it is not.                *)
LEMMA LetsGo ==
  ASSUME PlayerInv, NEW go \in BOOLEAN, go => cued # "no",
         cued' = IF go THEN "no" ELSE cued,
         out' = IF go THEN [out EXCEPT !.held = FALSE] ELSE out,
         UNCHANGED <<track, paused, autoplay, upNext, played, fetching, failed, lineFor>>
  PROVE  PlayerInv'
<1>1. /\ out \in [song : Songs \cup {NoSong}, held : BOOLEAN, over : BOOLEAN, broken : BOOLEAN]
      /\ cued \in {"no", "yes", "due"} /\ HeldIsWhole /\ SoundIsAsShown
      /\ (paused => track # NoSong /\ cued = "no")
  BY DEF PlayerInv
<1>2. /\ out' \in [song : Songs \cup {NoSong}, held : BOOLEAN, over : BOOLEAN, broken : BOOLEAN]
      /\ out'.song = out.song /\ out'.over = out.over /\ out'.held = IF go THEN FALSE ELSE out.held
  BY <1>1
<1>3. HeldIsWhole'
  BY <1>1, <1>2 DEF HeldIsWhole
<1>4. SoundIsAsShown'
  <2>1. CASE go
    BY <1>1, <1>2, <2>1 DEF SoundIsAsShown
  <2>2. CASE ~go
    BY <1>1, <1>2, <2>2 DEF SoundIsAsShown
  <2> QED BY <2>1, <2>2
<1>5. LineIsNew' /\ LineIsItsOwn'
  BY DEF PlayerInv, LineIsNew, LineIsItsOwn
<1> QED BY <1>1, <1>2, <1>3, <1>4, <1>5 DEF PlayerInv

-----------------------------------------------------------------------------
LEMMA MusicStarts == MusicInit => MusicInv
<1> SUFFICES ASSUME MusicInit PROVE MusicInv
  OBVIOUS
<1> DEFINE none == << >>
<1>1. /\ track = NoSong /\ paused = FALSE /\ cued = "no" /\ autoplay = TRUE
      /\ upNext = none /\ played = {} /\ unpublished = FALSE /\ fetching = Idle
      /\ out = Closed /\ room = Quiet /\ tile = State /\ failed = FALSE /\ lineFor = NoSong
      /\ left \in [refusals : 0..MaxRefusals, asked : 0..MaxAsked]
  BY DEF MusicInit
<1>2. none \in Seq(Streams) /\ \A i \in 1..Len(none) : FALSE
  OBVIOUS
<1> HIDE DEF none
<1>3. PlayerInv
  <2>1. Idle \in [Streams -> 0..MaxFetches]
    BY MusicConstants DEF Idle
  <2>2. out \in [song : Songs \cup {NoSong}, held : BOOLEAN, over : BOOLEAN, broken : BOOLEAN] /\ out.song = NoSong
    BY <1>1 DEF Closed
  <2>3. HeldIsWhole /\ LineIsNew /\ SoundIsAsShown /\ LineIsItsOwn
    BY <1>1, <1>2, <2>2 DEF HeldIsWhole, LineIsNew, SoundIsAsShown, LineIsItsOwn
  <2> QED BY <1>1, <1>2, <2>1, <2>2, <2>3 DEF PlayerInv
<1>4. BoundsInv
  BY <1>1 DEF BoundsInv, Quiet
<1>5. BoardInv
  <2>1. State = TileOf(track, paused, cued, autoplay, upNext)
    BY DEF State, TileOf
  <2>2. State \in Tiles
    BY <1>1, <1>2, <2>1, TileTyped
  <2> QED BY <1>1, <2>2 DEF BoardInv, TileIsTrue
<1> QED BY <1>3, <1>4, <1>5 DEF MusicInv

(* What the room says, and the times that pass.                             *)
LEMMA RoomSteps ==
  ASSUME MusicInv, OnRequest \/ OnReply \/ OnSpeech \/ WindowPasses \/ TimePasses
  PROVE  MusicInv'
<1>1. PlayerInv /\ BoundsInv /\ BoardInv
  BY DEF MusicInv
<1>2. UNCHANGED <<track, paused, autoplay, upNext, played, fetching, tile, left, failed, lineFor>>
  BY DEF OnRequest, OnReply, OnSpeech, WindowPasses, TimePasses, roomless
<1>3. BoundsInv'
  <2>1. room \in [asked : {"no", "recent", "old"}, replied : BOOLEAN, aloud : BOOLEAN, since : BOOLEAN, speaking : BOOLEAN]
    BY <1>1 DEF BoundsInv
  <2>2. room' \in [asked : {"no", "recent", "old"}, replied : BOOLEAN, aloud : BOOLEAN, since : BOOLEAN, speaking : BOOLEAN]
    <3>1. CASE OnRequest
      BY <2>1, <3>1 DEF OnRequest
    <3>2. CASE OnReply
      BY <2>1, <3>2 DEF OnReply
    <3>3. CASE OnSpeech
      <4>1. (room.since \/ (room.replied /\ ~room.speaking)) \in BOOLEAN /\ (~room.speaking) \in BOOLEAN
        OBVIOUS
      <4> QED BY <2>1, <3>3, <4>1 DEF OnSpeech
    <3>4. CASE WindowPasses
      BY <2>1, <3>4 DEF WindowPasses
    <3>5. CASE TimePasses
      BY <2>1, <3>5 DEF TimePasses
    <3> QED BY <3>1, <3>2, <3>3, <3>4, <3>5
  <2> QED BY <1>1, <1>2, <2>2 DEF BoundsInv
<1>4. CASE OnReply \/ OnSpeech
  <2> DEFINE go == Released(ReplySaid')
  <2>1. /\ cued' = (IF go THEN "no" ELSE cued) /\ out' = (IF go THEN [out EXCEPT !.held = FALSE] ELSE out)
        /\ unpublished' = (unpublished \/ go) /\ go \in BOOLEAN
    BY <1>4 DEF OnReply, OnSpeech, FollowRoom, Released
  <2>2. go => cued # "no"
    BY DEF Released
  <2> HIDE DEF go
  <2>3. PlayerInv'
    BY <1>1, <1>2, <2>1, <2>2, LetsGo
  <2>4. BoardInv'
    <3>1. CASE go
      <4>1. unpublished' = TRUE
        BY <2>1, <3>1
      <4> QED BY <1>1, <1>2, <4>1 DEF BoardInv, TileIsTrue
    <3>2. CASE ~go
      <4>1. unpublished' = unpublished /\ cued' = cued
        BY <1>1, <2>1, <3>2 DEF BoardInv
      <4> QED BY <1>1, <1>2, <4>1, SameTile DEF BoardInv
    <3> QED BY <3>1, <3>2
  <2> QED BY <1>3, <2>3, <2>4 DEF MusicInv
<1>5. CASE OnRequest \/ WindowPasses \/ TimePasses
  <2>1. /\ out' = out /\ unpublished' = unpublished
        /\ cued' \in {"no", "yes", "due"} /\ (cued' = "no" <=> cued = "no")
    <3>1. cued \in {"no", "yes", "due"}
      BY <1>1 DEF PlayerInv
    <3> QED BY <1>5, <3>1 DEF OnRequest, WindowPasses, TimePasses
  <2>2. PlayerInv'
    <3>1. HeldIsWhole' /\ LineIsNew' /\ SoundIsAsShown' /\ LineIsItsOwn'
      BY <1>1, <1>2, <2>1 DEF PlayerInv, HeldIsWhole, LineIsNew, SoundIsAsShown, LineIsItsOwn
    <3> QED BY <1>1, <1>2, <2>1, <3>1 DEF PlayerInv
  <2>3. BoardInv'
    BY <1>1, <1>2, <2>1, SameTile DEF BoardInv
  <2> QED BY <1>3, <2>2, <2>3 DEF MusicInv
<1> QED BY <1>4, <1>5

(* A command that is answered, and a step that the board is not told of.    *)
LEMMA Answered ==
  ASSUME MusicInv, PlayerInv', Publish, Spend(FALSE) \/ Spend(TRUE), unpublished' \in BOOLEAN,
         BoundsInv => room' \in [asked : {"no", "recent", "old"}, replied : BOOLEAN, aloud : BOOLEAN,
                                 since : BOOLEAN, speaking : BOOLEAN]
  PROVE  MusicInv'
<1>1. BoundsInv /\ BoardInv
  BY DEF MusicInv
<1>2. left' \in [refusals : 0..MaxRefusals, asked : 0..MaxAsked]
  BY <1>1, Spending
<1>3. BoundsInv'
  BY <1>1, <1>2 DEF BoundsInv
<1>4. BoardInv'
  BY Published DEF BoardInv
<1> QED BY <1>3, <1>4 DEF MusicInv

LEMMA Untold ==
  ASSUME MusicInv, PlayerInv', UNCHANGED <<track, paused, cued, autoplay, unpublished, room, tile>>,
         left' = left \/ Spend(FALSE) \/ Spend(TRUE)
  PROVE  MusicInv'
<1>1. BoundsInv /\ BoardInv
  BY DEF MusicInv
<1>2. left' \in [refusals : 0..MaxRefusals, asked : 0..MaxAsked]
  BY <1>1, Spending DEF BoundsInv
<1>3. BoundsInv'
  BY <1>1, <1>2 DEF BoundsInv
<1>4. BoardInv'
  BY <1>1, SameTile DEF BoardInv
<1> QED BY <1>3, <1>4 DEF MusicInv

(* A stream that does not open leaves nothing open, and has failed.         *)
LEMMA DoesNotOpen ==
  ASSUME PlayerInv, out' = CannotOpen, failed' = TRUE,
         UNCHANGED <<track, paused, cued, autoplay, played, fetching, lineFor>>,
         upNext' \in Seq(Streams), \A i \in 1..Len(upNext') : upNext'[i] \notin played,
         upNext' # << >> => upNext # << >>
  PROVE  PlayerInv'
<1>1. out' \in [song : Songs \cup {NoSong}, held : BOOLEAN, over : BOOLEAN, broken : BOOLEAN] /\ out'.over = out.over
      /\ out'.song = NoSong
  BY DEF PlayerInv, CannotOpen, Closed
<1>2. HeldIsWhole' /\ LineIsNew' /\ SoundIsAsShown' /\ LineIsItsOwn'
  BY <1>1 DEF PlayerInv, HeldIsWhole, LineIsNew, SoundIsAsShown, LineIsItsOwn
<1> QED BY <1>1, <1>2 DEF PlayerInv

LEMMA Plays ==
  ASSUME MusicInv, (\E song \in Songs : Play(song)) \/ PlayRefused
  PROVE  MusicInv'
<1>1. PlayerInv /\ BoundsInv /\ unpublished \in BOOLEAN
  BY DEF MusicInv, BoardInv
<1>2. ASSUME NEW song \in Songs, Play(song) PROVE MusicInv'
  <2>1. Spend(FALSE) /\ Start(song, TRUE) /\ Publish /\ unpublished' = unpublished /\ room' = room
    BY <1>2 DEF Play
  <2>2. PlayerInv'
    BY <1>1, <2>1, Starts
  <2>3. BoundsInv => room' \in [asked : {"no", "recent", "old"}, replied : BOOLEAN, aloud : BOOLEAN,
                                since : BOOLEAN, speaking : BOOLEAN]
    BY <2>1 DEF BoundsInv
  <2> QED BY <1>1, <2>1, <2>2, <2>3, Answered
<1>3. CASE PlayRefused
  <2>1. /\ out' = CannotOpen /\ failed' = TRUE /\ Spend(TRUE)
        /\ UNCHANGED <<track, paused, cued, autoplay, upNext, played, unpublished, fetching, room, tile, lineFor>>
    BY <1>3 DEF PlayRefused
  <2>2. upNext \in Seq(Streams) /\ \A i \in 1..Len(upNext) : upNext[i] \notin played
    BY <1>1 DEF PlayerInv, LineIsNew
  <2>3. PlayerInv'
    BY <1>1, <2>1, <2>2, DoesNotOpen
  <2> QED BY <2>1, <2>3, Untold
<1> QED BY <1>2, <1>3

LEMMA Holds ==
  ASSUME MusicInv, Pause \/ Stop
  PROVE  MusicInv'
<1>1. PlayerInv /\ unpublished \in BOOLEAN
  BY DEF MusicInv, BoardInv
<1>2. track # NoSong /\ Spend(FALSE) /\ Publish /\ unpublished' = unpublished /\ room' = room
  BY DEF Pause, Stop, CanPause, CanStop, Hold
<1>3. PlayerInv'
  <2>1. CASE Hold
    <3>1. /\ paused' = TRUE /\ cued' = "no" /\ out' = [out EXCEPT !.held = TRUE]
          /\ UNCHANGED <<track, autoplay, upNext, played, fetching, failed, lineFor>>
      BY <2>1 DEF Hold
    <3>2. /\ out' \in [song : Songs \cup {NoSong}, held : BOOLEAN, over : BOOLEAN, broken : BOOLEAN]
          /\ out'.song = out.song /\ out'.held = TRUE
      BY <1>1, <3>1 DEF PlayerInv
    <3>3. HeldIsWhole' /\ LineIsNew' /\ SoundIsAsShown' /\ LineIsItsOwn'
      BY <1>1, <3>1, <3>2 DEF PlayerInv, HeldIsWhole, LineIsNew, SoundIsAsShown, LineIsItsOwn
    <3> QED BY <1>1, <1>2, <3>1, <3>2, <3>3 DEF PlayerInv
  <2>2. CASE UNCHANGED <<track, paused, cued, autoplay, upNext, played, unpublished, fetching, out, room, failed, lineFor>>
    BY <1>1, <2>2 DEF PlayerInv, HeldIsWhole, LineIsNew, SoundIsAsShown, LineIsItsOwn
  <2> QED BY <2>1, <2>2 DEF Pause, Stop
<1>4. BoundsInv => room' \in [asked : {"no", "recent", "old"}, replied : BOOLEAN, aloud : BOOLEAN,
                              since : BOOLEAN, speaking : BOOLEAN]
  BY <1>2 DEF BoundsInv
<1> QED BY <1>1, <1>2, <1>3, <1>4, Answered

LEMMA Resumes ==
  ASSUME MusicInv, Resume \/ ResumeRefused
  PROVE  MusicInv'
<1>1. PlayerInv /\ unpublished \in BOOLEAN
  BY DEF MusicInv, BoardInv
<1>2. /\ track # NoSong /\ paused
      /\ UNCHANGED <<track, cued, autoplay, upNext, played, unpublished, fetching, room, lineFor>>
  BY DEF Resume, ResumeRefused, CanResume, Kept
<1>3. CASE Resume
  <2>1. Spend(FALSE) /\ Publish /\ paused' = FALSE
    BY <1>3 DEF Resume
  <2>2. /\ out' \in [song : Songs \cup {NoSong}, held : BOOLEAN, over : BOOLEAN, broken : BOOLEAN]
        /\ out'.held = FALSE
        /\ ~failed' => out'.song = track
        /\ failed' \in BOOLEAN /\ (failed' => out'.song = NoSong)
    <3>1. CASE out' = Opened(track, FALSE) /\ failed' = FALSE
      BY <1>1, <3>1 DEF Opened, PlayerInv
    <3>2. CASE out' = [out EXCEPT !.held = FALSE] /\ failed' = failed
      BY <1>1, <3>2 DEF PlayerInv, HeldIsWhole, SoundIsAsShown
    <3> QED BY <1>3, <3>1, <3>2 DEF Resume
  <2>3. cued' = "no"
    BY <1>1, <1>2 DEF PlayerInv
  <2>4. HeldIsWhole' /\ LineIsNew' /\ SoundIsAsShown' /\ LineIsItsOwn'
    BY <1>1, <1>2, <2>1, <2>2, <2>3 DEF PlayerInv, HeldIsWhole, LineIsNew, SoundIsAsShown, LineIsItsOwn
  <2>5. PlayerInv'
    BY <1>1, <1>2, <2>1, <2>2, <2>3, <2>4 DEF PlayerInv
  <2>6. BoundsInv => room' \in [asked : {"no", "recent", "old"}, replied : BOOLEAN, aloud : BOOLEAN,
                                since : BOOLEAN, speaking : BOOLEAN]
    BY <1>2 DEF BoundsInv
  <2> QED BY <1>1, <1>2, <2>1, <2>5, <2>6, Answered
<1>4. CASE ResumeRefused
  <2>1. out' = CannotOpen /\ failed' = TRUE /\ Spend(TRUE) /\ paused' = paused /\ tile' = tile
    BY <1>4 DEF ResumeRefused
  <2>2. upNext \in Seq(Streams) /\ \A i \in 1..Len(upNext) : upNext[i] \notin played
    BY <1>1 DEF PlayerInv, LineIsNew
  <2>3. PlayerInv'
    BY <1>1, <1>2, <2>1, <2>2, DoesNotOpen
  <2> QED BY <1>2, <2>1, <2>3, Untold
<1> QED BY <1>3, <1>4

LEMMA Skips ==
  ASSUME MusicInv, Skip \/ SkipRefused
  PROVE  MusicInv'
<1>1. PlayerInv /\ unpublished \in BOOLEAN
  BY DEF MusicInv, BoardInv
<1>2. CASE Skip
  <2>1. PICK bad \in BOOLEAN : Spend(bad) /\ \E next \in Following(bad) : next[1] # NoSong /\ Start(next[1], TRUE)
    BY <1>2 DEF Skip
  <2>2. PICK next \in Following(bad) : next[1] # NoSong /\ Start(next[1], TRUE)
    BY <2>1
  <2>3. next[1] \in Songs
    BY <1>1, <2>2, FollowingIs
  <2>4. PlayerInv'
    BY <1>1, <2>2, <2>3, Starts
  <2>5. unpublished' = unpublished /\ room' = room /\ Publish /\ (Spend(FALSE) \/ Spend(TRUE))
    <3>1. bad = TRUE \/ bad = FALSE
      OBVIOUS
    <3> QED BY <1>2, <2>1, <3>1 DEF Skip
  <2>6. BoundsInv => room' \in [asked : {"no", "recent", "old"}, replied : BOOLEAN, aloud : BOOLEAN,
                                since : BOOLEAN, speaking : BOOLEAN]
    BY <2>5 DEF BoundsInv
  <2> QED BY <1>1, <2>4, <2>5, <2>6, Answered
<1>3. CASE SkipRefused
  <2>1. /\ UNCHANGED <<track, paused, cued, autoplay, played, unpublished, fetching, room, tile, lineFor>>
        /\ \E bad \in BOOLEAN :
             /\ Spend(bad)
             /\ \E next \in Following(bad) :
                  /\ upNext' = next[2]
                  /\ (out' = out /\ failed' = failed) \/ (out' = CannotOpen /\ failed' = TRUE)
    BY <1>3 DEF SkipRefused
  <2>2. PICK bad \in BOOLEAN :
          /\ Spend(bad)
          /\ \E next \in Following(bad) :
               /\ upNext' = next[2]
               /\ (out' = out /\ failed' = failed) \/ (out' = CannotOpen /\ failed' = TRUE)
    BY <2>1
  <2>3. PICK next \in Following(bad) :
          /\ upNext' = next[2]
          /\ (out' = out /\ failed' = failed) \/ (out' = CannotOpen /\ failed' = TRUE)
    BY <2>2
  <2>4. /\ next[2] \in Seq(Streams) /\ (\A i \in 1..Len(next[2]) : next[2][i] \notin played)
        /\ next[2] # << >> => upNext # << >>
    BY <1>1, FollowingIs
  <2>5. PlayerInv'
    <3>1. CASE out' = CannotOpen /\ failed' = TRUE
      BY <1>1, <2>1, <2>3, <2>4, <3>1, DoesNotOpen
    <3>2. CASE out' = out /\ failed' = failed
      <4>1. HeldIsWhole' /\ LineIsNew' /\ SoundIsAsShown' /\ LineIsItsOwn'
        BY <1>1, <2>1, <2>3, <2>4, <3>2 DEF PlayerInv, HeldIsWhole, LineIsNew, SoundIsAsShown, LineIsItsOwn
      <4> QED BY <1>1, <2>1, <2>3, <2>4, <3>2, <4>1 DEF PlayerInv
    <3> QED BY <2>3, <3>1, <3>2
  <2>6. Spend(FALSE) \/ Spend(TRUE)
    <3>1. bad = TRUE \/ bad = FALSE
      OBVIOUS
    <3> QED BY <2>2, <3>1
  <2> QED BY <2>1, <2>5, <2>6, Untold
<1> QED BY <1>2, <1>3

LEMMA Settings ==
  ASSUME MusicInv, SetAutoplay \/ Restarts
  PROVE  MusicInv'
<1> DEFINE none == << >>
<1>1. PlayerInv /\ unpublished \in BOOLEAN
  BY DEF MusicInv, BoardInv
<1>2. none \in Seq(Streams) /\ Len(none) = 0 /\ \A i \in 1..Len(none) : FALSE
  OBVIOUS
<1>3. CASE SetAutoplay
  <2>1. /\ Spend(FALSE) /\ Publish /\ autoplay' \in BOOLEAN
        /\ fetching' = (IF upNext = <<>> THEN Fetch(track) ELSE fetching)
        /\ UNCHANGED <<track, paused, cued, upNext, played, unpublished, out, room, failed, lineFor>>
    BY <1>3 DEF SetAutoplay
  <2>2. fetching' \in [Streams -> 0..MaxFetches]
    BY <1>1, <2>1, Fetching DEF PlayerInv
  <2>3. HeldIsWhole' /\ LineIsNew' /\ SoundIsAsShown' /\ LineIsItsOwn'
    BY <1>1, <2>1 DEF PlayerInv, HeldIsWhole, LineIsNew, SoundIsAsShown, LineIsItsOwn
  <2>4. PlayerInv'
    BY <1>1, <2>1, <2>2, <2>3 DEF PlayerInv
  <2>5. BoundsInv => room' \in [asked : {"no", "recent", "old"}, replied : BOOLEAN, aloud : BOOLEAN,
                                since : BOOLEAN, speaking : BOOLEAN]
    BY <2>1 DEF BoundsInv
  <2> QED BY <1>1, <2>1, <2>4, <2>5, Answered
<1>4. CASE Restarts
  <2>1. /\ Spend(FALSE) /\ Publish
        /\ track' = NoSong /\ paused' = FALSE /\ cued' = "no" /\ autoplay' = TRUE
        /\ upNext' = none /\ played' = {} /\ unpublished' = FALSE /\ fetching' = Idle
        /\ out' = Closed /\ room' = Quiet /\ failed' = FALSE /\ lineFor' = NoSong
    BY <1>4 DEF Restarts
  <2> HIDE DEF none
  <2>2. fetching' \in [Streams -> 0..MaxFetches]
    BY <2>1, MusicConstants DEF Idle
  <2>3. out' \in [song : Songs \cup {NoSong}, held : BOOLEAN, over : BOOLEAN, broken : BOOLEAN] /\ out'.song = NoSong
    BY <2>1 DEF Closed
  <2>4. HeldIsWhole' /\ LineIsNew' /\ SoundIsAsShown' /\ LineIsItsOwn'
    BY <1>2, <2>1, <2>3 DEF HeldIsWhole, LineIsNew, SoundIsAsShown, LineIsItsOwn
  <2>5. PlayerInv'
    BY <1>2, <2>1, <2>2, <2>3, <2>4 DEF PlayerInv
  <2>6. room' \in [asked : {"no", "recent", "old"}, replied : BOOLEAN, aloud : BOOLEAN,
                   since : BOOLEAN, speaking : BOOLEAN]
    BY <2>1 DEF Quiet
  <2> QED BY <2>1, <2>5, <2>6, Answered
<1> QED BY <1>3, <1>4

(* What is fetched is lined up behind the song that it was fetched for, and *)
(* only while that song plays.                                              *)
LEMMA Fetches ==
  ASSUME MusicInv, NEW song \in Streams, Fetched(song)
  PROVE  MusicInv'
<1>1. PlayerInv
  BY DEF MusicInv
<1>2. /\ fetching[song] > 0 /\ fetching' = [fetching EXCEPT ![song] = @ - 1]
      /\ UNCHANGED <<track, paused, cued, autoplay, played, unpublished, out, room, tile, left, failed>>
  BY DEF Fetched
<1>3. fetching' \in [Streams -> 0..MaxFetches]
  <2>1. fetching[song] \in 0..MaxFetches /\ MaxFetches \in Nat
    BY <1>1, MusicConstants DEF PlayerInv
  <2>2. fetching[song] - 1 \in 0..MaxFetches
    BY <1>2, <2>1
  <2> QED BY <1>1, <1>2, <2>2 DEF PlayerInv
<1>4. /\ upNext' \in Seq(Streams) /\ lineFor' \in Streams \cup {NoSong}
      /\ LineIsNew' /\ LineIsItsOwn'
  <2>1. CASE UNCHANGED <<upNext, lineFor>>
    BY <1>1, <1>2, <2>1 DEF PlayerInv, LineIsNew, LineIsItsOwn
  <2>2. CASE /\ StillPlays(song) /\ lineFor' = song
             /\ \E chart \in Charts : song \notin Range(chart) /\ \E line \in NewOnes(chart) : upNext' = upNext \o line
    <3>1. PICK chart \in Charts : \E line \in NewOnes(chart) : upNext' = upNext \o line
      BY <2>2
    <3>2. PICK line \in NewOnes(chart) : upNext' = upNext \o line
      BY <3>1
    <3>3. line \in Seq(Streams) /\ \A i \in 1..Len(line) : line[i] \notin played
      <4>1. chart \in Seq(Streams)
        BY MusicConstants
      <4> QED BY <4>1, ChartLine
    <3>4. upNext \in Seq(Streams) /\ \A i \in 1..Len(upNext) : upNext[i] \notin played
      BY <1>1 DEF PlayerInv, LineIsNew
    <3> DEFINE more == upNext \o line
    <3>5. more \in Seq(Streams) /\ \A i \in 1..Len(more) : more[i] \notin played
      BY <3>3, <3>4, LineMore
    <3>6. upNext' = more /\ lineFor' = song /\ track = song
      BY <2>2, <3>2 DEF StillPlays
    <3> HIDE DEF more
    <3> QED BY <1>2, <3>5, <3>6 DEF LineIsNew, LineIsItsOwn
  <2> QED BY <2>1, <2>2 DEF Fetched
<1>5. HeldIsWhole' /\ SoundIsAsShown'
  BY <1>1, <1>2 DEF PlayerInv, HeldIsWhole, SoundIsAsShown
<1>6. PlayerInv'
  BY <1>1, <1>2, <1>3, <1>4, <1>5 DEF PlayerInv
<1> QED BY <1>2, <1>6, Untold

LEMMA CardSteps ==
  ASSUME MusicInv, RunsOut \/ BreaksOff
  PROVE  MusicInv'
<1>1. PlayerInv
  BY DEF MusicInv
<1>2. UNCHANGED <<track, paused, cued, autoplay, upNext, played, unpublished, fetching, room, tile, left, failed, lineFor>>
  BY DEF RunsOut, BreaksOff, carded
<1>3. /\ out' \in [song : Songs \cup {NoSong}, held : BOOLEAN, over : BOOLEAN, broken : BOOLEAN]
      /\ out'.song = out.song /\ out'.held = out.held
      /\ out'.over => out.over \/ (~out.held /\ out.song # NoSong)
  BY <1>1 DEF PlayerInv, RunsOut, BreaksOff
<1>4. HeldIsWhole'
  BY <1>1, <1>2, <1>3 DEF PlayerInv, HeldIsWhole, SoundIsAsShown
<1>5. LineIsNew' /\ SoundIsAsShown' /\ LineIsItsOwn'
  BY <1>1, <1>2, <1>3 DEF PlayerInv, LineIsNew, SoundIsAsShown, LineIsItsOwn
<1>6. PlayerInv'
  BY <1>1, <1>2, <1>3, <1>4, <1>5 DEF PlayerInv
<1> QED BY <1>2, <1>6, Untold
(* The end of a song: opened again, followed by another, or put away.       *)
LEMMA Ends ==
  ASSUME MusicInv, CheckEnd
  PROVE  /\ PlayerInv' /\ autoplay' = autoplay
         /\ left' \in [refusals : 0..MaxRefusals, asked : 0..MaxAsked]
         /\ track' # track => track' \notin played
<1>1. PlayerInv /\ BoundsInv /\ out.over /\ track # NoSong /\ ~paused
  BY DEF MusicInv, CheckEnd, Ended
<1>2. cued = "no" /\ ~Released(ReplySaid)
  BY <1>1 DEF PlayerInv, HeldIsWhole, Released
<1>3. PICK bad \in BOOLEAN : Trouble(bad) /\ ((~bad /\ Reopens) \/ CarriesOn(bad) \/ Ceases(bad))
  BY DEF CheckEnd
<1>4. left' \in [refusals : 0..MaxRefusals, asked : 0..MaxAsked]
  BY <1>1, <1>3, Spending
<1>5. CASE Reopens
  <2>1. /\ out' = Opened(track, FALSE) /\ failed' = FALSE /\ cued' = "no"
        /\ UNCHANGED <<track, paused, autoplay, upNext, played, fetching, lineFor>>
    BY <1>2, <1>5 DEF Reopens, LetGo
  <2>2. /\ out' \in [song : Songs \cup {NoSong}, held : BOOLEAN, over : BOOLEAN, broken : BOOLEAN]
        /\ out'.song = track /\ out'.held = FALSE
    BY <1>1, <2>1 DEF Opened, PlayerInv
  <2>3. HeldIsWhole' /\ LineIsNew' /\ SoundIsAsShown' /\ LineIsItsOwn'
    BY <1>1, <2>1, <2>2 DEF PlayerInv, HeldIsWhole, LineIsNew, SoundIsAsShown, LineIsItsOwn
  <2>4. PlayerInv'
    BY <1>1, <2>1, <2>2, <2>3 DEF PlayerInv
  <2> QED BY <1>4, <2>1, <2>4
<1>6. CASE CarriesOn(bad)
  <2>1. PICK next \in Following(bad) : next[1] # NoSong /\ Start(next[1], FALSE)
    BY <1>6 DEF CarriesOn
  <2>2. next[1] \in Songs /\ next[1] \notin played
    BY <1>1, <2>1, FollowingIs
  <2> QED BY <1>1, <1>4, <2>1, <2>2, Starts
<1>7. CASE Ceases(bad)
  <2>1. /\ track' = NoSong /\ paused' = FALSE /\ out' = CannotOpen /\ cued' = "no"
        /\ UNCHANGED <<autoplay, played, fetching, failed, lineFor>>
    BY <1>2, <1>7 DEF Ceases, LetGo
  <2>2. upNext' \in Seq(Streams) /\ \A i \in 1..Len(upNext') : upNext'[i] \notin played
    <3>1. CASE upNext' = upNext
      BY <1>1, <3>1 DEF PlayerInv, LineIsNew
    <3>2. CASE \E next \in Following(bad) : upNext' = next[2]
      <4>1. PICK next \in Following(bad) : upNext' = next[2]
        BY <3>2
      <4> QED BY <1>1, <4>1, FollowingIs
    <3> QED BY <1>7, <3>1, <3>2 DEF Ceases
  <2>3. /\ out' \in [song : Songs \cup {NoSong}, held : BOOLEAN, over : BOOLEAN, broken : BOOLEAN]
        /\ out'.song = NoSong
    BY <1>1, <2>1 DEF CannotOpen, Closed, PlayerInv
  <2>4. HeldIsWhole' /\ LineIsNew' /\ SoundIsAsShown' /\ LineIsItsOwn'
    BY <2>1, <2>2, <2>3 DEF HeldIsWhole, LineIsNew, SoundIsAsShown, LineIsItsOwn
  <2>5. PlayerInv'
    BY <1>1, <2>1, <2>2, <2>3, <2>4 DEF PlayerInv
  <2>6. NoSong \notin played
    BY <1>1, MusicConstants DEF PlayerInv
  <2> QED BY <1>4, <2>1, <2>5, <2>6
<1> QED BY <1>3, <1>5, <1>6, <1>7

LEMMA Checks ==
  ASSUME MusicInv, Check
  PROVE  MusicInv'
<1>1. PlayerInv /\ BoundsInv /\ BoardInv
  BY DEF MusicInv
<1>2. /\ tile' = (IF unpublished \/ Released(ReplySaid) \/ Moment' # Moment THEN State' ELSE tile)
      /\ unpublished' = FALSE /\ room' = room
  BY DEF Check
<1>3. PlayerInv' /\ left' \in [refusals : 0..MaxRefusals, asked : 0..MaxAsked]
  <2>1. CASE CheckEnd
    BY <2>1, Ends
  <2>2. CASE CheckRoom
    <3> DEFINE go == Released(ReplySaid)
    <3>1. /\ cued' = (IF go THEN "no" ELSE cued) /\ out' = (IF go THEN [out EXCEPT !.held = FALSE] ELSE out)
          /\ UNCHANGED <<track, paused, autoplay, upNext, played, fetching, failed, lineFor>> /\ left' = left
      BY <2>2 DEF CheckRoom, LetGo
    <3>2. go \in BOOLEAN /\ (go => cued # "no")
      BY DEF Released
    <3> HIDE DEF go
    <3>3. PlayerInv'
      BY <1>1, <3>1, <3>2, LetsGo
    <3> QED BY <1>1, <3>1, <3>3 DEF BoundsInv
  <2> QED BY <2>1, <2>2 DEF Check
<1>4. BoundsInv'
  BY <1>1, <1>2, <1>3 DEF BoundsInv
<1>5. BoardInv'
  <2>1. CASE unpublished \/ Released(ReplySaid) \/ Moment' # Moment
    <3>1. Publish
      BY <1>2, <2>1 DEF Publish
    <3> QED BY <1>2, <1>3, <3>1, Published DEF BoardInv
  <2>2. CASE ~(unpublished \/ Released(ReplySaid) \/ Moment' # Moment)
    <3>1. tile' = tile /\ ~unpublished /\ Moment' = Moment
      BY <1>2, <2>2
    <3>2. /\ track' = track /\ paused' = paused /\ autoplay' = autoplay
          /\ (cued = "no" <=> cued' = "no")
      BY <3>1 DEF Moment
    <3> QED BY <1>1, <1>2, <3>1, <3>2, SameTile DEF BoardInv
  <2> QED BY <2>1, <2>2
<1> QED BY <1>3, <1>4, <1>5 DEF MusicInv

LEMMA MusicSteps == MusicInv /\ [MusicNext]_musicVars => MusicInv'
<1> SUFFICES ASSUME MusicInv, [MusicNext]_musicVars PROVE MusicInv'
  OBVIOUS
<1>1. CASE OnRequest \/ OnReply \/ OnSpeech \/ WindowPasses \/ TimePasses
  BY <1>1, RoomSteps
<1>2. CASE (\E song \in Songs : Play(song)) \/ PlayRefused
  BY <1>2, Plays
<1>3. CASE Pause \/ Stop
  BY <1>3, Holds
<1>4. CASE Resume \/ ResumeRefused
  BY <1>4, Resumes
<1>5. CASE Skip \/ SkipRefused
  BY <1>5, Skips
<1>6. CASE SetAutoplay \/ Restarts
  BY <1>6, Settings
<1>7. CASE \E song \in Streams : Fetched(song)
  BY <1>7, Fetches
<1>8. CASE RunsOut \/ BreaksOff
  BY <1>8, CardSteps
<1>9. CASE Check
  BY <1>9, Checks
<1>10. CASE UNCHANGED musicVars
  <2>1. UNCHANGED <<track, paused, cued, autoplay, upNext, played, unpublished, fetching, out, room, tile, left,
                    failed, lineFor>>
    BY <1>10 DEF musicVars
  <2>2. PlayerInv'
    BY <2>1 DEF MusicInv, PlayerInv, HeldIsWhole, LineIsNew, SoundIsAsShown, LineIsItsOwn
  <2> QED BY <2>1, <2>2, Untold
<1> QED BY <1>1, <1>2, <1>3, <1>4, <1>5, <1>6, <1>7, <1>8, <1>9, <1>10 DEF MusicNext

(* The buttons of a tile that says what the player does.                    *)
LEMMA ButtonsOf ==
  ASSUME MusicInv
  PROVE  ButtonsWork
<1> SUFFICES ASSUME ~unpublished PROVE Buttons(tile) \subseteq Accepted
  BY DEF ButtonsWork
<1>1. PlayerInv /\ tile \in Tiles /\ [tile EXCEPT !.upNext = NoSong] = [State EXCEPT !.upNext = NoSong]
  BY DEF MusicInv, BoardInv, TileIsTrue
<1>2. /\ tile.playing = (track # NoSong /\ ~paused /\ cued = "no")
      /\ tile.paused = paused /\ tile.track = track
  BY <1>1 DEF State, Tiles
<1>3. /\ tile.playing => CanPause /\ CanStop
      /\ tile.paused => CanResume /\ CanStop
  BY <1>1, <1>2 DEF CanPause, CanResume, CanStop, PlayerInv
<1> QED BY <1>3 DEF Buttons, Accepted

(* The player's state is well formed, and what holds of it in every state.  *)
LEMMA MusicInvImplies ==
  MusicInv => MusicTypeOK /\ SoundIsAsShown /\ LineIsItsOwn /\ TileIsTrue /\ ButtonsWork
<1> SUFFICES ASSUME MusicInv
    PROVE MusicTypeOK /\ SoundIsAsShown /\ LineIsItsOwn /\ TileIsTrue /\ ButtonsWork
  OBVIOUS
<1>1. PlayerInv /\ BoundsInv /\ BoardInv
  BY DEF MusicInv
<1>2. tile.paused \in BOOLEAN
  BY <1>1 DEF BoardInv, Tiles
<1>3. MusicTypeOK
  BY <1>1, <1>2 DEF PlayerInv, BoundsInv, BoardInv, MusicTypeOK
<1> QED BY <1>1, <1>3, ButtonsOf DEF PlayerInv, BoardInv

(* In every run of the player: the sound is the shown song's, songs are      *)
(* lined up only behind the one they were fetched for, the board shows the   *)
(* player's state or is about to, no button is offered that it would refuse, *)
(* and left alone it starts no song of its line again                        *)
(* (devices/music/__init__.py, MusicRemote.tsx).                             *)
THEOREM MusicKept == MusicSpec => MusicIsAsShown
<1>1. MusicInit => MusicInv
  BY MusicStarts
<1>2. MusicInv /\ [MusicNext]_musicVars => MusicInv'
  BY MusicSteps
<1>3. MusicInv => MusicTypeOK /\ SoundIsAsShown /\ LineIsItsOwn /\ TileIsTrue /\ ButtonsWork
  BY MusicInvImplies
<1>4. MusicInv => [CheckEnd /\ track' # track => track' \notin played]_musicVars
  BY Ends
<1> QED BY <1>1, <1>2, <1>3, <1>4, PTL DEF MusicSpec, MusicIsAsShown, NothingComesBack
=============================================================================
