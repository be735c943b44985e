----------------------------- MODULE ProfilePlan -----------------------------
(***************************************************************************)
(* From a configuration to the programming of the mouse, and back: the     *)
(* schema (validate_config), the compiler (build_plan, with the allocator  *)
(* of MacroAllocator), and the structural validation of the whole memory   *)
(* (validate_images, with the walker of MacroVm), which after an apply is  *)
(* what reads the plan back.  Memories that the compiler did not write,    *)
(* such as G HUB's or a backup's, go to the validation alone.              *)
(***************************************************************************)
EXTENDS MacroAllocator, MacroVm, Actions

CONSTANTS
  Programmable,   \* PROGRAMMABLE_PROFILES
  Targets,        \* the targets of a profile, in the order of their names
  Wheels,         \* WHEEL_DOWN and WHEEL_UP
  Configs,        \* configurations to apply
  Goldens,        \* baselines to apply them to
  Foreign         \* memories written by something else

ASSUME ControlsAssumption == {""} \union Keys \union Mods \union ConsumerUsages \subseteq Controls

ASSUME TargetsAssumption ==
  Targets \in Seq(STRING) /\ Wheels \subseteq {Targets[n] : n \in DOMAIN Targets}

VARIABLES
  phase,     \* "config", "build", "allocate", "validate", "walk", "report", "refused"
  config,    \* the configuration; without profiles for a foreign memory
  golden,    \* the baseline
  image,     \* directory and profiles of the memory
  pending,   \* macro_starts that are still to be walked
  defects,   \* the errors of the report
  why        \* what refused the configuration

plan == <<phase, config, golden, image, pending, defects, why>>
vars == <<memory, allocation, walk, plan>>

Safe == 1
Slots == 5
Rates == {125, 250, 500, 1000}
DpiValues == 1 .. 65535
TargetSet == {Targets[n] : n \in DOMAIN Targets}
Layers == {"NORMAL", "GSHIFT"}
Routes == Layers \X TargetSet

Slot(kind, place) == [kind |-> kind, place |-> place]
Direct == Slot("direct", NoPlace)
Noop == Slot("noop", NoPlace)
GShift == Slot("gshift", NoPlace)

NoConfig == [profiles |-> <<>>]

ASSUME ProfilesAssumption == IsFiniteSet(Programmable) /\ Programmable \subseteq Nat \ {Safe}

\* What a memory holds: a directory, the recovery image, profiles and pages.
Profiles ==
  [table : [Routes -> [kind : STRING, place : Nat \X Nat]],
   dpi : [1 .. Slots -> Nat], rate : Nat, default : Nat, shift : Nat, crc : BOOLEAN]
Images ==
  [enabled : SUBSET (Programmable \union {Safe}), recovered : BOOLEAN,
   profiles : [Programmable -> Profiles]]
Memories ==
  [image : Images, pages : [Addressable -> [Offsets -> Bytes]], crc : [Addressable -> BOOLEAN]]

ASSUME MemoriesAssumption == Goldens \union Foreign \subseteq Memories

\* The setup takes no baseline with defects (device.py:586); what it says of
\* the profiles that are enabled there is not needed.
ASSUME GoldensAssumption ==
  \A g \in Goldens :
    g.image.recovered /\ \A p \in Programmable : g.image.profiles[p].crc

ASSUME ConfigsAssumption ==
  \A c \in Configs : \A p \in DOMAIN c.profiles :
    LET b == c.profiles[p] IN
    /\ \A layer \in {b.buttons, b.shifted} : \A t \in DOMAIN layer : layer[t] \in Bindings
    /\ "dpi" \in DOMAIN b.settings => b.settings.dpi \in Seq(Int)

Init ==
  /\ \/ phase = "config" /\ config \in Configs /\ golden \in Goldens
     \/ phase = "validate" /\ config = NoConfig /\ golden \in Foreign
  /\ image = golden.image /\ pages = golden.pages /\ crc = golden.crc
  /\ AllocationInit /\ WalkInit
  /\ pending = {} /\ defects = {} /\ why = "nothing"

(***************************************************************************)
(* validate_config.                                                        *)
(***************************************************************************)
\* (Mutant of SettingsOK: the defaults are not looked for in the list.)
SettingsAlone(s) ==
  /\ "rate" \in DOMAIN s => s.rate \in Rates
  /\ "dpi" \in DOMAIN s => Len(s.dpi) \in 1 .. Slots
  /\ \A k \in DOMAIN s \intersect {"default_dpi", "shift_dpi"} : s[k] \in DpiValues

SettingsOK(s) ==
  /\ "rate" \in DOMAIN s => s.rate \in Rates
  /\ "dpi" \in DOMAIN s => Len(s.dpi) \in 1 .. Slots /\ \A n \in DOMAIN s.dpi : s.dpi[n] \in DpiValues
  /\ \A k \in DOMAIN s \intersect {"default_dpi", "shift_dpi"} :
       /\ s[k] \in DpiValues
       /\ "dpi" \in DOMAIN s => \E n \in DOMAIN s.dpi : s.dpi[n] = s[k]

LayerOK(layer, shifted) ==
  \A t \in DOMAIN layer :
    /\ t \in TargetSet /\ SchemaAccepts[layer[t]]
    /\ t \in Wheels => shifted /\ IsConsumer(layer[t])

BlockOK(b) ==
  /\ LayerOK(b.buttons, FALSE) /\ LayerOK(b.shifted, TRUE) /\ SettingsOK(b.settings)
  /\ IF b.activator = "none" THEN DOMAIN b.shifted = {}
     ELSE b.activator \in TargetSet \ Wheels /\ b.activator \notin DOMAIN b.buttons

ConfigOK(c) ==
  LET numbers == DOMAIN c.profiles IN
  /\ numbers \subseteq Programmable /\ 2 \in numbers
  /\ \A p \in numbers : BlockOK(c.profiles[p])

Refused(reason) ==
  /\ phase' = "refused" /\ why' = reason
  /\ UNCHANGED <<config, golden, image, pending, defects>>

ValidateConfig ==
  /\ phase = "config"
  /\ IF ConfigOK(config)
     THEN phase' = "build" /\ UNCHANGED <<config, golden, image, pending, defects, why>>
     ELSE Refused("schema")
  /\ UNCHANGED <<memory, allocation, walk>>

(***************************************************************************)
(* build_plan.                                                             *)
(***************************************************************************)
\* What the configuration binds: profile, layer, target.
Layer(p, l) == IF l = "NORMAL" THEN config.profiles[p].buttons ELSE config.profiles[p].shifted
Bound == {r \in (DOMAIN config.profiles) \X Layers \X TargetSet : r[3] \in DOMAIN Layer(r[1], r[2])}
ActionOf(r) == Layer(r[1], r[2])[r[3]]
MacroOf(r) == ActionCode[ActionOf(r)] \o <<End>>

\* By profile, then by the name of the layer, then by that of the target.
Rank(r) ==
  <<r[1], IF r[2] = "GSHIFT" THEN 0 ELSE 1, CHOOSE n \in DOMAIN Targets : Targets[n] = r[3]>>
Ahead(q, r) ==
  LET x == Rank(q)
      y == Rank(r)
  IN  \/ x[1] < y[1]
      \/ x[1] = y[1] /\ x[2] < y[2]
      \/ x[1] = y[1] /\ x[2] = y[2] /\ x[3] < y[3]

\* Equal macros are placed once, where the first route needs them.
MacroRoutes == {r \in Bound : ~IsDirect(ActionOf(r))}
FirstRoutes ==
  {r \in MacroRoutes : \A q \in MacroRoutes : Ahead(q, r) => MacroOf(q) # MacroOf(r)}
Unique ==
  [n \in 1 .. Cardinality(FirstRoutes) |->
     MacroOf(CHOOSE r \in FirstRoutes : Cardinality({q \in FirstRoutes : Ahead(q, r)}) = n - 1)]

Build ==
  /\ phase = "build"
  /\ IF \A r \in Bound : Binds(ActionOf(r))
     THEN /\ Allocate(Unique)
          /\ phase' = "allocate" /\ UNCHANGED <<config, golden, image, pending, defects, why>>
     ELSE Refused("action") /\ UNCHANGED <<memory, allocation>>
  /\ UNCHANGED walk

AllocateStep == phase = "allocate" /\ Allocation /\ UNCHANGED <<walk, plan>>

AllocationFails ==
  /\ phase = "allocate" /\ outcome \notin {"busy", "done"}
  /\ Refused(outcome) /\ UNCHANGED <<memory, allocation, walk>>

\* (Mutant of Neutral: only the pointers into the pages of the compiler.)
NeutralGlobal(b) == IF b.kind = "macro" /\ b.place[1] \in Global THEN Noop ELSE b

\* A pointer into the store the plan rewrites must not survive.
Neutral(b) == IF b.kind = "macro" /\ b.place[1] \in Addressable THEN Noop ELSE b

PointerOf(r) == Slot("macro", start[CHOOSE i \in DOMAIN macros : macros[i] = MacroOf(r)])
Table(p) ==
  [r \in Routes |->
     LET q == <<p, r[1], r[2]>> IN
     IF q \in Bound
     THEN IF IsDirect(ActionOf(q)) THEN Direct ELSE PointerOf(q)
     ELSE IF r[1] = "GSHIFT" THEN Noop
     ELSE IF r[2] = config.profiles[p].activator THEN GShift
     ELSE Neutral(golden.image.profiles[p].table[r])]

\* _apply_settings: the configured values, or what the baseline has.
Settings(p) == config.profiles[p].settings
EffectiveDpi(p) ==
  IF "dpi" \in DOMAIN Settings(p)
  THEN [n \in 1 .. Slots |-> IF n <= Len(Settings(p).dpi) THEN Settings(p).dpi[n] ELSE 0]
  ELSE golden.image.profiles[p].dpi
SlotsOf(p, key) == {n \in 1 .. Slots : EffectiveDpi(p)[n] = Settings(p)[key]}
DpiListed(p) ==
  \A key \in DOMAIN Settings(p) \intersect {"default_dpi", "shift_dpi"} : SlotsOf(p, key) # {}
Selected(p, key, old) ==
  IF key \in DOMAIN Settings(p)
  THEN CHOOSE n \in 0 .. Slots - 1 :
         n + 1 \in SlotsOf(p, key) /\ \A k \in SlotsOf(p, key) : n + 1 <= k
  ELSE old

ProfileOf(p) ==
  LET old == golden.image.profiles[p] IN
  IF p \notin DOMAIN config.profiles THEN old
  ELSE [table |-> Table(p), dpi |-> EffectiveDpi(p), crc |-> TRUE,
        rate |-> IF "rate" \in DOMAIN Settings(p) THEN Settings(p).rate ELSE old.rate,
        default |-> Selected(p, "default_dpi", old.default),
        shift |-> Selected(p, "shift_dpi", old.shift)]

\* The tables, the settings and the directory, once the macros are placed.
Assemble ==
  /\ phase = "allocate" /\ outcome = "done"
  /\ IF \A p \in DOMAIN config.profiles : DpiListed(p)
     THEN /\ image' = [golden.image EXCEPT
               !.profiles = [p \in Programmable |-> ProfileOf(p)],
               !.enabled = {Safe, 2} \union DOMAIN config.profiles]
          /\ phase' = "validate" /\ UNCHANGED <<config, golden, pending, defects, why>>
     ELSE Refused("dpi")
  /\ UNCHANGED <<memory, allocation, walk>>

(***************************************************************************)
(* validate_images.                                                        *)
(***************************************************************************)
\* (Mutant of Enabled: every profile is looked at.)
EnabledAll == Programmable

\* An invalid directory enables nothing, and nothing more is looked at.
Enabled == IF {Safe, 2} \subseteq image.enabled THEN image.enabled \ {Safe} ELSE {}

Reachable(b) == InStore(b.place) /\ At(b.place).op # "END"
SlotOK(b) ==
  /\ b.kind \notin {"unknown", "direct_unknown"}
  /\ b.kind = "macro" => Reachable(b)

GlobalDefects ==
  (IF image.recovered THEN {} ELSE {<<"recovery">>})
  \union (IF {Safe, 2} \subseteq image.enabled THEN {} ELSE {<<"directory">>})
  \union {<<"crc", p>> : p \in {q \in Programmable : ~image.profiles[q].crc}}
ProfileDefects(p) ==
  LET f == image.profiles[p] IN
  {<<"rate", p>> : x \in {f.rate} \ Rates}
  \union {<<"index", p, i>> : i \in {f.default, f.shift} \ (0 .. Slots - 1)}
  \union {<<"route", p, r>> : r \in {q \in Routes : ~SlotOK(f.table[q])}}

ValidateImages ==
  /\ phase = "validate"
  /\ defects' = GlobalDefects \union UNION {ProfileDefects(p) : p \in Enabled}
  /\ pending' = {image.profiles[q[1]].table[q[2]].place :
                   q \in {w \in Enabled \X Routes :
                            LET b == image.profiles[w[1]].table[w[2]]
                            IN  b.kind = "macro" /\ Reachable(b)}}
  /\ phase' = "walk"
  /\ UNCHANGED <<memory, allocation, walk, config, golden, image, why>>

\* The starts are walked in the order of their addresses.
NextStart ==
  /\ phase = "walk"
  /\ \E a \in pending :
       /\ \A b \in pending : a[1] < b[1] \/ (a[1] = b[1] /\ a[2] <= b[2])
       /\ StartWalk(a)
  /\ UNCHANGED <<memory, allocation, plan>>

WalkStep == phase = "walk" /\ Walk /\ UNCHANGED <<memory, allocation, plan>>

EndWalk ==
  /\ phase = "walk" /\ verdict \notin {"idle", "walking"}
  /\ pending' = pending \ {origin}
  /\ defects' = IF verdict = "accepted" THEN defects ELSE defects \union {<<"macro", origin>>}
  /\ verdict' = "idle"
  /\ UNCHANGED <<memory, allocation, origin, at, seen, chain, phase, config, golden, image, why>>

Report ==
  /\ phase = "walk" /\ verdict = "idle" /\ pending = {}
  /\ phase' = "report"
  /\ UNCHANGED <<memory, allocation, walk, config, golden, image, pending, defects, why>>

Next ==
  \/ ValidateConfig \/ Build \/ AllocateStep \/ AllocationFails \/ Assemble
  \/ ValidateImages \/ NextStart \/ WalkStep \/ EndWalk \/ Report

Spec == Init /\ [][Next]_vars

(***************************************************************************)
(* Properties.                                                             *)
(***************************************************************************)
Planned == phase \in {"validate", "walk", "report"} /\ config # NoConfig
Owns(i) == outcome = "done" /\ verdict # "idle" /\ origin = start[i]

\* Whatever the page boundaries cut, a macro of the compiler is played exactly
\* as compiled: its instructions in their order from the first to its END, with
\* nothing between them but jumps (codec.py:500-620 and 1001-1038).
PlaysAsCompiled ==
  \A i \in DOMAIN start : Owns(i) =>
    /\ verdict \in {"walking", "accepted"}
    /\ Len(chain) <= Len(macros[i])
    /\ \A n \in DOMAIN chain : chain[n] = <<i, n>>
    /\ verdict = "accepted" => chain # <<>> /\ macros[i][Len(chain)] = End

\* A macro that has been played leaves no key and no consumer control held
\* (compile_hotkey, compile_text, compile_consumer, codec.py:235-340).
NothingHeld ==
  \A i \in DOMAIN start : Owns(i) /\ verdict = "accepted" =>
    \A n \in DOMAIN chain :
      LET ins == macros[i][chain[n][2]]
          up == IF ins[1] = "KEY_DOWN" THEN KeyUp(ins[2]) ELSE <<"CONSUMER_UP", ins[2], 0>>
      IN  ins[1] \in {"KEY_DOWN", "CONSUMER_DOWN"} =>
            \E l \in n + 1 .. Len(chain) : macros[i][chain[l][2]] = up

\* Every route of the configuration does what its action says, and no enabled
\* profile points into the rewritten store but through such a route: whatever
\* the baseline pointed to is gone (codec.py:691-800).  A slot of the wheel gets
\* no macro, as config.py:193 has it, unless its action is a "Consumer" that the
\* schema reads without regard to case and the compiler does not.
RoutesAreOwn ==
  Planned =>
    /\ \A q \in Bound :
         LET b == image.profiles[q[1]].table[<<q[2], q[3]>>] IN
         IF IsDirect(ActionOf(q)) THEN b = Direct
         ELSE \E i \in DOMAIN start : b = Slot("macro", start[i]) /\ macros[i] = MacroOf(q)
    /\ \A p \in image.enabled \ {Safe}, r \in Routes :
         LET b == image.profiles[p].table[r] IN
         b.kind = "macro" /\ b.place[1] \in Addressable => <<p, r[1], r[2]>> \in Bound
    /\ \A p \in DOMAIN config.profiles, t \in Wheels :
         image.profiles[p].table[<<"GSHIFT", t>>].kind = "macro" =>
           ActionOf(<<p, "GSHIFT", t>>).action = "Consumer"

\* What a profile of the plan keeps of a baseline that nobody validated,
\* because the profile was disabled in it.
Inherits(p) ==
  LET old == golden.image.profiles[p]
      kept(t) == t \notin DOMAIN Layer(p, "NORMAL") /\ t # config.profiles[p].activator
  IN  \/ old.rate \notin Rates /\ "rate" \notin DOMAIN Settings(p)
      \/ old.default \notin 0 .. Slots - 1 /\ "default_dpi" \notin DOMAIN Settings(p)
      \/ old.shift \notin 0 .. Slots - 1 /\ "shift_dpi" \notin DOMAIN Settings(p)
      \/ \E t \in TargetSet :
           LET b == old.table[<<"NORMAL", t>>] IN
           /\ kept(t)
           /\ b.kind \in {"unknown", "direct_unknown"} \/ (b.kind = "macro" /\ b.place[1] \notin Addressable)

\* The validation that follows the writes refuses a plan of the compiler in two
\* cases exactly: a macro that does nothing but end, which an empty text makes,
\* and what a profile inherits from a part of the baseline that was disabled
\* (validator.py:58-196 against codec.py:709-855).
OnlyKnownRefusals ==
  Planned /\ phase = "report" =>
    (defects # {} <=>
       \/ \E r \in MacroRoutes : MacroOf(r) = <<End>>
       \/ \E p \in DOMAIN config.profiles : Inherits(p))

\* What config.py accepts, codec.py builds, but for what only it can know: the
\* characters of a layout, the effective DPI list, the room in the store; and
\* but for a mouse action whose name is not in lower case, which only the
\* schema takes (config.py:34-160 against codec.py:396-480 and 684-700).
SchemaIsEnough ==
  phase = "refused" /\ ConfigOK(config) =>
    \/ why = "exhausted"
    \/ why = "dpi" /\ \E p \in DOMAIN config.profiles :
                        "dpi" \notin DOMAIN Settings(p) /\ ~DpiListed(p)
    \/ why = "action" /\ \E r \in Bound :
         \/ HasUntypable[ActionOf(r)]
         \/ Lower(ActionOf(r).action) = "mouse" /\ ActionOf(r).action # "mouse"

=============================================================================
