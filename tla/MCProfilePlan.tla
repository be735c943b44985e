---------------------------- MODULE MCProfilePlan ----------------------------
(* Three pages for the compiler and one before them, of eleven bytes and a   *)
(* CRC of two; two profiles; two buttons and a wheel.                        *)
EXTENDS ProfilePlan, TLC, FiniteSetsExt

MCTargets == <<"G4", "G5", "WHEEL_UP">>
MCControls == {""} \union Keys \union Mods \union ConsumerUsages

(***************************************************************************)
(* Actions.                                                                *)
(***************************************************************************)
Wait == [action |-> "wait_for_release"]
Delay == [action |-> "delay", ms |-> 10]
Text(v, l) == [action |-> "text", value |-> v, layout |-> l]
Steps(s) == [action |-> "sequence", steps |-> s]
Named(k, c) == [action |-> k, command |-> c]
Chord(k, s) == [action |-> k, keys |-> s]
Turn(k, n) == [action |-> k, amount |-> n]

\* Sequences of instructions of one and of three bytes.
ShortSteps == UNION {[1 .. n -> {Wait, Delay}] : n \in 1 .. 3}
LongSteps ==
  {[n \in 1 .. k |-> IF n % 4 = r THEN Wait ELSE Delay] : k \in {4, 5, 7, 9}, r \in {0, 1, 4}}
Sized == {Steps(s) : s \in ShortSteps \union LongSteps}
Few == {Steps(s) : s \in {<<Wait>>, <<Wait, Wait, Delay>>, <<Delay, Delay>>,
                          [n \in 1 .. 5 |-> Delay], [n \in 1 .. 7 |-> IF n = 4 THEN Wait ELSE Delay]}}

Mixed == Steps(<<Text(<<"a", "A">>, "basic"), Steps(<<Wait, Chord("hotkey", <<"WIN", "ALT", "A">>)>>),
                 [action |-> "repeat_while_pressed"]>>)
Good ==
  {[action |-> "alias", name |-> "task_manager"], [action |-> "alias", name |-> "volume_up"],
   Chord("hotkey", <<"WIN", "TAB">>), Chord("Hotkey", <<"CTRL", "SHIFT", "ESC">>),
   [action |-> "tap", key |-> "SHIFT"], Text(<<>>, "basic"), Text(<<"question">>, "us"),
   Named("consumer", "volume_down"), Named("Consumer", "volume_up"), Named("mouse", "left"),
   Turn("wheel", -127), Turn("horizontal_wheel", 1), Mixed, Delay}
Refusable ==
  {[action |-> "alias", name |-> "none"], Chord("hotkey", <<"CTRL">>), Chord("hotkey", <<"A", "B">>),
   Chord("hotkey", <<"CTRL", "ALT">>), [action |-> "tap", key |-> "F13"], Text(<<"question">>, "basic"),
   Text(<<"accent">>, "us"), Text(<<"a">>, "US"), [action |-> "delay", ms |-> 65536],
   Named("consumer", "play"), Named("Mouse", "right"), Turn("wheel", 0), Turn("hpan", 1),
   Steps(<<>>), Steps(<<Named("mouse", "left")>>), [action |-> "run"]}

RECURSIVE WithSteps(_)
WithSteps(a) ==
  {a} \union (IF a.action # "sequence" THEN {}
              ELSE UNION {WithSteps(a.steps[n]) : n \in DOMAIN a.steps})
MCBindings == UNION {WithSteps(a) : a \in Sized \union Few \union Good \union Refusable}

RECURSIVE Nested(_)
Nested(a) ==
  IF a.action # "sequence" THEN 0
  ELSE 1 + Max({0} \union {Nested(a.steps[n]) : n \in DOMAIN a.steps})
MCDepth == [a \in MCBindings |-> Nested(a)]

(***************************************************************************)
(* Configurations.                                                         *)
(***************************************************************************)
Nothing == [t \in {} |-> Wait]
Plain(buttons) ==
  [buttons |-> buttons, shifted |-> Nothing, activator |-> "none", settings |-> [x \in {} |-> 0]]
Only(b) == [profiles |-> 2 :> b]

SizedConfigs ==
  {Only(Plain("G4" :> a @@ "G5" :> b)) : a, b \in Sized}
  \union {Only([Plain("G5" :> c) EXCEPT !.shifted = "G4" :> a @@ "G5" :> b, !.activator = "G4"]) :
            a, b, c \in Few}
  \union {[profiles |-> 2 :> [Plain("G5" :> Steps(<<Wait>>)) EXCEPT !.activator = "G4",
                                !.shifted = "G4" :> Steps(<<Wait, Wait>>) @@ "G5" :> Steps(<<Wait, Wait, Wait>>)]
                         @@ 3 :> Plain("G4" :> a)] : a \in Few \union {Delay}}

\* One action on a button and on the shifted wheel; twice in two profiles.
ActionConfigs ==
  {Only(Plain("G4" :> a)) : a \in Good \union Refusable}
  \union {Only([Plain(Nothing) EXCEPT !.shifted = "WHEEL_UP" :> a, !.activator = "G5"]) : a \in Good}
  \union {[profiles |-> 2 :> Plain("G4" :> a) @@ 3 :> Plain("G5" :> b)] : a \in Good, b \in {Mixed, Delay}}

SettingsChoices ==
  {[rate |-> 1000], [rate |-> 333], [dpi |-> <<>>], [dpi |-> <<400>>], [default_dpi |-> 800],
   [default_dpi |-> 900], [dpi |-> <<400, 400>>, default_dpi |-> 400, shift_dpi |-> 400, rate |-> 125],
   [dpi |-> <<400>>, shift_dpi |-> 800], [dpi |-> <<1, 2, 3, 4, 5, 6>>],
   [rate |-> 250, default_dpi |-> 800, shift_dpi |-> 1600]}
BlockConfigs ==
  {[profiles |-> 2 :> Plain(Nothing) @@ 3 :> [Plain(x) EXCEPT !.settings = s]] :
     s \in SettingsChoices, x \in {Nothing, "G5" :> Delay}}
  \union {Only([buttons |-> "G4" :> Wait, shifted |-> s, activator |-> k, settings |-> [x \in {} |-> 0]]) :
            s \in {Nothing, "G5" :> Delay, "WHEEL_UP" :> Wait}, k \in {"none", "G4", "G5", "WHEEL_UP", "G10"}}
  \union {[profiles |-> 3 :> Plain(Nothing)], [profiles |-> 1 :> Plain(Nothing) @@ 2 :> Plain(Nothing)],
          Only(Plain("WHEEL_UP" :> Named("consumer", "volume_down"))), Only(Plain("G10" :> Wait))}

MCConfigs == SizedConfigs \union ActionConfigs \union BlockConfigs

(***************************************************************************)
(* Baselines: profile 3 was disabled, so nothing is known of it.           *)
(***************************************************************************)
Profile(g4, g5) ==
  [table |-> [r \in Routes |-> IF r[1] = "GSHIFT" \/ r[2] = "WHEEL_UP" THEN Slot("unused", NoPlace)
                               ELSE IF r[2] = "G4" THEN g4 ELSE g5],
   dpi |-> <<800, 1600, 0, 0, 0>>, crc |-> TRUE, rate |-> 500, default |-> 1, shift |-> 0]
Image(p3) ==
  [enabled |-> {1, 2}, recovered |-> TRUE,
   profiles |-> [p \in Programmable |->
                   IF p = 2 THEN Profile(Direct, Slot("macro", <<7, 0>>)) ELSE p3]]
Baseline(p3) ==
  [image |-> Image(p3), crc |-> [s \in Addressable |-> FALSE],
   pages |-> [s \in Addressable |-> [o \in Offsets |->
                IF s = 7 /\ o = 0 THEN Byte("ONE", NoPlace, NoPlace) ELSE Erased]]]
Kept == Profile(Slot("macro", <<9, 0>>), Direct)
SoundBaseline == Baseline(Kept)
Odd ==
  {[Kept EXCEPT !.rate = 0], [Kept EXCEPT !.default = 7],
   Profile(Direct, Slot("macro", <<0, 0>>)), Profile(Slot("direct_unknown", NoPlace), Direct)}
MCGoldens == {SoundBaseline} \union {Baseline(p) : p \in Odd}

(***************************************************************************)
(* Memories of other writers: one macro of profile 2, two written pages.   *)
(***************************************************************************)
Raw(op) == Byte(op, NoPlace, NoPlace)
To(s, o) == Byte("JUMP", <<s, o>>, NoPlace)
Page(x, y, z) ==
  [o \in Offsets |-> IF o = 0 THEN x ELSE IF o = 3 THEN y
                     ELSE IF o = SectorSize - 1 THEN z ELSE Raw("THREE")]
Heads == {Raw("ONE"), Raw("THREE"), To(8, 0), To(7, 1), To(8, PageData)}
Tails == {Raw("END"), Raw("BAD"), To(7, 0), To(7, 3)}
OtherPages == {Page(x, y, z) : x \in Heads, y \in Heads \union Tails, z \in {Raw("END"), Raw("ONE")}}
Other(a, first, second, c) ==
  [image |-> [Image(Kept) EXCEPT !.profiles[2] = Profile(Slot("macro", a), Direct)],
   crc |-> [s \in Addressable |-> s \in c],
   pages |-> [s \in Addressable |-> IF s = 7 THEN first ELSE IF s = 8 THEN second ELSE ErasedPage]]
Broken ==
  LET f == Other(<<7, 0>>, Page(Raw("ONE"), Raw("END"), Raw("END")), ErasedPage, {}) IN
  {[f EXCEPT !.image.enabled = {1, 3}], [f EXCEPT !.image.recovered = FALSE],
   [f EXCEPT !.image.profiles[3].crc = FALSE], [f EXCEPT !.image.enabled = {1, 2, 3}],
   [f EXCEPT !.image.profiles[2].table[<<"NORMAL", "G5">>].kind = "unknown"]}
MCForeign ==
  Broken \union
  {Other(a, first, Page(To(7, 3), y, Raw("END")), c) :
     a \in {<<7, 0>>, <<7, 2>>, <<8, 3>>, <<8, SectorSize - 1>>}, first \in OtherPages,
     y \in Tails, c \in {{}, {7}, {8}}}
=============================================================================
