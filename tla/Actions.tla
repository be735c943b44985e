------------------------------- MODULE Actions -------------------------------
(***************************************************************************)
(* The actions of a configuration: what the schema of config.py accepts    *)
(* and what codec.py makes of them, a direct binding or the instructions   *)
(* of a macro.  An action is a record as in the JSON file.  Keys,          *)
(* characters and commands are a few members of the tables of constants.py *)
(* and names that are in none of them.                                     *)
(***************************************************************************)
EXTENDS Integers, SequencesExt

CONSTANTS
  Bindings,   \* the actions considered, with every step of a sequence
  Depth       \* how deeply the sequences of an action are nested

ASSUME BindingsAssumption ==
  /\ Depth \in [Bindings -> Nat]
  /\ \A a \in Bindings : a.action = "sequence" =>
       \A n \in DOMAIN a.steps : a.steps[n] \in Bindings /\ Depth[a.steps[n]] < Depth[a]

Mods == {"CTRL", "SHIFT", "ALT", "WIN"}
Keys == {"A", "B", "C", "1", "TAB", "ESC", "/"}
ConsumerUsages == {"volume_up", "volume_down"}
MouseMasks == {"left", "right"}
Aliases ==
  [copy |-> [action |-> "hotkey", keys |-> <<"CTRL", "C">>],
   task_manager |-> [action |-> "hotkey", keys |-> <<"CTRL", "SHIFT", "ESC">>],
   volume_up |-> [action |-> "consumer", command |-> "volume_up"]]

\* The name of an action as it is compared by most of the code, but not by
\* direct_keyboard_binding and its two neighbours.
Lower(name) ==
  IF name \in {"Hotkey", "Consumer", "Mouse"}
  THEN [Hotkey |-> "hotkey", Consumer |-> "consumer", Mouse |-> "mouse"][name]
  ELSE name

\* The fields of an action have the JSON types that the schema looks at first.
ASSUME FieldsAssumption ==
  \A a \in Bindings :
    LET kind == Lower(a.action) IN
    /\ kind = "hotkey" => a.keys \in Seq(STRING)
    /\ kind = "text" => a.value \in Seq(STRING)
    /\ kind = "sequence" => a.steps \in Seq(Bindings)
    /\ kind = "delay" => a.ms \in Int
    /\ kind \in {"wheel", "hpan", "horizontal_wheel"} => a.amount \in Int

\* An alias is a string in the file, an action of this name here.
IsAlias(a) == a.action = "alias"
Normal(a) == IF IsAlias(a) /\ a.name \in DOMAIN Aliases THEN Aliases[a.name] ELSE a

HotkeyOK(keys) ==
  /\ Len(keys) >= 2
  /\ \A n \in 1 .. Len(keys) - 1 : keys[n] \in Mods
  /\ keys[Len(keys)] \in Keys \ Mods

AmountOK(n) == n # 0 /\ -127 <= n /\ n <= 127
DelayOK(ms) == 0 <= ms /\ ms <= 65535

(***************************************************************************)
(* The schema.                                                             *)
(***************************************************************************)
AcceptsSimple(a) ==
  LET kind == Lower(a.action) IN
  \/ IsAlias(a) /\ a.name \in DOMAIN Aliases
  \/ kind = "hotkey" /\ HotkeyOK(a.keys)
  \/ kind = "tap" /\ a.key \in Keys \union Mods
  \/ kind = "text" /\ a.layout \in {"basic", "us"}
  \/ kind = "delay" /\ DelayOK(a.ms)
  \/ kind = "consumer" /\ a.command \in ConsumerUsages
  \/ kind = "mouse" /\ a.command \in MouseMasks
  \/ kind \in {"wheel", "horizontal_wheel"} /\ AmountOK(a.amount)
  \/ kind \in {"wait_for_release", "repeat_while_pressed"}

SchemaAccepts[a \in Bindings] ==
  \/ AcceptsSimple(a)
  \/ /\ a.action = "sequence" /\ a.steps # <<>>
     /\ \A n \in DOMAIN a.steps :
          SchemaAccepts[a.steps[n]] /\ Lower(a.steps[n].action) # "mouse"

IsConsumer(a) == Lower(Normal(a).action) = "consumer"

(***************************************************************************)
(* The compiler.                                                           *)
(***************************************************************************)
\* An instruction: its opcode, the key or command, the amount or the time.
KeyDown(k) == <<"KEY_DOWN", k, 0>>
KeyUp(k) == <<"KEY_UP", k, 0>>
Tap(k) == <<KeyDown(k), KeyUp(k)>>

\* (Mutant of HotkeyCode: the modifiers stay down.)
HeldCode(keys) == [n \in 1 .. Len(keys) |-> KeyDown(keys[n])] \o <<KeyUp(keys[Len(keys)])>>

\* The keys go down in their order and up in the reverse one.
HotkeyCode(keys) ==
  [n \in 1 .. Len(keys) |-> KeyDown(keys[n])] \o Reverse([n \in 1 .. Len(keys) |-> KeyUp(keys[n])])

\* A letter, its capital, a punctuation mark of the US layout.
TextKeys ==
  [a |-> <<"A">>, A |-> <<"SHIFT", "A">>, question |-> <<"SHIFT", "/">>]
Typable(ch, layout) ==
  ch \in DOMAIN TextKeys /\ (ch = "question" => layout \in {"us", "US"})
TextCode(value) == FlattenSeq([n \in DOMAIN value |-> HotkeyCode(TextKeys[value[n]])])

CompilesSimple(a) ==
  LET kind == Lower(a.action) IN
  \/ IsAlias(a) /\ a.name \in DOMAIN Aliases
  \/ kind = "hotkey" /\ HotkeyOK(a.keys)
  \/ kind = "tap" /\ a.key \in Keys \union Mods
  \/ /\ kind = "text" /\ a.layout \in {"basic", "us", "US"}
     /\ \A n \in DOMAIN a.value : Typable(a.value[n], a.layout)
  \/ kind = "delay" /\ DelayOK(a.ms)
  \/ kind = "consumer" /\ a.command \in ConsumerUsages
  \/ kind \in {"wheel", "hpan", "horizontal_wheel"} /\ AmountOK(a.amount)
  \/ kind \in {"wait_for_release", "repeat_while_pressed"}

Compiles[a \in Bindings] ==
  \/ CompilesSimple(a)
  \/ a.action = "sequence" /\ a.steps # <<>> /\ \A n \in DOMAIN a.steps : Compiles[a.steps[n]]

KeyCode(b) ==
  IF Lower(b.action) = "hotkey" THEN HotkeyCode(b.keys)
  ELSE IF b.action = "tap" THEN Tap(b.key)
  ELSE IF b.action = "text" THEN TextCode(b.value)
  ELSE <<<<"CONSUMER_DOWN", b.command, 0>>, <<"CONSUMER_UP", b.command, 0>>>>

SingleCode(b) ==
  IF b.action = "delay" THEN <<"DELAY", "", b.ms>>
  ELSE IF b.action = "wheel" THEN <<"ROLLER", "", b.amount>>
  ELSE IF b.action \in {"hpan", "horizontal_wheel"} THEN <<"ACPAN", "", b.amount>>
  ELSE IF b.action = "wait_for_release" THEN <<"WAIT_FOR_RELEASE", "", 0>>
  ELSE <<"REPEAT_WHILE_PRESSED", "", 0>>

\* The code of an action that compiles.
Compiled == {b \in Bindings : Compiles[b]}
ActionCode[a \in Compiled] ==
  LET b == Normal(a) IN
  IF b.action = "sequence"
  THEN FlattenSeq([n \in DOMAIN b.steps |-> ActionCode[b.steps[n]]])
  ELSE IF Lower(b.action) \in {"hotkey", "tap", "text", "consumer"} THEN KeyCode(b)
  ELSE <<SingleCode(b)>>

\* The bindings that need no macro look at the name of the action as written.
DirectKeyboard(b) ==
  /\ b.action = "hotkey" /\ Len(b.keys) >= 2
  /\ b.keys[Len(b.keys)] \in Keys \ Mods
  /\ \A n \in 1 .. Len(b.keys) - 1 : b.keys[n] \in {"CTRL", "SHIFT", "ALT"}
IsDirect(a) ==
  LET b == Normal(a) IN
  \/ DirectKeyboard(b)
  \/ b.action = "consumer" /\ b.command \in ConsumerUsages
  \/ b.action = "mouse" /\ b.command \in MouseMasks

\* compile_binding: neither host actions nor unknown names get this far.
Binds(a) == IsDirect(a) \/ Compiles[a]

\* A text, or a step of a sequence, with a character its layout does not have.
HasUntypable[a \in Bindings] ==
  \/ a.action = "text" /\ \E n \in DOMAIN a.value : ~Typable(a.value[n], a.layout)
  \/ a.action = "sequence" /\ \E n \in DOMAIN a.steps : HasUntypable[a.steps[n]]
=============================================================================
