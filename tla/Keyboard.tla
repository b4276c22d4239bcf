------------------------------ MODULE Keyboard ------------------------------
(***************************************************************************)
(* From keys to characters: intr_keyboard_handler of device/keyboard.c.    *)
(* Every interrupt delivers one byte of a scan code.  What the keys are    *)
(* meant to say is the reference: it knows which keys are down.            *)
(***************************************************************************)
EXTENDS Integers, SequencesExt

CONSTANTS
  Fingers, \* bound on the keys that are down at once
  MaxWire  \* bound on the bytes the controller has not yet delivered

ASSUME KeyboardAssumption == Fingers \in Nat \ {0} /\ MaxWire \in Nat \ {0}

\* The keys, by what they send: the extended ones send e0 first.
Key(ext, code) == [ext |-> ext, code |-> code]
shift_l   == Key(FALSE, 42)
shift_r   == Key(FALSE, 54)
ctrl_l    == Key(FALSE, 29)
ctrl_r    == Key(TRUE, 29)
caps_lock == Key(FALSE, 58)
letter    == Key(FALSE, 38)  \* l
digit     == Key(FALSE, 2)   \* 1
arrow     == Key(TRUE, 72)
Keys == {shift_l, shift_r, ctrl_l, ctrl_r, caps_lock, letter, digit, arrow}

keymap == [code \in {38, 2} |-> IF code = 38 THEN <<"l", "L">> ELSE <<"1", "!">>]

VARIABLES
  down,    \* the keys that are down
  wire,    \* bytes not yet delivered
  kbd,     \* the status variables of the driver, but alt's, which nothing reads
  char,    \* the character of the last interrupt, with what was meant
  meant,   \* what the characters on the wire are meant to be
  caps,    \* caps lock as the user has pressed it
  crossed  \* where one flag cannot follow: see Crossing

keyboardVars == <<down, wire, kbd, char, meant, caps, crossed>>

Nothing == [got |-> "none", meant |-> {"none"}]

KeyboardInit ==
  /\ down = {} /\ wire = <<>> /\ char = Nothing /\ meant = <<>>
  /\ kbd = [ctrl |-> FALSE, shift |-> FALSE, caps |-> FALSE, ext |-> FALSE]
  /\ caps = FALSE /\ crossed = {}

Sends(key, code) == (IF key.ext THEN <<224>> ELSE <<>>) \o <<code>>

-----------------------------------------------------------------------------
\* The user.

Shifts   == {shift_l, shift_r}
Ctrls    == {ctrl_l, ctrl_r}
Held(ks) == ks \cap down # {}

\* What key is meant to say: every one of its characters if a modifier is crossed.
Meaning(key) ==
  IF key = letter
  THEN IF crossed # {} THEN {"l", "L", "clear"}
       ELSE IF Held(Shifts) # caps THEN {"L"}
       ELSE IF Held(Ctrls) THEN {"clear"} ELSE {"l"}
  ELSE IF "shift" \in crossed THEN {"1", "!"}
  ELSE IF Held(Shifts) THEN {"!"} ELSE {"1"}

\* One flag cannot follow two keys of a kind that are down together, until both are up,
\* nor caps lock one that repeats itself.
Crossing(d, capsRepeats) ==
  {kind \in {"shift", "ctrl", "caps"} :
     IF kind = "caps" THEN kind \in crossed \/ capsRepeats
     ELSE LET pair == IF kind = "shift" THEN Shifts ELSE Ctrls
          IN pair \subseteq d \/ (kind \in crossed /\ pair \cap d # {})}

Make(key) ==
  /\ Len(wire) < MaxWire
  /\ wire' = wire \o Sends(key, key.code)
  /\ meant' = IF key \in {letter, digit} THEN Append(meant, Meaning(key)) ELSE meant

Press(key) ==
  /\ key \notin down /\ Cardinality(down) < Fingers
  /\ Make(key)
  /\ down' = down \cup {key}
  /\ crossed' = Crossing(down', FALSE)
  /\ caps' = IF key = caps_lock THEN ~caps ELSE caps
  /\ UNCHANGED <<kbd, char>>

\* A key that stays down repeats its make code.
RepeatKey(key) ==
  /\ key \in down
  /\ Make(key)
  /\ crossed' = Crossing(down, key = caps_lock)
  /\ UNCHANGED <<down, kbd, char, caps>>

LetGo(key) ==
  /\ key \in down /\ Len(wire) < MaxWire
  /\ wire' = wire \o Sends(key, key.code + 128)
  /\ down' = down \ {key}
  /\ crossed' = Crossing(down', FALSE)
  /\ UNCHANGED <<kbd, char, meant, caps>>

-----------------------------------------------------------------------------
\* The handler.

\* The column of keymap, for the status k.
Shifted(k, code) == IF code < 14 THEN k.shift ELSE k.shift # k.caps

Character(k, code) ==
  LET c == keymap[code][IF Shifted(k, code) THEN 2 ELSE 1]
  IN IF k.ctrl /\ c = "l" THEN "clear" ELSE c

\* Wrong on purpose: the right ctrl key is not known when it comes up.
BreakLeft(k, code) ==
  [k EXCEPT !.ext = FALSE,
            !.ctrl = @ /\ (k.ext \/ code # ctrl_l.code),
            !.shift = @ /\ (k.ext \/ code \notin {shift_l.code, shift_r.code})]

Break(k, code) ==
  [k EXCEPT !.ext = FALSE,
            !.ctrl = @ /\ code # ctrl_l.code,
            !.shift = @ /\ (k.ext \/ code \notin {shift_l.code, shift_r.code})]

Known(code, ext) == (~ext /\ code \in 1..58) \/ (ext /\ code = ctrl_r.code)

Flags(k, code) ==
  [k EXCEPT !.ext = FALSE,
            !.ctrl = @ \/ code = ctrl_l.code,
            !.shift = @ \/ code \in {shift_l.code, shift_r.code},
            !.caps = IF code = caps_lock.code THEN ~@ ELSE @]

\* What byte b makes of the status k, and whether it gives a character.
Decoded(k, b) ==
  IF b = 224 THEN [k EXCEPT !.ext = TRUE]
  ELSE IF b >= 128 THEN Break(k, b - 128)
  ELSE IF Known(b, k.ext) THEN Flags(k, b)
  ELSE [k EXCEPT !.ext = FALSE]
Prints(k, b) == b < 128 /\ Known(b, k.ext) /\ b \in DOMAIN keymap

KeyboardInterrupt ==
  /\ wire # <<>>
  /\ wire' = Tail(wire)
  /\ kbd' = Decoded(kbd, Head(wire))
  /\ IF Prints(kbd, Head(wire))
     THEN /\ char' = [got |-> Character(kbd, Head(wire)), meant |-> Head(meant)]
          /\ meant' = Tail(meant)
     ELSE char' = Nothing /\ UNCHANGED meant
  /\ UNCHANGED <<down, caps, crossed>>

KeyboardNext ==
  \/ \E key \in Keys : Press(key) \/ RepeatKey(key) \/ LetGo(key)
  \/ KeyboardInterrupt

KeyboardSpec == KeyboardInit /\ [][KeyboardNext]_keyboardVars

-----------------------------------------------------------------------------
\* The driver knows which keys are down: its characters are the ones the user means, and
\* when nothing is on the wire its flags agree with the keys.  Two keys of a kind spoil
\* that until both are up.
KeysAsHeld ==
  /\ char.got \in char.meant
  /\ wire = <<>> =>
       /\ ~kbd.ext
       /\ "shift" \notin crossed => kbd.shift = Held(Shifts)
       /\ "ctrl" \notin crossed => kbd.ctrl = Held(Ctrls)
       /\ "caps" \notin crossed => kbd.caps = caps
=============================================================================
