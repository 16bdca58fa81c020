---------------------------- MODULE InputProofs -----------------------------
(***************************************************************************)
(* Proofs about the keyboard driver and the shell.                         *)
(*                                                                         *)
(* intr_keyboard_handler, for every set of keys: no modifier sticks, and a *)
(* key types its own character.  readline and my_shell, for every size of  *)
(* cmd_line and number of shells: the line handed over is the one on the   *)
(* screen, and the prompt shows the shell's directory.                     *)
(***************************************************************************)
EXTENDS Keyboard, Shell, SequenceTheorems, TLAPS

(***************************************************************************)
(* The inductive invariant.  The byte a key sends last, and what is on the *)
(* wire: nothing, the whole code of the last event, or the byte after the  *)
(* prefix the handler has remembered.                                      *)
(***************************************************************************)
Byte(key, make) == (key % 256) + (IF make THEN 0 ELSE 128)

Characters == {"none", "lower", "lower_l_u", "upper", "plain", "shifted", "command"}

KeyboardTypeOK ==
    /\ ctrl_status \in BOOLEAN /\ shift_status \in BOOLEAN
    /\ alt_status \in BOOLEAN /\ caps_lock_status \in BOOLEAN
    /\ ext_status \in BOOLEAN
    /\ held \subseteq Keys
    /\ event \in [key : Keys \cup {0}, make : BOOLEAN]
    /\ char \in Characters

Quiet == wire = << >> /\ ~ext_status
InCode ==
    /\ event.key \in Keys /\ char = "none"
    /\ \/ /\ ~ext_status /\ event.key < 128
          /\ wire = <<Byte(event.key, event.make)>>
       \/ /\ ~ext_status /\ event.key > 57344
          /\ wire = <<224, Byte(event.key, event.make)>>
       \/ /\ ext_status /\ event.key > 57344
          /\ wire = <<Byte(event.key, event.make)>>
WireOK == Quiet \/ InCode

ModifiersOK ==
    /\ ctrl_status  => held \cap CtrlKeys # {}
    /\ shift_status => held \cap ShiftKeys # {}
    /\ alt_status   => held \cap AltKeys # {}

IInv == KeyboardTypeOK /\ WireOK /\ ModifiersOK /\ KeyTypesItsChar

(***************************************************************************)
(* The byte of a key's code is never the prefix, its high bit tells break  *)
(* from make, and the handler gets the key back from it.                   *)
(***************************************************************************)
LEMMA KeyIs ==
  ASSUME NEW key \in Keys
  PROVE  /\ key \in Nat /\ key # 0
         /\ key < 128 \/ key > 57344
         /\ key < 128 => key % 256 = key
         /\ key > 57344 => 57344 + (key % 256) = key
         /\ key % 256 \in (1..127) \ {96}
<1>1. PICK n \in (1..127) \ {96} : key \in {n, 57344 + n}
  BY KeysAssumption
<1> QED
  BY <1>1

LEMMA ByteIs ==
  ASSUME NEW key \in Keys, NEW make \in BOOLEAN
  PROVE  /\ Byte(key, make) \in Nat
         /\ Byte(key, make) # 224
         /\ make => Byte(key, make) < 128 /\ Byte(key, make) = key % 256
         /\ ~make => Byte(key, make) >= 128 /\ Byte(key, make) - 128 = key % 256
  BY KeyIs DEF Byte

(***************************************************************************)
(* When the last byte of a code is read, the scan code the handler makes   *)
(* of it is the key's own.                                                 *)
(***************************************************************************)
LEMMA LastByte ==
  ASSUME KeyboardTypeOK, WireOK, wire # << >>, Head(wire) # 224
  PROVE  /\ event.key \in Keys /\ char = "none"
         /\ Tail(wire) = << >>
         /\ event.make <=> Head(wire) < 128
         /\ event.make => Scancode(Head(wire)) = event.key
         /\ ~event.make => /\ Head(wire) >= 128
                           /\ Scancode(Head(wire)) - 128 = event.key
<1>1. /\ event.key \in Keys /\ char = "none" /\ event.make \in BOOLEAN
      /\ wire = <<Byte(event.key, event.make)>>
      /\ \/ ~ext_status /\ event.key < 128
         \/ ext_status /\ event.key > 57344
  BY DEF WireOK, Quiet, InCode, KeyboardTypeOK
<1>2. Head(wire) = Byte(event.key, event.make) /\ Tail(wire) = << >>
  BY <1>1
<1>3. ext_status \in BOOLEAN
  BY DEF KeyboardTypeOK
<1> QED
  BY <1>1, <1>2, <1>3, KeyIs, ByteIs DEF Scancode

LEMMA Initially == Init => IInv
<1> SUFFICES ASSUME Init PROVE IInv
  OBVIOUS
<1>1. KeyboardTypeOK
  <2>1. event \in [key : Keys \cup {0}, make : BOOLEAN]
    BY DEF Init
  <2> QED
    BY <2>1 DEF Init, KeyboardTypeOK, Characters
<1>2. WireOK
  BY DEF Init, WireOK, Quiet
<1>3. ModifiersOK /\ KeyTypesItsChar
  BY DEF Init, ModifiersOK, KeyTypesItsChar
<1> QED
  BY <1>1, <1>2, <1>3 DEF IInv

(***************************************************************************)
(* The controller starts a code.                                           *)
(***************************************************************************)
LEMMA SendStep ==
  ASSUME IInv, NEW key \in Keys, NEW make \in BOOLEAN, Send(key, make)
  PROVE  IInv'
<1>1. /\ wire' = IF key > 57344 THEN <<224, Byte(key, make)>>
                                ELSE <<Byte(key, make)>>
      /\ event' = [key |-> key, make |-> make] /\ char' = "none"
      /\ UNCHANGED <<modifiers, ext_status, held>>
      /\ wire = << >>
  BY DEF Send, Byte
<1>2. KeyboardTypeOK'
  <2>1. event' \in [key : Keys \cup {0}, make : BOOLEAN]
    BY <1>1
  <2>2. char' \in Characters
    BY <1>1 DEF Characters
  <2> QED
    BY <1>1, <2>1, <2>2 DEF IInv, KeyboardTypeOK, modifiers
<1>3. ~ext_status
  BY <1>1 DEF IInv, WireOK, Quiet, InCode
<1>4. WireOK'
  <2>1. event'.key = key /\ event'.make = make /\ ~ext_status'
    BY <1>1, <1>3
  <2>2. CASE key > 57344
    BY <1>1, <2>1, <2>2 DEF WireOK, Quiet, InCode
  <2>3. CASE ~(key > 57344)
    <3>1. key < 128
      BY <2>3, KeyIs
    <3> QED
      BY <1>1, <2>1, <2>3, <3>1 DEF WireOK, Quiet, InCode
  <2> QED
    BY <2>2, <2>3
<1>5. ModifiersOK'
  BY <1>1 DEF IInv, ModifiersOK, modifiers
<1>6. KeyTypesItsChar'
  BY <1>1 DEF KeyTypesItsChar
<1> QED
  BY <1>2, <1>4, <1>5, <1>6 DEF IInv

LEMMA PrefixStep ==
  ASSUME IInv, handler_prefix
  PROVE  IInv'
<1>1. /\ wire # << >> /\ Head(wire) = 224 /\ ext_status' = TRUE
      /\ wire' = Tail(wire) /\ UNCHANGED <<modifiers, held, event, char>>
  BY DEF handler_prefix
<1>2. KeyboardTypeOK'
  BY <1>1 DEF IInv, KeyboardTypeOK, modifiers
<1>3. event.key \in Keys => Byte(event.key, event.make) # 224
  BY ByteIs DEF IInv, KeyboardTypeOK
<1>4. WireOK'
  <2>1. event.key \in Keys /\ char = "none" /\ event.key > 57344
        /\ wire = <<224, Byte(event.key, event.make)>>
    BY <1>1, <1>3 DEF IInv, WireOK, Quiet, InCode
  <2>2. wire' = <<Byte(event.key, event.make)>>
    BY <1>1, <2>1
  <2> QED
    BY <1>1, <2>1, <2>2 DEF WireOK, InCode
<1>5. ModifiersOK' /\ KeyTypesItsChar'
  BY <1>1 DEF IInv, ModifiersOK, KeyTypesItsChar, modifiers
<1> QED
  BY <1>2, <1>4, <1>5 DEF IInv

(***************************************************************************)
(* A break code: only the modifiers of the other keys stay on.             *)
(***************************************************************************)
LEMMA BreakStep ==
  ASSUME IInv, handler_break
  PROVE  IInv'
<1>1. /\ wire # << >> /\ Head(wire) # 224 /\ Head(wire) >= 128
      /\ ext_status' = FALSE /\ wire' = Tail(wire)
      /\ held' = held \ {event.key}
      /\ UNCHANGED <<caps_lock_status, event, char>>
  BY DEF handler_break
<1>2. /\ event.key \in Keys /\ char = "none" /\ Tail(wire) = << >>
      /\ ~event.make => Scancode(Head(wire)) - 128 = event.key
      /\ event.make => Head(wire) < 128
  BY <1>1, LastByte DEF IInv
<1>3. ~event.make /\ Scancode(Head(wire)) - 128 = event.key
  <2>1. CASE event.make
    <3>1. PICK b : b = Head(wire)
      OBVIOUS
    <3>2. event.make \in BOOLEAN /\ b \in Nat
      BY <1>1, <3>1, ByteIs DEF IInv, KeyboardTypeOK, WireOK, Quiet, InCode
    <3> QED
      BY <1>1, <1>2, <2>1, <3>1, <3>2
  <2> QED
    BY <1>2, <2>1
<1>4. /\ ctrl_status'  = (ctrl_status /\ event.key \notin CtrlKeys)
      /\ shift_status' = (shift_status /\ event.key \notin ShiftKeys)
      /\ alt_status'   = (alt_status /\ event.key \notin AltKeys)
  BY <1>3 DEF handler_break
<1>5. KeyboardTypeOK'
  BY <1>1, <1>4 DEF IInv, KeyboardTypeOK
<1>6. WireOK'
  BY <1>1, <1>2 DEF WireOK, Quiet, InCode
<1>7. ModifiersOK'
  <2>1. ModifiersOK /\ ctrl_status \in BOOLEAN /\ shift_status \in BOOLEAN
        /\ alt_status \in BOOLEAN
    BY DEF IInv, KeyboardTypeOK
  <2>2. ASSUME NEW K, held \cap K # {}, event.key \notin K
        PROVE  held' \cap K # {}
    BY <1>1, <2>2
  <2>3. ctrl_status' => held' \cap CtrlKeys # {}
    BY <1>4, <2>1, <2>2 DEF ModifiersOK
  <2>4. shift_status' => held' \cap ShiftKeys # {}
    BY <1>4, <2>1, <2>2 DEF ModifiersOK
  <2>5. alt_status' => held' \cap AltKeys # {}
    BY <1>4, <2>1, <2>2 DEF ModifiersOK
  <2>6. CtrlKeys' = CtrlKeys /\ ShiftKeys' = ShiftKeys /\ AltKeys' = AltKeys
    BY DEF CtrlKeys, ShiftKeys, AltKeys
  <2> QED
    BY <2>3, <2>4, <2>5, <2>6 DEF ModifiersOK
<1>8. KeyTypesItsChar'
  BY <1>1, <1>2 DEF KeyTypesItsChar
<1> QED
  BY <1>5, <1>6, <1>7, <1>8 DEF IInv

(***************************************************************************)
(* What keymap can give.  The classes without a character are the only     *)
(* ones that set modifiers, and the keys that shift changes ignore caps    *)
(* lock.                                                                   *)
(***************************************************************************)
LEMMA KeymapIs ==
  ASSUME NEW index \in Nat, NEW shift \in BOOLEAN
  PROVE  /\ keymap(index, shift) \in Characters
         /\ keymap(index, shift) # "command"
         /\ keymap(index, shift) = "none" <=> index \in Silent
         /\ keymap(index, shift) = "shifted" =>
               shift /\ index \notin Letters \cup Silent \cup OneChar
  BY DEF keymap, Characters

LEMMA ShiftedIgnoresCaps ==
  ASSUME NEW index \in 0..58, index \notin Letters \cup Silent \cup OneChar
  PROVE  IgnoresCaps(index)
  BY DEF Letters, Silent, OneChar, IgnoresCaps

(***************************************************************************)
(* A make code: types a character, or turns on the modifier of its key.    *)
(***************************************************************************)
LEMMA MakeStep ==
  ASSUME IInv, handler_make
  PROVE  IInv'
<1> DEFINE code == event.key
<1>1. /\ wire # << >> /\ Head(wire) < 128
      /\ ext_status' = FALSE /\ wire' = Tail(wire)
      /\ held' = held \cup {event.key} /\ UNCHANGED event
  BY DEF handler_make
<1>2. Head(wire) \in Nat
  BY <1>1, ByteIs DEF IInv, KeyboardTypeOK, WireOK, Quiet, InCode
<1>3. /\ code \in Keys /\ char = "none" /\ Tail(wire) = << >>
      /\ event.make /\ Scancode(Head(wire)) = code
  BY <1>1, <1>2, LastByte DEF IInv
<1>4. /\ ctrl_status \in BOOLEAN /\ shift_status \in BOOLEAN
      /\ alt_status \in BOOLEAN /\ caps_lock_status \in BOOLEAN
  BY DEF IInv, KeyboardTypeOK
<1>5. IF ~Known(code) THEN UNCHANGED <<modifiers, char>>
      ELSE IF cur_char(code) # "none"
      THEN char' = cur_char(code) /\ UNCHANGED modifiers
      ELSE /\ ctrl_status'  = (ctrl_status \/ code \in CtrlKeys)
           /\ shift_status' = (shift_status \/ code \in ShiftKeys)
           /\ alt_status'   = (alt_status \/ code \in AltKeys)
           /\ caps_lock_status' = (caps_lock_status # (code = caps_lock_make))
           /\ UNCHANGED char
  BY <1>3 DEF handler_make
<1>6. WireOK'
  <2>1. wire' = << >> /\ ~ext_status'
    BY <1>1, <1>3, Zenon
  <2> QED
    BY <2>1 DEF WireOK, Quiet
<1>7. shift_of(code) \in BOOLEAN
  BY <1>4 DEF shift_of
<1>8. /\ code \in Nat /\ code % 256 \in Nat
      /\ code < 128 => code % 256 = code
      /\ code < 128 \/ code > 57344
  BY <1>3, KeyIs
<1>9. /\ cur_char(code) \in Characters
      /\ cur_char(code) = "command" => ctrl_status
      /\ cur_char(code) = "shifted" =>
            keymap(code % 256, shift_of(code)) = "shifted"
      /\ keymap(code % 256, shift_of(code)) = "none" => cur_char(code) = "none"
  <2>1. PICK c : c = keymap(code % 256, shift_of(code))
    OBVIOUS
  <2>2. c \in Characters /\ c # "command"
    BY <1>7, <1>8, <2>1, KeymapIs
  <2>3. cur_char(code) = IF ctrl_status /\ c = "lower_l_u" THEN "command" ELSE c
    BY <2>1 DEF cur_char
  <2>4. CASE ctrl_status /\ c = "lower_l_u"
    BY <2>1, <2>3, <2>4 DEF Characters
  <2>5. CASE ~(ctrl_status /\ c = "lower_l_u")
    BY <2>1, <2>2, <2>3, <2>5
  <2> QED
    BY <2>4, <2>5
<1>10. ModifiersOK /\ ModifiersOK'
  <2>1. ModifiersOK
    BY DEF IInv
  <2>2. CASE UNCHANGED modifiers
    BY <1>1, <2>1, <2>2 DEF ModifiersOK, modifiers
  <2>3. CASE /\ ctrl_status'  = (ctrl_status \/ code \in CtrlKeys)
             /\ shift_status' = (shift_status \/ code \in ShiftKeys)
             /\ alt_status'   = (alt_status \/ code \in AltKeys)
    BY <1>1, <1>4, <2>1, <2>3, Zenon DEF ModifiersOK
  <2> QED
    BY <1>5, <2>1, <2>2, <2>3
<1>11. KeyTypesItsChar'
  <2>1. CASE char' = "none"
    BY <2>1 DEF KeyTypesItsChar
  <2>2. CASE char' # "none"
    <3>1. Known(code) /\ char' = cur_char(code) /\ UNCHANGED modifiers
      BY <1>3, <1>5, <2>2
    <3>2. code % 256 \notin Silent
      BY <1>7, <1>8, <1>9, <2>2, <3>1, KeymapIs
    <3>3. code < 59
      BY <3>1, <3>2, <1>8 DEF Known, Silent, alt_r_make, ctrl_r_make
    <3>4. char' = "command" => held' \cap CtrlKeys # {}
      BY <1>1, <1>9, <1>10, <3>1 DEF ModifiersOK
    <3>5. char' = "shifted" => shift_status
      <4> SUFFICES ASSUME char' = "shifted" PROVE shift_status
        OBVIOUS
      <4>1. shift_of(code) /\ code \notin Letters \cup Silent \cup OneChar
        BY <1>7, <1>8, <1>9, <3>1, <3>3, KeymapIs
      <4>2. IgnoresCaps(code)
        BY <1>8, <3>3, <4>1, ShiftedIgnoresCaps
      <4> QED
        BY <4>1, <4>2 DEF shift_of
    <3>6. char' = "shifted" => held' \cap ShiftKeys # {}
      BY <1>1, <1>10, <3>5 DEF ModifiersOK
    <3> QED
      BY <1>1, <1>3, <1>8, <3>3, <3>4, <3>6 DEF KeyTypesItsChar
  <2> QED
    BY <2>1, <2>2
<1>12. KeyboardTypeOK'
  <2>1. char' \in Characters
    BY <1>5, <1>9 DEF IInv, KeyboardTypeOK
  <2>2. held' \subseteq Keys /\ event' \in [key : Keys \cup {0}, make : BOOLEAN]
    BY <1>1, <1>3 DEF IInv, KeyboardTypeOK
  <2>3. /\ ctrl_status' \in BOOLEAN /\ shift_status' \in BOOLEAN
        /\ alt_status' \in BOOLEAN /\ caps_lock_status' \in BOOLEAN
    BY <1>4, <1>5 DEF modifiers
  <2> QED
    BY <1>1, <2>1, <2>2, <2>3 DEF KeyboardTypeOK
<1> QED
  BY <1>6, <1>10, <1>11, <1>12 DEF IInv

LEMMA Inductive == Spec => []IInv
<1>1. ASSUME IInv, [Next]_vars PROVE IInv'
  <2>1. ASSUME NEW key \in Keys, Press(key) \/ Release(key) PROVE IInv'
    BY <1>1, <2>1, SendStep DEF Press, Release
  <2>2. CASE UNCHANGED vars
    BY <1>1, <2>2 DEF vars, IInv, KeyboardTypeOK, WireOK, Quiet, InCode, ModifiersOK,
                      KeyTypesItsChar
  <2> QED
    BY <1>1, <2>1, <2>2, PrefixStep, BreakStep, MakeStep DEF Next
<1> QED
  BY <1>1, Initially, PTL DEF Spec

(***************************************************************************)
(* No modifier sticks (keyboard.c, the break branch of                     *)
(* intr_keyboard_handler): once a code is read, ctrl, shift and alt are on *)
(* only while a key of theirs is down, and no prefix is left over.         *)
(***************************************************************************)
THEOREM NoStuckModifierHolds == Spec => []NoStuckModifier
<1>1. IInv => NoStuckModifier
  BY ByteIs DEF IInv, ModifiersOK, WireOK, Quiet, InCode, NoStuckModifier, KeyboardTypeOK
<1> QED
  BY <1>1, Inductive, PTL

(***************************************************************************)
(* A key types its own character (keyboard.c, the make branch): none for a *)
(* break code or a code with the prefix, a command only with ctrl down.    *)
(***************************************************************************)
THEOREM KeyTypesItsCharHolds == Spec => []KeyTypesItsChar
<1>1. IInv => KeyTypesItsChar
  BY DEF IInv
<1> QED
  BY <1>1, Inductive, PTL

-----------------------------------------------------------------------------
(***************************************************************************)
(* The line.  What is in cmd_line before pos is what the screen shows, and *)
(* no backspace is in it: the test on buf[0] relies on that.               *)
(***************************************************************************)
LineOK ==
    /\ typed \in Seq({"c", "d"}) /\ pos = Len(typed) /\ pos <= Count
    /\ DOMAIN buf = 0..Count /\ buf = [i \in 0..Count |-> buf[i]]
    /\ \A i \in 1..Len(typed) : buf[i - 1] = typed[i]

LineInv == fault = "none" => LineOK

LEMMA CutOne ==
  ASSUME NEW S, NEW s \in Seq(S), Len(s) > 0
  PROVE  /\ SubSeq(s, 1, Len(s) - 1) \in Seq(S)
         /\ Len(SubSeq(s, 1, Len(s) - 1)) = Len(s) - 1
         /\ \A i \in 1..(Len(s) - 1) : SubSeq(s, 1, Len(s) - 1)[i] = s[i]
<1> DEFINE m == Len(s)
<1>1. m \in Nat /\ m > 0 /\ 1 \in 1..(m + 1) /\ m - 1 \in 0..m
  OBVIOUS
<1>2. SubSeq(s, 1, m - 1) \in Seq(S)
  BY <1>1, SubSeqProperties
<1>3. Len(SubSeq(s, 1, m - 1)) = m - 1
  <2>1. \A i \in 1..(m - 1) : s[i] \in S
    BY <1>1
  <2>2. Len(SubSeq(s, 1, m - 1)) = IF 1 <= m - 1 THEN m - 1 - 1 + 1 ELSE 0
    BY <1>1, <2>1, SubSeqProperties
  <2> HIDE DEF m
  <2> QED
    BY <1>1, <2>2
<1>4. \A i \in 1..(m - 1) : SubSeq(s, 1, m - 1)[i] = s[i]
  BY <1>1, SubSeqProperties
<1> QED
  BY <1>2, <1>3, <1>4

LEMMA FunctionIsSeq ==
  \A S, g : \A m \in Nat :
     (g = [i \in 1..m |-> g[i]] /\ \A i \in 1..m : g[i] \in S) => g \in Seq(S) /\ Len(g) = m
OBVIOUS

LEMMA EmptyLine ==
  ASSUME DOMAIN buf' = 0..Count, buf' = [i \in 0..Count |-> buf'[i]], pos' = 0, typed' = << >>
  PROVE  LineOK'
<1>1. << >> \in Seq({"c", "d"}) /\ Len(<< >>) = 0
  OBVIOUS
<1> QED
  BY <1>1, ShellAssumption DEF LineOK

LEMMA NewLineIs == DOMAIN NewLine = 0..Count /\ NewLine = [i \in 0..Count |-> NewLine[i]]
BY DEF NewLine

LEMMA TypeCharStep ==
  ASSUME LineInv, NEW c \in {"c", "d"}, type_char(c)
  PROVE  LineInv'
<1> SUFFICES ASSUME fault' = "none" PROVE LineOK'
  BY DEF LineInv
<1>1. fault = "none" /\ pos # Count
  BY DEF type_char, Stored
<1>2. LineOK
  BY <1>1 DEF LineInv
<1>3. pos \in 0..Count /\ pos < Count /\ Len(typed) \in Nat
  BY <1>1, <1>2, ShellAssumption DEF LineOK
<1>4. buf' = [buf EXCEPT ![pos] = c] /\ pos' = pos + 1 /\ typed' = Append(typed, c)
  BY <1>3 DEF type_char
<1>5. /\ DOMAIN buf' = 0..Count /\ buf' = [i \in 0..Count |-> buf'[i]] /\ buf'[pos] = c
      /\ \A i \in 0..Count : i # pos => buf'[i] = buf[i]
  BY <1>2, <1>3, <1>4 DEF LineOK
<1>6. /\ typed' \in Seq({"c", "d"}) /\ Len(typed') = Len(typed) + 1
      /\ typed'[Len(typed) + 1] = c /\ \A i \in 1..Len(typed) : typed'[i] = typed[i]
  BY <1>2, <1>4 DEF LineOK
<1>7. ASSUME NEW i \in 1..Len(typed') PROVE buf'[i - 1] = typed'[i]
  <2>1. CASE i = Len(typed) + 1
    BY <1>2, <1>3, <1>5, <1>6, <2>1 DEF LineOK
  <2>2. CASE i # Len(typed) + 1
    <3>1. i \in 1..Len(typed) /\ i - 1 \in 0..Count /\ i - 1 # pos
      BY <1>2, <1>3, <1>6, <2>2, ShellAssumption DEF LineOK
    <3> QED
      BY <1>2, <1>5, <1>6, <3>1 DEF LineOK
  <2> QED
    BY <2>1, <2>2
<1>8. pos' = Len(typed') /\ pos' <= Count
  BY <1>2, <1>3, <1>4, <1>6, ShellAssumption DEF LineOK
<1> QED
  BY <1>5, <1>6, <1>7, <1>8 DEF LineOK

LEMMA TypeBackspaceStep ==
  ASSUME LineInv, type_backspace("bs")
  PROVE  LineInv'
<1> SUFFICES ASSUME fault' = "none" PROVE LineOK'
  BY DEF LineInv
<1>1. fault = "none" /\ pos # Count
  BY DEF type_backspace, Stored
<1>2. LineOK
  BY <1>1 DEF LineInv
<1>3. pos \in 0..Count /\ pos < Count /\ Len(typed) \in Nat /\ 0 \in 0..Count
  BY <1>1, <1>2, ShellAssumption DEF LineOK
<1> DEFINE stored == [buf EXCEPT ![pos] = "bs"]
<1>4. /\ buf' = stored /\ pos' = IF stored[0] # "bs" THEN pos - 1 ELSE pos
      /\ typed' = IF typed = <<>> THEN typed ELSE Front(typed)
  BY <1>3 DEF type_backspace
<1>5. /\ DOMAIN stored = 0..Count /\ stored = [i \in 0..Count |-> stored[i]]
      /\ stored[pos] = "bs" /\ \A i \in 0..Count : i # pos => stored[i] = buf[i]
  BY <1>2, <1>3 DEF LineOK
<1> HIDE DEF stored
<1>6. CASE typed = << >>
  <2>1. pos' = 0 /\ typed' = << >>
    BY <1>2, <1>4, <1>5, <1>6 DEF LineOK
  <2> QED
    BY <1>4, <1>5, <2>1, EmptyLine
<1>7. CASE typed # << >>
  <2>1. Len(typed) > 0 /\ typed[1] \in {"c", "d"}
    BY <1>2, <1>7 DEF LineOK
  <2>2. stored[0] = typed[1]
    <3>1. 0 \in 0..Count /\ 0 # pos /\ 1 \in 1..Len(typed)
      BY <1>2, <1>3, <2>1 DEF LineOK
    <3>2. \A i \in 1..Len(typed) : buf[i - 1] = typed[i]
      BY <1>2 DEF LineOK
    <3>3. buf[0] = typed[1]
      BY <3>1, <3>2
    <3> QED
      BY <1>5, <3>1, <3>3
  <2>3. pos' = pos - 1 /\ typed' = SubSeq(typed, 1, Len(typed) - 1)
    BY <1>4, <1>7, <2>1, <2>2 DEF Front
  <2>4. /\ typed' \in Seq({"c", "d"}) /\ Len(typed') = Len(typed) - 1
        /\ \A i \in 1..(Len(typed) - 1) : typed'[i] = typed[i]
    <3>1. typed \in Seq({"c", "d"})
      BY <1>2 DEF LineOK
    <3> QED
      BY <1>3, <2>1, <2>3, <3>1, CutOne
  <2>5. ASSUME NEW i \in 1..Len(typed') PROVE buf'[i - 1] = typed'[i]
    <3>1. i \in 1..Len(typed) /\ i \in 1..(Len(typed) - 1) /\ i - 1 \in 0..Count /\ i - 1 # pos
      BY <1>2, <1>3, <2>4, ShellAssumption DEF LineOK
    <3> QED
      BY <1>2, <1>4, <1>5, <2>4, <3>1 DEF LineOK
  <2>6. pos' = Len(typed') /\ pos' <= Count
    BY <1>2, <1>3, <2>3, <2>4, ShellAssumption DEF LineOK
  <2> QED
    BY <1>4, <1>5, <2>4, <2>5, <2>6 DEF LineOK
<1> QED
  BY <1>6, <1>7

LEMMA TypeClearStep ==
  ASSUME LineInv, type_clear("ctrl-l")
  PROVE  LineInv'
<1> SUFFICES ASSUME fault' = "none" PROVE LineOK'
  BY DEF LineInv
<1>1. fault = "none" /\ pos # Count
  BY DEF type_clear, Stored
<1>2. LineOK
  BY <1>1 DEF LineInv
<1>3. pos \in 0..Count /\ pos < Count /\ Len(typed) \in Nat
  BY <1>1, <1>2, ShellAssumption DEF LineOK
<1>4. buf' = [buf EXCEPT ![pos] = "nul"] /\ UNCHANGED <<pos, typed>>
  BY <1>3 DEF type_clear
<1>5. /\ DOMAIN buf' = 0..Count /\ buf' = [i \in 0..Count |-> buf'[i]]
      /\ \A i \in 0..Count : i # pos => buf'[i] = buf[i]
  BY <1>2, <1>3, <1>4 DEF LineOK
<1>6. ASSUME NEW i \in 1..Len(typed) PROVE buf'[i - 1] = typed[i]
  <2>1. i - 1 \in 0..Count /\ i - 1 # pos
    BY <1>2, <1>3, ShellAssumption DEF LineOK
  <2> QED
    BY <1>2, <1>5, <2>1 DEF LineOK
<1> QED
  BY <1>2, <1>4, <1>5, <1>6 DEF LineOK

LEMMA TypeEraseStep ==
  ASSUME LineInv, type_erase("ctrl-u")
  PROVE  LineInv'
<1> SUFFICES ASSUME fault' = "none" PROVE LineOK'
  BY DEF LineInv
<1>1. fault = "none" /\ pos # Count
  BY DEF type_erase, Stored
<1>2. pos < Count
  BY <1>1, ShellAssumption DEF LineInv, LineOK
<1>3. /\ buf' = [i \in 0..Count |-> IF i \in 1..pos THEN "nul"
                                    ELSE IF i = pos THEN "ctrl-u" ELSE buf[i]]
      /\ pos' = 0 /\ typed' = << >>
  BY <1>2 DEF type_erase
<1>4. DOMAIN buf' = 0..Count /\ buf' = [i \in 0..Count |-> buf'[i]]
  BY <1>3
<1> QED
  BY <1>3, <1>4, EmptyLine

Commands ==
    \/ \E a \in Args : buildin_cd(a) \/ buildin_mkdir(a) \/ buildin_rmdir(a)
    \/ buildin_cd_home \/ getcwd_panics \/ blank_line \/ other_command \/ not_found

LEMMA LineInductive == ShellSpec => []LineInv
<1>1. ShellInit => LineInv
  <2> SUFFICES ASSUME ShellInit PROVE LineOK
    BY DEF LineInv
  <2>1. << >> \in Seq({"c", "d"}) /\ Len(<< >>) = 0
    OBVIOUS
  <2> QED
    BY <2>1, NewLineIs, ShellAssumption DEF ShellInit, LineOK
<1>2. ASSUME LineInv, [ShellNext]_shell_vars PROVE LineInv'
  <2>1. CASE type_char("c") \/ type_char("d")
    BY <1>2, <2>1, TypeCharStep
  <2>2. CASE type_backspace("bs")
    BY <1>2, <2>2, TypeBackspaceStep
  <2>3. CASE type_clear("ctrl-l")
    BY <1>2, <2>3, TypeClearStep
  <2>4. CASE type_erase("ctrl-u")
    BY <1>2, <2>4, TypeEraseStep
  <2>5. CASE Commands
    <3>1. Entered
      BY <2>5 DEF Commands, buildin_cd, buildin_mkdir, buildin_rmdir, buildin_cd_home,
                  getcwd_panics, blank_line, other_command, not_found
    <3>2. buf' = NewLine /\ pos' = 0 /\ typed' = << >>
      BY <3>1 DEF Entered
    <3> QED
      BY <3>2, NewLineIs, EmptyLine DEF LineInv
  <2>6. CASE empty_line
    <3>1. fault = "none" /\ buf' = NewLine /\ pos = 0 /\ UNCHANGED <<pos, typed>>
      BY <2>6 DEF empty_line
    <3>2. typed = << >>
      BY <1>2, <3>1 DEF LineInv, LineOK
    <3> QED
      BY <3>1, <3>2, NewLineIs, EmptyLine DEF LineInv
  <2>7. CASE UNCHANGED shell_vars
    BY <1>2, <2>7 DEF shell_vars, editing, LineInv, LineOK
  <2> QED
    BY <1>2, <2>1, <2>2, <2>3, <2>4, <2>5, <2>6, <2>7 DEF ShellNext, Commands, shell_stopped
<1> QED
  BY <1>1, <1>2, PTL DEF ShellSpec

(***************************************************************************)
(* readline hands over the line on the screen, whatever keys, backspaces,  *)
(* erasures and redrawings led to it.                                      *)
(***************************************************************************)
THEOREM LineIsAsTypedHolds == ShellSpec => []LineIsAsTyped
<1>1. LineInv => LineIsAsTyped
  BY DEF LineInv, LineOK, LineIsAsTyped
<1> QED
  BY <1>1, LineInductive, PTL

-----------------------------------------------------------------------------
(***************************************************************************)
(* The prompt.  Every shell, those that wait too, shows the directory it   *)
(* is in, and that directory exists unless it was removed under the shell. *)
(***************************************************************************)
ShowsCwd(sh, D) == ~sh.lost => sh.cwd_cache = sh.cwd /\ sh.cwd \in D

ShellStates(P) == [cwd : P, cwd_cache : P, lost : BOOLEAN]

ShellsInv ==
    /\ RootPath \in dirs /\ Len(shells) > 0
    /\ \E P : shells \in Seq(ShellStates(P))
    /\ \A i \in 1..Len(shells) : ShowsCwd(shells[i], dirs)

LEMMA ReplacedElement ==
  ASSUME NEW S, NEW T, NEW s \in Seq(S), \A x \in S : x \in T, NEW k \in 1..Len(s), NEW e \in T
  PROVE  /\ [s EXCEPT ![k] = e] \in Seq(T)
         /\ Len([s EXCEPT ![k] = e]) = Len(s)
         /\ [s EXCEPT ![k] = e][k] = e
         /\ \A i \in 1..Len(s) : i # k => [s EXCEPT ![k] = e][i] = s[i]
<1> DEFINE g == [s EXCEPT ![k] = e]
<1>1. Len(s) \in Nat /\ DOMAIN s = 1..Len(s) /\ \A i \in 1..Len(s) : s[i] \in S
  OBVIOUS
<1>2. /\ g = [i \in 1..Len(s) |-> g[i]] /\ g[k] = e
      /\ \A i \in 1..Len(s) : i # k => g[i] = s[i]
  BY <1>1
<1> HIDE DEF g
<1>3. \A i \in 1..Len(s) : g[i] \in T
  BY <1>1, <1>2
<1>4. g \in Seq(T) /\ Len(g) = Len(s)
  BY <1>1, <1>2, <1>3, FunctionIsSeq
<1> QED
  BY <1>2, <1>4 DEF g

\* The shell that reads keys goes to a directory.
GoesTo(d) ==
    /\ d \in dirs /\ UNCHANGED dirs
    /\ shells' = [shells EXCEPT ![Len(shells)] = At(d, d)]

LEMMA CdStep ==
  ASSUME ShellsInv, NEW d, GoesTo(d)
  PROVE  ShellsInv'
<1>1. PICK P : shells \in Seq(ShellStates(P))
  BY DEF ShellsInv
<1> DEFINE Q == P \cup {d}
           R == ShellStates(Q)
           r == At(d, d)
           n == Len(shells)
<1>2. n \in Nat /\ n > 0 /\ DOMAIN shells = 1..n
      /\ \A i \in 1..n : shells[i] \in ShellStates(P)
  BY <1>1 DEF ShellsInv
<1>3. r \in R /\ \A x \in ShellStates(P) : x \in R
  BY DEF ShellStates, At
<1>c. d \in dirs
  BY DEF GoesTo
<1> HIDE DEF R, r
<1>4. /\ shells' \in Seq(R) /\ Len(shells') = n /\ shells'[n] = r
      /\ \A i \in 1..n : i # n => shells'[i] = shells[i]
  <2>1. n \in 1..Len(shells)
    BY <1>2
  <2> DEFINE g == [shells EXCEPT ![n] = r]
  <2>2. shells' = g
    BY DEF r, GoesTo
  <2>3. /\ g \in Seq(R) /\ Len(g) = n /\ g[n] = r
        /\ \A i \in 1..n : i # n => g[i] = shells[i]
    BY <1>1, <1>3, <2>1, ReplacedElement
  <2> HIDE DEF g
  <2> QED
    BY <2>2, <2>3
<1>6. ASSUME NEW i \in 1..n PROVE ShowsCwd(shells'[i], dirs)
  <2>1. CASE i = n
    BY <1>4, <1>c, <2>1 DEF ShowsCwd, r, At
  <2>2. CASE i # n
    BY <1>4, <2>2 DEF ShellsInv
  <2> QED
    BY <2>1, <2>2
<1>7. UNCHANGED dirs /\ RootPath \in dirs'
  BY DEF ShellsInv, GoesTo
<1> QED
  BY <1>2, <1>4, <1>6, <1>7 DEF ShellsInv, R, ShowsCwd

LEMMA SameStep ==
  ASSUME ShellsInv, UNCHANGED <<dirs, shells>>
  PROVE  ShellsInv'
BY DEF ShellsInv, ShowsCwd

\* Only shells that are lost go along with the number.
LEMMA MkdirStep ==
  ASSUME ShellsInv, NEW a \in Args, buildin_mkdir(a)
  PROVE  ShellsInv'
<1> DEFINE f == make_clear_abs_path(a)
<1>1. PICK g : shells' = [i \in 1..Len(shells) |->
                             IF shells[i].lost /\ shells[i].cwd = g
                             THEN [shells[i] EXCEPT !.cwd = f] ELSE shells[i]]
  BY DEF buildin_mkdir
<1>a. dirs' = dirs \cup {f}
  BY DEF buildin_mkdir
<1> HIDE DEF f
<1>2. PICK P : shells \in Seq(ShellStates(P))
  BY DEF ShellsInv
<1> DEFINE Q == P \cup {f}
           R == ShellStates(Q)
           n == Len(shells)
<1>3. n \in Nat /\ n > 0 /\ \A i \in 1..n : shells[i] \in ShellStates(P)
  BY <1>2 DEF ShellsInv
<1>4. ASSUME NEW x \in ShellStates(P)
      PROVE  x \in R /\ [x EXCEPT !.cwd = f] \in R /\ [x EXCEPT !.cwd = f].lost = x.lost
  BY DEF ShellStates
<1>5. ASSUME NEW i \in 1..n
      PROVE  shells'[i] \in R /\ ShowsCwd(shells'[i], dirs')
  <2>1. CASE shells[i].lost /\ shells[i].cwd = g
    BY <1>1, <1>3, <1>4, <2>1 DEF ShowsCwd
  <2>2. CASE ~(shells[i].lost /\ shells[i].cwd = g)
    <3>1. shells'[i] = shells[i] /\ ShowsCwd(shells[i], dirs)
      BY <1>1, <2>2 DEF ShellsInv
    <3> QED
      BY <1>a, <1>3, <1>4, <3>1 DEF ShowsCwd
  <2> QED
    BY <2>1, <2>2
<1> HIDE DEF R
<1>6. DOMAIN shells' = 1..n /\ shells' = [i \in 1..n |-> shells'[i]]
  BY <1>1
<1>7. shells' \in Seq(R) /\ Len(shells') = n
  BY <1>3, <1>5, <1>6, FunctionIsSeq
<1>8. RootPath \in dirs'
  BY <1>a DEF ShellsInv
<1> QED
  BY <1>3, <1>5, <1>7, <1>8 DEF ShellsInv, R, ShowsCwd

LEMMA RmdirStep ==
  ASSUME ShellsInv, NEW a \in Args, buildin_rmdir(a)
  PROVE  ShellsInv'
<1> DEFINE f == make_clear_abs_path(a)
<1>1. /\ f # RootPath /\ dirs' = dirs \ {f}
      /\ shells' = [i \in 1..Len(shells) |->
                       IF shells[i].cwd = f
                       THEN [shells[i] EXCEPT !.cwd = Gone(f), !.lost = TRUE]
                       ELSE shells[i]]
  BY DEF buildin_rmdir
<1> HIDE DEF f
<1>2. PICK P : shells \in Seq(ShellStates(P))
  BY DEF ShellsInv
<1> DEFINE Q == P \cup {Gone(f)}
           R == ShellStates(Q)
           n == Len(shells)
<1>3. n \in Nat /\ n > 0 /\ \A i \in 1..n : shells[i] \in ShellStates(P)
  BY <1>2 DEF ShellsInv
<1>4. ASSUME NEW x \in ShellStates(P)
      PROVE  LET y == [x EXCEPT !.cwd = Gone(f), !.lost = TRUE]
             IN  x \in R /\ y \in R /\ y.lost
  BY DEF ShellStates
<1>5. ASSUME NEW i \in 1..n
      PROVE  shells'[i] \in R /\ ShowsCwd(shells'[i], dirs')
  <2>1. CASE shells[i].cwd = f
    BY <1>1, <1>3, <1>4, <2>1 DEF ShowsCwd
  <2>2. CASE shells[i].cwd # f
    <3>1. shells'[i] = shells[i] /\ ShowsCwd(shells[i], dirs)
      BY <1>1, <2>2 DEF ShellsInv
    <3> QED
      BY <1>1, <1>3, <1>4, <2>2, <3>1 DEF ShowsCwd
  <2> QED
    BY <2>1, <2>2
<1> HIDE DEF R
<1>6. DOMAIN shells' = 1..n /\ shells' = [i \in 1..n |-> shells'[i]]
  BY <1>1
<1>7. shells' \in Seq(R) /\ Len(shells') = n
  BY <1>3, <1>5, <1>6, FunctionIsSeq
<1>8. RootPath \in dirs'
  BY <1>1 DEF ShellsInv
<1> QED
  BY <1>3, <1>5, <1>7, <1>8 DEF ShellsInv, R, ShowsCwd

\* The child of fork has its parent's directory and prompt.
LEMMA NotFoundStep ==
  ASSUME ShellsInv, not_found
  PROVE  ShellsInv'
<1>1. PICK P : shells \in Seq(ShellStates(P))
  BY DEF ShellsInv
<1> DEFINE n == Len(shells)
           R == ShellStates(P)
<1> HIDE DEF R
<1>a. shells \in Seq(R) /\ n > 0 /\ me = shells[n]
  BY <1>1 DEF ShellsInv, me, R
<1>2. n \in Nat /\ n \in 1..n /\ me \in R
  BY <1>a
<1>3. shells' = Append(shells, me) /\ UNCHANGED dirs
  BY DEF not_found
<1>4. /\ shells' \in Seq(R) /\ Len(shells') = n + 1 /\ shells'[n + 1] = me
      /\ \A i \in 1..n : shells'[i] = shells[i]
  BY <1>a, <1>2, <1>3
<1>5. ASSUME NEW i \in 1..(n + 1) PROVE ShowsCwd(shells'[i], dirs)
  <2>1. CASE i = n + 1
    BY <1>a, <1>2, <1>4, <2>1 DEF ShellsInv
  <2>2. CASE i # n + 1
    BY <1>2, <1>4, <2>2 DEF ShellsInv
  <2> QED
    BY <2>1, <2>2
<1>6. RootPath \in dirs'
  BY <1>3 DEF ShellsInv
<1> QED
  BY <1>2, <1>3, <1>4, <1>5, <1>6 DEF ShellsInv, R, ShowsCwd

LEMMA ShellsInductive == ShellSpec => []ShellsInv
<1>1. ShellInit => ShellsInv
  <2> SUFFICES ASSUME ShellInit PROVE ShellsInv
    OBVIOUS
  <2> DEFINE r == At(RootPath, RootPath)
             R == ShellStates({RootPath})
  <2>1. r \in R /\ r.cwd = RootPath /\ r.cwd_cache = RootPath
    BY DEF ShellStates, At
  <2>2. shells = <<r>> /\ dirs = {RootPath}
    BY DEF ShellInit
  <2> HIDE DEF r, R
  <2>3. shells \in Seq(R) /\ Len(shells) = 1 /\ shells[1] = r
    BY <2>1, <2>2
  <2> QED
    BY <2>1, <2>2, <2>3 DEF ShellsInv, ShowsCwd, R
<1>2. ASSUME ShellsInv, [ShellNext]_shell_vars PROVE ShellsInv'
  <2>1. ASSUME NEW a \in Args, buildin_cd(a) PROVE ShellsInv'
    BY <1>2, <2>1, CdStep DEF buildin_cd, GoesTo
  <2>2. ASSUME NEW a \in Args, buildin_mkdir(a) PROVE ShellsInv'
    BY <1>2, <2>2, MkdirStep
  <2>3. ASSUME NEW a \in Args, buildin_rmdir(a) PROVE ShellsInv'
    BY <1>2, <2>3, RmdirStep
  <2>4. CASE buildin_cd_home
    BY <1>2, <2>4, CdStep DEF buildin_cd_home, GoesTo, ShellsInv
  <2>5. CASE not_found
    BY <1>2, <2>5, NotFoundStep
  <2>6. CASE \/ type_char("c") \/ type_char("d") \/ type_backspace("bs")
             \/ type_clear("ctrl-l") \/ type_erase("ctrl-u")
             \/ empty_line \/ getcwd_panics \/ blank_line \/ other_command
             \/ UNCHANGED shell_vars
    <3>1. UNCHANGED <<dirs, shells>>
      BY <2>6 DEF type_char, type_backspace, type_clear, type_erase, Stored, empty_line,
                  getcwd_panics, blank_line, other_command, shell_vars
    <3> QED
      BY <1>2, <3>1, SameStep
  <2> QED
    BY <1>2, <2>1, <2>2, <2>3, <2>4, <2>5, <2>6 DEF ShellNext, shell_stopped
<1> QED
  BY <1>1, <1>2, PTL DEF ShellSpec

(***************************************************************************)
(* print_prompt shows the directory the shell is in, in every shell that a *)
(* mistyped command has started, after any cd, mkdir and rmdir.            *)
(***************************************************************************)
THEOREM PromptIsCwdHolds == ShellSpec => []PromptIsCwd
<1>1. ASSUME ShellsInv PROVE PromptIsCwd
  <2>1. PICK P : shells \in Seq(ShellStates(P))
    BY <1>1 DEF ShellsInv
  <2>2. Len(shells) \in 1..Len(shells)
    BY <1>1, <2>1 DEF ShellsInv
  <2> QED
    BY <1>1, <2>2 DEF ShellsInv, ShowsCwd, PromptIsCwd, me
<1> QED
  BY <1>1, ShellsInductive, PTL
=============================================================================
