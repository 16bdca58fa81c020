------------------------------ MODULE Keyboard ------------------------------
(***************************************************************************)
(* intr_keyboard_handler (device/keyboard.c): one interrupt per byte of a  *)
(* scan code, with the modifier state kept between interrupts.  The        *)
(* keyboard controller is external: it queues the one or two bytes of a    *)
(* key's make or break code, and repeats the make code of a key that is    *)
(* held down.                                                              *)
(***************************************************************************)
EXTENDS Naturals, Sequences

CONSTANTS Keys      \* the keys of the instance, by their make code

\* No key has make code 0x60: its break code would be the prefix byte 0xe0.
ASSUME KeysAssumption ==
    \A key \in Keys : \E n \in (1..127) \ {96} : key \in {n, 57344 + n}

\* Make codes; 57344 = 0xe000 marks the codes with the prefix byte 0xe0.
shift_l_make   == 42
shift_r_make   == 54
alt_l_make     == 56
alt_r_make     == 57344 + 56
ctrl_l_make    == 29
ctrl_r_make    == 57344 + 29
caps_lock_make == 58
CtrlKeys  == {ctrl_l_make, ctrl_r_make}
ShiftKeys == {shift_l_make, shift_r_make}
AltKeys   == {alt_l_make, alt_r_make}

VARIABLES
    ctrl_status, shift_status, alt_status, caps_lock_status, ext_status,
    wire,       \* bytes the controller has yet to deliver
    held,       \* history: keys held down, once their code is delivered
    event,      \* history: the last make or break code begun
    char        \* what that code put into kbd_buf, "none" for nothing

modifiers == <<ctrl_status, shift_status, alt_status, caps_lock_status>>
vars == <<ctrl_status, shift_status, alt_status, caps_lock_status, ext_status,
          wire, held, event, char>>

Init ==
    /\ ctrl_status = FALSE /\ shift_status = FALSE /\ alt_status = FALSE
    /\ caps_lock_status = FALSE /\ ext_status = FALSE
    /\ wire = << >> /\ held = {}
    /\ event = [key |-> 0, make |-> FALSE] /\ char = "none"

(***************************************************************************)
(* keymap[index][shift], classed by what the code and the properties tell  *)
(* apart: letters (l and u are the ones ctrl turns into a command), other  *)
(* keys with two characters, keys with one, keys without.                  *)
(***************************************************************************)
Letters  == (16..25) \cup (30..38) \cup (44..50)
Silent   == {0, 29, 42, 54, 56, 58}
OneChar  == {1, 14, 15, 28, 55, 57}     \* esc, backspace, tab, enter, *, space
keymap(index, shift) ==
    IF index \in Silent THEN "none"
    ELSE IF index \in Letters THEN IF shift THEN "upper" ELSE
             IF index \in {38, 22} THEN "lower_l_u" ELSE "lower"
    ELSE IF shift /\ index \notin OneChar THEN "shifted" ELSE "plain"

\* The keys for which caps lock does not count (the test on scancode).
IgnoresCaps(code) == code < 14 \/ code \in {41, 26, 27, 43, 39, 40, 51, 52, 53}

shift_of(code) ==
    IF IgnoresCaps(code) THEN shift_status
    ELSE shift_status # caps_lock_status

cur_char(code) ==
    LET c == keymap(code % 256, shift_of(code))
    IN  IF ctrl_status /\ c = "lower_l_u" THEN "command" ELSE c

\* Variant: the prefix is forgotten.
Scancode_no_prefix(byte) == byte

\* The scan code the handler assembles from the byte it reads.
Scancode(byte) == IF ext_status THEN 57344 + byte ELSE byte

\* if (scancode == 0xe0): remember the prefix and return
handler_prefix ==
    /\ wire # << >> /\ Head(wire) = 224
    /\ ext_status' = TRUE
    /\ wire' = Tail(wire)
    /\ UNCHANGED <<modifiers, held, event, char>>

\* Variant: break codes are compared without the left keys.
handler_break_right_only ==
    /\ wire # << >> /\ Head(wire) # 224 /\ Head(wire) >= 128
    /\ LET make_code == Scancode(Head(wire)) - 128
       IN  /\ ctrl_status'  = (ctrl_status /\ make_code # ctrl_r_make)
           /\ shift_status' = (shift_status /\ make_code # shift_r_make)
           /\ alt_status'   = (alt_status /\ make_code # alt_r_make)
    /\ ext_status' = FALSE
    /\ wire' = Tail(wire)
    /\ held' = held \ {event.key}
    /\ UNCHANGED <<caps_lock_status, event, char>>

\* A break code clears the modifier its make code belongs to.
handler_break ==
    /\ wire # << >> /\ Head(wire) # 224 /\ Head(wire) >= 128
    /\ LET make_code == Scancode(Head(wire)) - 128
       IN  /\ ctrl_status'  = (ctrl_status /\ make_code \notin CtrlKeys)
           /\ shift_status' = (shift_status /\ make_code \notin ShiftKeys)
           /\ alt_status'   = (alt_status /\ make_code \notin AltKeys)
    /\ ext_status' = FALSE
    /\ wire' = Tail(wire)
    /\ held' = held \ {event.key}
    /\ UNCHANGED <<caps_lock_status, event, char>>

\* A make code in the keymap's range, or one of the extended modifiers.
Known(code) == (code > 0 /\ code < 59) \/ code \in {alt_r_make, ctrl_r_make}

handler_make ==
    /\ wire # << >> /\ Head(wire) < 128
    /\ LET code == Scancode(Head(wire))
       IN  IF ~Known(code)
           THEN UNCHANGED <<modifiers, char>>
           ELSE IF cur_char(code) # "none"
           THEN char' = cur_char(code) /\ UNCHANGED modifiers
           ELSE /\ ctrl_status'  = (ctrl_status \/ code \in CtrlKeys)
                /\ shift_status' = (shift_status \/ code \in ShiftKeys)
                /\ alt_status'   = (alt_status \/ code \in AltKeys)
                /\ caps_lock_status' = (caps_lock_status # (code = caps_lock_make))
                /\ UNCHANGED char
    /\ ext_status' = FALSE
    /\ wire' = Tail(wire)
    /\ held' = held \cup {event.key}
    /\ UNCHANGED event

-----------------------------------------------------------------------------
\* The controller starts the code of a key when the previous one is read.
Send(key, make) ==
    /\ wire = << >>
    /\ LET byte == (key % 256) + (IF make THEN 0 ELSE 128)
       IN  wire' = IF key > 57344 THEN <<224, byte>> ELSE <<byte>>
    /\ event' = [key |-> key, make |-> make]
    /\ char' = "none"
    /\ UNCHANGED <<modifiers, ext_status, held>>

\* Pressed, or held long enough to repeat.
Press(key)   == Send(key, TRUE)
Release(key) == key \in held /\ Send(key, FALSE)

Next ==
    \/ handler_prefix
    \/ handler_break
    \/ handler_make
    \/ \E key \in Keys : Press(key) \/ Release(key)

Spec == Init /\ [][Next]_vars

(***************************************************************************)
(* No modifier sticks: whatever was pressed together, repeated or released *)
(* in whatever order, once a code is read completely a modifier is on only *)
(* while one of its keys is down, and no 0xe0 prefix is left over.         *)
(***************************************************************************)
NoStuckModifier ==
    wire = << >> =>
        /\ ctrl_status  => held \cap CtrlKeys # {}
        /\ shift_status => held \cap ShiftKeys # {}
        /\ alt_status   => held \cap AltKeys # {}
        /\ ~ext_status

(***************************************************************************)
(* What a character in the queue says of the keys: the code just handled   *)
(* was the press of a key without the 0xe0 prefix (no release and no arrow *)
(* or keypad slash types), ctrl is held if it is a command, and shift if   *)
(* it comes from the second column of the keymap.  Which of the keymap's   *)
(* rows it comes from is not followed.                                     *)
(***************************************************************************)
KeyTypesItsChar ==
    char # "none" =>
        /\ event.make
        /\ event.key < 57344
        /\ char = "command" => held \cap CtrlKeys # {}
        /\ char = "shifted" => held \cap ShiftKeys # {}
=============================================================================
