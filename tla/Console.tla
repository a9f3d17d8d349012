------------------------------- MODULE Console -------------------------------
(***************************************************************************)
(* From the key to the screen and the reader: Ps2Controller, Ps2Keyboard   *)
(* (kernel/cpp/Keyboard.cpp), Tty and VgaController with its cursor.  The  *)
(* keyboard itself is external: it sends the bytes of scan code set 2.     *)
(*                                                                         *)
(* One interrupt reads one scan code, of one to eight bytes, and empties   *)
(* the controller at its end.  Blocking readers are in SignalManager; here *)
(* a read returns what the Tty has.  The keys are representatives: a letter*)
(* a keypad digit, enter, shift, control, two locks, and the keys with the *)
(* odd codes.                                                              *)
(***************************************************************************)
EXTENDS Integers, Sequences, FiniteSets

CONSTANTS
    KeysUsed,     \* keys that are pressed
    Width, Height,\* the screen; VgaCursor has 80 and 25
    MaxEvents,    \* bound on presses, releases and repeats
    ReadCounts,   \* counts given to read; 0 asks for a line
    Printed,      \* characters processes print
    KCareful      \* is typing slow, and are the cases at ConsoleRules left out?

Cells == 0 .. Width * Height - 1
NoChar == ""
Newline == "nl"

VARIABLES
    kPhys, kRefLocks, \* keys held down; the locks as the user sees them
    kQueue,        \* bytes in the keyboard and the controller
    kPs2,          \* Ps2Controller: devices found, interrupts enabled
    kPressed, kLocks, kLeds,
    tBuffer, tNewline, \* Tty::buffer and newline_pos
    tDelivered,    \* what read has returned so far
    kTyped,        \* what the user has typed, as characters
    sCells, sCursor, \* VgaController::buffer, VgaCursor::cursor_pos
    sRows,         \* reference: the rows of text printed so far
    kEvents
consoleVars == <<kPhys, kRefLocks, kQueue, kPs2, kPressed, kLocks, kLeds, tBuffer, tNewline,
                 tDelivered, kTyped, sCells, sCursor, sRows, kEvents>>
screenVars == <<sCells, sCursor, sRows>>
keyVars == <<kPhys, kRefLocks, kQueue, kPs2, kPressed, kLocks, kLeds, kTyped, kEvents>>

LockKeys == {"capslock", "numlock"}

ConsoleInit ==
    /\ kPhys = {} /\ kRefLocks = {} /\ kQueue = <<>>
    /\ kPs2 = [booted |-> FALSE, dev1 |-> TRUE, dev2 |-> TRUE, irq |-> {}]
    /\ kPressed = {} /\ kLocks = {} /\ kLeds = {}
    /\ tBuffer = <<>> /\ tNewline = -1 /\ tDelivered = <<>> /\ kTyped = <<>>
    /\ sCells = [i \in Cells |-> NoChar] /\ sCursor = 0 /\ sRows = <<<<>>>>
    /\ kEvents = 0

-----------------------------------------------------------------------------
(* Ps2Controller                                                           *)
EnabledIrqs(p) == {n \in {1, 2} : IF n = 1 THEN p.dev1 ELSE p.dev2}

\* The constructor: a failed self test leaves both devices as found, a port that
\* is not reported at first is never found, a port that fails its test is off.
\* The kernel enables interrupts at the end of its own initialisation.
Ps2Boot(selfTest, port1, port2, test1, test2) ==
    LET found == [dev1 |-> port1 /\ (selfTest => test1),
                  dev2 |-> port2 /\ (selfTest => test2)]
    IN /\ ~kPs2.booted
       /\ kPs2' = [booted |-> TRUE, dev1 |-> found.dev1, dev2 |-> found.dev2,
                   irq |-> EnabledIrqs(found)]
       /\ UNCHANGED <<kPhys, kRefLocks, kQueue, kPressed, kLocks, kLeds, tBuffer, tNewline,
                      tDelivered, kTyped, screenVars, kEvents>>

-----------------------------------------------------------------------------
(* The keyboard (external)                                                 *)
MakeCode ==
        [a |-> <<"1C">>, k1 |-> <<"69">>, enter |-> <<"5A">>, lshift |-> <<"12">>,
         lctrl |-> <<"14">>, capslock |-> <<"58">>, numlock |-> <<"77">>,
         uarrow |-> <<"E0", "75">>, prtscrn |-> <<"E0", "12", "E0", "7C">>,
         pause |-> <<"E1", "14", "77", "E1", "F0", "14", "F0", "77">>]
BreakCode(k) ==
    CASE k = "prtscrn" -> <<"E0", "F0", "7C", "E0", "F0", "12">>
      [] k = "uarrow" -> <<"E0", "F0", "75">>
      [] OTHER -> <<"F0">> \o MakeCode[k]

\* The character a user means by a key.
MeantBy(k) ==
    LET shift == "lshift" \in kPhys
    IN IF "lctrl" \in kPhys THEN NoChar
       ELSE CASE k = "a" -> IF shift = ("capslock" \in kRefLocks) THEN "a" ELSE "A"
              [] k = "k1" -> IF shift = ("numlock" \in kRefLocks) THEN NoChar ELSE "1"
              [] k = "enter" -> Newline
              [] OTHER -> NoChar
Typed(c) == IF c = NoChar THEN kTyped ELSE Append(kTyped, c)
Toggle(locks, k) == IF k \notin LockKeys THEN locks
                    ELSE IF k \in locks THEN locks \ {k} ELSE locks \cup {k}

\* ConsoleRules: a careful user lets each interrupt finish before the next key,
\* holds no lock key down until it repeats, and prints no empty line at the
\* bottom of the screen.
Slow == KCareful => kQueue = <<>>

CanSend == kPs2.booted /\ kPs2.dev1 /\ kEvents < MaxEvents /\ Slow
Sends(bytes) ==
    /\ kQueue' = kQueue \o bytes
    /\ kEvents' = kEvents + 1
    /\ UNCHANGED <<kPs2, kPressed, kLocks, kLeds, tBuffer, tNewline, tDelivered, screenVars>>

PressKey(k) ==
    /\ CanSend /\ k \notin kPhys
    /\ kPhys' = IF k = "pause" THEN kPhys ELSE kPhys \cup {k}
    /\ kTyped' = Typed(MeantBy(k))
    /\ kRefLocks' = Toggle(kRefLocks, k)
    /\ Sends(MakeCode[k])
RepeatKey(k) ==
    /\ CanSend /\ k \in kPhys
    /\ KCareful => k \notin LockKeys
    /\ kTyped' = Typed(MeantBy(k))
    /\ Sends(MakeCode[k])
    /\ UNCHANGED <<kPhys, kRefLocks>>
ReleaseKey(k) ==
    /\ CanSend /\ k \in kPhys
    /\ kPhys' = kPhys \ {k}
    /\ Sends(BreakCode(k))
    /\ UNCHANGED <<kTyped, kRefLocks>>

-----------------------------------------------------------------------------
(* Ps2Keyboard                                                             *)
\* read_code_sc2: does the code go on after these bytes?
GoesOn(c) ==
    CASE Len(c) = 1 -> c[1] \in {"E0", "F0", "E1"}
      [] Len(c) = 2 -> c \in {<<"E0", "F0">>, <<"E0", "12">>, <<"E1", "14">>}
      [] Len(c) = 3 -> c \in {<<"E0", "12", "E0">>, <<"E0", "F0", "7C">>, <<"E1", "14", "77">>}
      [] Len(c) = 4 -> c[4] \in {"E0", "E1"}
      [] Len(c) = 5 -> c[5] = "F0"
      [] Len(c) = 6 -> c[6] = "14"
      [] Len(c) = 7 -> c[7] = "F0"
      [] OTHER -> FALSE
\* get_response gives up after max_tries and returns 0.
Byte(n) == IF n <= Len(kQueue) THEN kQueue[n] ELSE "00"
Bytes8(n) == [i \in 1 .. n |-> Byte(i)]
CodeLength == CHOOSE n \in 1 .. 8 : ~GoesOn(Bytes8(n)) /\ \A j \in 1 .. n - 1 : GoesOn(Bytes8(j))

BasicKeys == {"a", "k1", "enter", "lshift", "lctrl", "capslock", "numlock"}
Sc2Basic(b) == IF \E k \in BasicKeys : MakeCode[k] = <<b>>
               THEN CHOOSE k \in BasicKeys : MakeCode[k] = <<b>> ELSE "inv"
Sc2Extended(b) == IF b = "75" THEN "uarrow" ELSE "inv"

\* Mutant: releases of extended keys are taken for presses.
DecodeSc2Extended(c) ==
    CASE Len(c) = 1 -> [key |-> Sc2Basic(c[1]), down |-> TRUE]
      [] Len(c) = 2 /\ c[1] = "F0" -> [key |-> Sc2Basic(c[2]), down |-> FALSE]
      [] Len(c) = 2 /\ c[1] = "E0" -> [key |-> Sc2Extended(c[2]), down |-> TRUE]
      [] Len(c) = 3 /\ SubSeq(c, 1, 2) = <<"E0", "F0">> -> [key |-> Sc2Extended(c[3]), down |-> TRUE]
      [] OTHER -> [key |-> "inv", down |-> TRUE]

DecodeSc2(c) ==
    CASE Len(c) = 1 -> [key |-> Sc2Basic(c[1]), down |-> TRUE]
      [] Len(c) = 2 /\ c[1] = "E0" -> [key |-> Sc2Extended(c[2]), down |-> TRUE]
      [] Len(c) = 2 /\ c[1] = "F0" -> [key |-> Sc2Basic(c[2]), down |-> FALSE]
      [] Len(c) = 3 /\ SubSeq(c, 1, 2) = <<"E0", "F0">> -> [key |-> Sc2Extended(c[3]), down |-> FALSE]
      [] c = MakeCode["prtscrn"] -> [key |-> "prtscrn", down |-> TRUE]
      [] c = BreakCode("prtscrn") -> [key |-> "prtscrn", down |-> FALSE]
      [] c = MakeCode["pause"] -> [key |-> "pause", down |-> TRUE]
      [] OTHER -> [key |-> "inv", down |-> TRUE]

Unshifted(k) == CASE k = "a" -> "a" [] k = "enter" -> Newline [] OTHER -> NoChar
Shifted(k) == CASE k = "a" -> "A" [] k = "k1" -> "1" [] k = "enter" -> Newline [] OTHER -> NoChar

\* get_ascii: num lock reverses shift on the keypad, caps lock on letters.
GetAscii(k, pressed, locks) ==
    LET shift == "lshift" \in pressed
        upper == IF "numlock" \in locks /\ k = "k1" THEN ~shift ELSE shift
        test == IF upper THEN Shifted(k) ELSE Unshifted(k)
    IN IF "lctrl" \in pressed THEN NoChar
       ELSE IF test \in {"a", "A"} /\ "capslock" \in locks
       THEN (IF shift THEN Unshifted(k) ELSE Shifted(k)) ELSE test

-----------------------------------------------------------------------------
(* VgaController                                                           *)
Scrolled(b) == [i \in Cells |-> IF i + Width \in Cells THEN b[i + Width] ELSE NoChar]
Screen(b, c) == [cells |-> b, cursor |-> c]
ScrollScreen(s) ==
    Screen(Scrolled(s.cells), IF s.cursor >= Width THEN s.cursor - Width ELSE s.cursor)

\* new_line(pos): lines below move down, or everything up if the last is in use.
LastOccupied(b) == \E i \in Width * (Height - 1) .. Width * Height - 1 : b[i] # NoChar
After(b, pos) ==
    Cardinality({i \in Cells : i >= pos /\ \A j \in pos .. i : b[j] # NoChar})
ShiftDown(b, from) ==
    [i \in Cells |-> IF i >= from + Width THEN b[i - Width] ELSE IF i >= from THEN NoChar ELSE b[i]]
CutLine(b, pos, after) ==
    LET shift == Width - (pos % Width)
        moved == [i \in Cells |-> IF i \in pos + shift .. pos + after + shift - 1 THEN b[i - shift] ELSE b[i]]
    IN [i \in Cells |-> IF i \in pos .. ((pos \div Width) + 1) * Width - 1 THEN NoChar ELSE moved[i]]
NewLineAt(s, pos) ==
    LET after == After(s.cells, pos)
        down == ~((pos % Width) + after > Width /\ after < Width)
        up == down /\ LastOccupied(s.cells)
        t == IF up THEN ScrollScreen(s) ELSE s
        p == IF up THEN pos - Width ELSE pos
        below == IF down THEN ShiftDown(t.cells, (((p + after) \div Width) + 1) * Width) ELSE t.cells
    IN IF up /\ pos < Width
       THEN Screen([i \in Cells |-> IF i < after THEN s.cells[i + pos]
                                    ELSE IF i < pos + after THEN NoChar ELSE s.cells[i]], s.cursor)
       ELSE Screen(CutLine(below, p, after), t.cursor)
\* Setting the cursor to a row that is not there does nothing.
NewLine(s) ==
    LET t == NewLineAt(s, s.cursor)
        row == (t.cursor \div Width) + 1
    IN IF row < Height THEN Screen(t.cells, row * Width) ELSE t

\* Mutant: the screen scrolls before the last cell is written.
PutCharEarly(s, c) ==
    IF c = Newline THEN NewLine(s)
    ELSE LET t == IF s.cursor = Width * Height - 1 THEN ScrollScreen(s) ELSE s
         IN Screen([t.cells EXCEPT ![s.cursor] = c], t.cursor + 1)

PutChar(s, c) ==
    IF c = Newline THEN NewLine(s)
    ELSE LET put == Screen([s.cells EXCEPT ![s.cursor] = c], s.cursor)
             t == IF s.cursor = Width * Height - 1 THEN ScrollScreen(put) ELSE put
         IN Screen(t.cells, t.cursor + 1)

\* The reference: rows of text, a full row followed by a new one.
LastRow == sRows[Len(sRows)]
RowsWith(c) ==
    IF c = Newline THEN Append(sRows, <<>>)
    ELSE LET grown == [sRows EXCEPT ![Len(sRows)] = Append(LastRow, c)]
         IN IF Len(LastRow) + 1 = Width THEN Append(grown, <<>>) ELSE grown
WellPlaced(c) == KCareful /\ c = Newline /\ Len(sRows) >= Height => LastRow # <<>>
Display(c) ==
    LET s == PutChar(Screen(sCells, sCursor), c)
    IN /\ WellPlaced(c)
       /\ sCells' = s.cells /\ sCursor' = s.cursor
       /\ sRows' = RowsWith(c)

-----------------------------------------------------------------------------
(* The keys are those of the tables, and the screen has two rows or more.    *)
ASSUME ConsoleAssumption ==
    /\ Width \in Nat \ {0} /\ Height \in Nat \ {0, 1}
    /\ KeysUsed \subseteq DOMAIN MakeCode
    /\ ReadCounts \subseteq Nat
    /\ NoChar \notin Printed

-----------------------------------------------------------------------------
(* Tty and the interrupt handler                                           *)
AddChar(c) ==
    /\ tBuffer' = Append(tBuffer, c)
    /\ tNewline' = IF c = Newline /\ tNewline = -1 THEN Len(tBuffer) ELSE tNewline
    /\ Display(c)

\* read_key in ascii mode.  A lock key sets the LEDs, which the keyboard may
\* refuse; what else is in the controller at the end is thrown away.
ReadKey ==
    LET d == DecodeSc2(Bytes8(CodeLength))
        pressed == IF d.key = "inv" THEN kPressed
                   ELSE IF d.down THEN kPressed \cup {d.key} ELSE kPressed \ {d.key}
        output == d.key # "inv" /\ d.key \in pressed
        locks == IF output THEN Toggle(kLocks, d.key) ELSE kLocks
        c == IF output THEN GetAscii(d.key, pressed, locks) ELSE NoChar
    IN /\ kQueue # <<>> /\ 1 \in kPs2.irq
       /\ kPressed' = pressed
       /\ kLocks' = locks
       /\ kLeds' \in IF locks = kLocks THEN {kLeds} ELSE {kLeds, locks}
       /\ IF c = NoChar THEN UNCHANGED <<tBuffer, tNewline, screenVars>> ELSE AddChar(c)
       /\ kQueue' = <<>>
       /\ kPs2' = [kPs2 EXCEPT !.irq = EnabledIrqs(kPs2)]
       /\ UNCHANGED <<kPhys, kRefLocks, tDelivered, kTyped, kEvents>>

\* buffer.find
FirstNewline(b) ==
    LET at == {i \in DOMAIN b : b[i] = Newline}
    IN IF at = {} THEN -1 ELSE (CHOOSE i \in at : \A j \in at : i <= j) - 1

ReadChars(count) ==
    LET end == IF count = 0 \/ count > tNewline + 1 THEN tNewline + 1 ELSE count
        rest == SubSeq(tBuffer, end + 1, Len(tBuffer))
    IN /\ tNewline # -1
       /\ tDelivered' = tDelivered \o SubSeq(tBuffer, 1, end)
       /\ tBuffer' = rest
       /\ tNewline' = FirstNewline(rest)
       /\ UNCHANGED <<keyVars, screenVars>>

PrintChar(c) ==
    /\ kEvents < MaxEvents
    /\ kEvents' = kEvents + 1
    /\ Display(c)
    /\ UNCHANGED <<kPhys, kRefLocks, kQueue, kPs2, kPressed, kLocks, kLeds, tBuffer, tNewline,
                   tDelivered, kTyped>>

ConsoleNext ==
    \/ \E st, p1, p2, t1, t2 \in BOOLEAN : Ps2Boot(st, p1, p2, t1, t2)
    \/ \E k \in KeysUsed : PressKey(k) \/ RepeatKey(k) \/ ReleaseKey(k)
    \/ ReadKey
    \/ \E n \in ReadCounts : ReadChars(n)
    \/ \E c \in Printed : PrintChar(c)
ConsoleSpec == ConsoleInit /\ [][ConsoleNext]_consoleVars

-----------------------------------------------------------------------------
\* Between interrupts the driver agrees with the fingers: it knows which keys
\* are down and which locks are on, and readers have got or will get, in order
\* and once, the characters meant by the keys, through any mixture of
\* plain and extended codes, modifiers, locks and partial reads; and the Tty
\* offers a line exactly when it holds one.
KeysFaithful == kQueue = <<>> =>
    /\ kPressed \ {"pause"} = kPhys
    /\ kLocks = kRefLocks
    /\ tDelivered \o tBuffer = kTyped
    /\ tNewline = FirstNewline(tBuffer)

\* The screen shows the last rows of all the text printed and echoed, each
\* character in its place, and the cursor stands behind the last one.
ScreenFaithful ==
    LET first == IF Len(sRows) > Height THEN Len(sRows) - Height ELSE 0
        Shown(r, c) == IF first + r <= Len(sRows) /\ c <= Len(sRows[first + r])
                       THEN sRows[first + r][c] ELSE NoChar
    IN /\ \A i \in Cells : sCells[i] = Shown((i \div Width) + 1, (i % Width) + 1)
       /\ sCursor = (Len(sRows) - first - 1) * Width + Len(LastRow)
=============================================================================
