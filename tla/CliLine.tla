------------------------------- MODULE CliLine -------------------------------
(***************************************************************************)
(* The line editor of the CLI: get_line of cliutils/cli.c with its escape   *)
(* sequences and the history of lines. The CLI's task alone runs it, one    *)
(* key per turn of its loop, so a key is one step; what a terminal shows of *)
(* the line is followed beside the buffer, for the echo is code of its own. *)
(* The FIFO the keys come from is BlockingFifo, what is done with the line  *)
(* CliRegistry.                                                             *)
(***************************************************************************)
EXTENDS Integers, Sequences, FiniteSets

CONSTANTS
    LineLen,   \* CLI_LINEBUF_LENGTH
    Depth,     \* HISTORY_STACK_DEPTH
    ParamLen,  \* the length of escParam
    PrefixLen, \* the columns of core_prefix on the terminal
    Typed,     \* the printable characters that are typed, the blank " " one of them
    MaxLines   \* bound of the model: lines entered

ASSUME LengthAssumption == LineLen \in Nat \ {0} /\ Depth \in Nat \ {0} /\ ParamLen \in Nat \ {0}
ASSUME TypedAssumption == {"h", " "} \subseteq Typed
ASSUME BoundAssumption == MaxLines \in Nat /\ PrefixLen \in Nat

VARIABLES
    line, lead,     \* pStr[0..*pLen-1]; how far pStr has moved up in sLineBuf
    esc, pos,       \* escString, escPos
    param,          \* escParam[0]
    noMod, histIdx, \* as in get_line
    ends,           \* the loop over the keys is through
    hist, level,    \* sppCmdHistStk, sHistStkLevel
    shown,          \* what the terminal shows left of the cursor, until it is marred
    past,           \* history: the lines kept, newest first, without limit
    edited,         \* history: a key has changed the line since the last recall
    blanked,        \* history: an arrow has found no entry to show
    marred,         \* history: the terminal was sent something that stays beside the line
    overrun,        \* history: sLineBuf or escParam was written behind; nothing follows
    lines           \* history: for the bound

editVars == <<line, esc, pos, param, noMod, histIdx, ends, shown, edited, blanked, marred>>
stkVars == <<hist, level, past>>
vars == <<editVars, lead, stkVars, overrun, lines>>

Least(a, b) == IF a < b THEN a ELSE b
Greatest(a, b) == IF a > b THEN a ELSE b
Entries == 0..Depth - 1

\* CLI_HISTORY_CMD, to one character.
Hist == <<"h">>

\* What follows ESC: the introducer, arrows, a digit, the end of other keys.
EscKeys == {"[", "A", "B", "3", "~"}

\* escParam is not initialised: it may hold what an arrow has left there.
Garbage == {"A", "B", "3"}

Fresh ==
    /\ line' = <<>> /\ shown' = <<>> /\ ends' = FALSE
    /\ esc' = FALSE /\ pos' = 0 /\ param' \in Garbage
    /\ noMod' = TRUE /\ histIdx' = -1
    /\ edited' = FALSE /\ blanked' = FALSE /\ marred' = FALSE

Init ==
    /\ line = <<>> /\ lead = 0 /\ shown = <<>> /\ ends = FALSE
    /\ esc = FALSE /\ pos = 0 /\ param \in Garbage
    /\ noMod = TRUE /\ histIdx = -1
    /\ hist = [k \in Entries |-> <<>>] /\ level = 0
    /\ past = <<>> /\ edited = FALSE /\ blanked = FALSE /\ marred = FALSE
    /\ overrun = FALSE /\ lines = 0

-----------------------------------------------------------------------------
(* The keys *)

\* Fault: one character more.
FullLate(l) == Len(l) > LineLen

\* "(*pLen) < CLI_LINEBUF_LENGTH": a full line is a line that is entered.
Full(l) == Len(l) >= LineLen

\* The length is compared without lead, so pStr[n] may lie behind sLineBuf.
Behind(n) == lead + n > LineLen

\* So may the place of the next character in escParam.
ParamFull == esc /\ pos > ParamLen

Front(s) == IF s = <<>> THEN s ELSE SubSeq(s, 1, Len(s) - 1)

Reading == ~ends /\ ~overrun /\ lines < MaxLines

\* A terminal that shows something else besides is not followed further.
Shows(s) == shown' = IF marred' THEN <<>> ELSE s

Type(ch) ==
    /\ Reading /\ ~esc
    /\ UNCHANGED <<lead, esc, pos, param, noMod, histIdx, stkVars, blanked, marred, lines>>
    /\ line' = Append(line, ch) /\ Shows(Append(shown, ch))
    /\ ends' = Full(line') /\ edited' = TRUE /\ overrun' = Behind(Len(line))

\* The tabulator and other control characters are echoed and not stored.
Control ==
    /\ Reading /\ ~esc
    /\ marred' = TRUE /\ Shows(<<>>)
    /\ UNCHANGED <<line, lead, esc, pos, param, noMod, histIdx, ends, stkVars,
                   edited, blanked, overrun, lines>>

\* Backspace and delete; they alone count as a modification. The echo of a
\* backspace moves the cursor onto the character that the blank after it wipes
\* out; that of a delete does not move it, and the character stays.
Erase(del) ==
    /\ Reading /\ ~esc
    /\ line' = Front(line) /\ noMod' = FALSE /\ edited' = TRUE
    /\ marred' = (marred \/ (del /\ line # <<>>))
    /\ Shows(IF del THEN shown ELSE Front(shown))
    /\ UNCHANGED <<lead, esc, pos, param, histIdx, ends, stkVars, blanked, overrun, lines>>

\* Return ends the line wherever it comes, in an escape sequence too.
Return ==
    /\ Reading
    /\ ends' = TRUE /\ overrun' = ParamFull
    /\ UNCHANGED <<line, lead, esc, pos, param, noMod, histIdx, stkVars, shown,
                   edited, blanked, marred, lines>>

Escape ==
    /\ Reading
    /\ esc' = TRUE /\ pos' = 0
    /\ UNCHANGED <<line, lead, param, noMod, histIdx, ends, stkVars, shown,
                   edited, blanked, marred, overrun, lines>>

EscFirst(ch) ==
    /\ Reading /\ esc /\ pos = 0
    /\ pos' = 1 /\ esc' = (ch = "[")
    /\ UNCHANGED <<line, lead, param, noMod, histIdx, ends, stkVars, shown,
                   edited, blanked, marred, overrun, lines>>

\* Fault: the index may go as far as the level.
TargetPast(up) == IF up THEN Least(level, histIdx + 1) ELSE Greatest(-1, histIdx - 1)

Target(up) == IF up THEN Least(level - 1, histIdx + 1) ELSE Greatest(-1, histIdx - 1)

\* The blanks that wipe the old line out are sent with MSG, which puts the
\* core's prefix before them if the last MSG, of whichever task, has ended in a
\* newline; a shorter entry leaves the rest of the prefix on the terminal.
Prefixed(k) ==
    \E prefix \in BOOLEAN :
        marred' = (marred \/ (prefix /\ (k = -1 \/ Len(hist[k]) < PrefixLen)))

\* Fault: the buffer is left as it is.
RecallShown(k) ==
    /\ histIdx' = k /\ Prefixed(k)
    /\ Shows(IF k > -1 THEN hist[k] ELSE <<>>)
    /\ ends' = (k > -1 /\ Full(hist[k]))
    /\ edited' = (edited /\ k = -1) /\ blanked' = (k = -1)
    /\ UNCHANGED line

\* The line on the terminal is blanked and the entry's written over it. Without
\* an entry the buffer keeps what is no longer to be seen.
Recall(k) ==
    /\ histIdx' = k /\ Prefixed(k)
    /\ Shows(IF k > -1 THEN hist[k] ELSE <<>>)
    /\ line' = IF k > -1 THEN hist[k] ELSE line
    /\ ends' = Full(line')
    /\ edited' = (edited /\ k = -1) /\ blanked' = (k = -1)

\* The sequence ends and is acted upon by its first parameter, which is stored
\* after that: an arrow does what the arrow before it has asked for.
EscNext(ch) ==
    LET acts == ch \in {"A", "B", "~"} /\ param \in {"A", "B"} /\ noMod
        k    == Target(param = "A")
    IN  /\ Reading /\ esc /\ pos > 0
        /\ pos' = pos + 1
        /\ esc' = (ch \notin {"A", "B", "~"})
        /\ param' = IF pos = 1 /\ ch # "~" THEN ch ELSE param
        /\ IF acts THEN Recall(k)
                   ELSE UNCHANGED <<line, histIdx, ends, shown, edited, blanked, marred>>
        /\ overrun' = ((ch # "~" /\ ParamFull) \/ (acts /\ k > -1 /\ Behind(Len(hist[k]))))
        /\ UNCHANGED <<lead, noMod, stkVars, lines>>

-----------------------------------------------------------------------------
(* The end of the line *)

LeftBlanks(l) == Cardinality({k \in 1..Len(l) : \A m \in 1..k : l[m] = " "})
RightBlanks(l) == Cardinality({k \in 1..Len(l) : \A m \in k..Len(l) : l[m] = " "})

\* The line without the blanks at its ends.
Trim(l) == SubSeq(l, LeftBlanks(l) + 1, Len(l) - RightBlanks(l))

\* Fault: the oldest entry is not overwritten.
ShiftedShort(new) ==
    [k \in Entries |-> IF k = 0 THEN new ELSE IF k = Depth - 1 THEN hist[k] ELSE hist[k - 1]]

Shifted(new) == [k \in Entries |-> IF k = 0 THEN new ELSE hist[k - 1]]

\* put_onto_cmd_hist_stk, and the same done to a list without limit.
Put(new) ==
    /\ IF new \in {<<>>, hist[0]} THEN UNCHANGED <<hist, level>>
       ELSE hist' = Shifted(new) /\ level' = Least(level + 1, Depth)
    /\ past' = IF new = <<>> \/ (past # <<>> /\ new = past[1]) THEN past ELSE <<new>> \o past

\* The terminating zero of the line is written behind the buffer.
Spill ==
    /\ ends /\ ~overrun /\ Behind(Len(line))
    /\ overrun' = TRUE
    /\ UNCHANGED <<editVars, lead, stkVars, lines>>

\* The history command is answered and the next line read behind the blanks
\* before it; any other line goes to process_cli_line.
Finish ==
    /\ ends /\ ~overrun /\ ~Behind(Len(line))
    /\ IF Trim(line) = Hist THEN lead' = lead + LeftBlanks(line) /\ UNCHANGED stkVars
                            ELSE lead' = 0 /\ Put(Trim(line))
    /\ lines' = lines + 1
    /\ Fresh
    /\ UNCHANGED overrun

-----------------------------------------------------------------------------
Next == \/ \E ch \in Typed : Type(ch)
        \/ \E del \in BOOLEAN : Erase(del)
        \/ Control \/ Return \/ Escape
        \/ \E ch \in EscKeys : EscFirst(ch) \/ EscNext(ch)
        \/ Spill \/ Finish

Spec == Init /\ [][Next]_vars

-----------------------------------------------------------------------------
(* Properties *)

Text == Seq(Typed)

\* Every variable has its type: the line is no longer than its buffer, no
\* character of it lies behind sLineBuf before an overrun, and the index is that
\* of an entry in use or -1.
TypeOK ==
    /\ line \in Text /\ Len(line) <= LineLen /\ shown \in Text
    /\ lead \in 0..LineLen /\ (~overrun => lead + Len(line) <= LineLen + 1)
    /\ esc \in BOOLEAN /\ pos \in 0..ParamLen + 2 /\ param \in Garbage \cup {"["}
    /\ noMod \in BOOLEAN /\ ends \in BOOLEAN
    /\ level \in 0..Depth /\ histIdx \in -1..level - 1
    /\ hist \in [Entries -> Text] /\ past \in Seq(Text)
    /\ edited \in BOOLEAN /\ blanked \in BOOLEAN /\ marred \in BOOLEAN
    /\ overrun \in BOOLEAN /\ lines \in 0..MaxLines

\* Memory behind the buffers is written only where a line is read behind the
\* blanks of a history command, or an escape sequence is longer than escParam:
\* whatever else is typed, recalled and entered at once stays inside.
BufferKept == overrun => lead > 0 \/ pos > ParamLen

\* The stack holds the newest lines that are neither empty, the history command
\* nor the line before them once more, newest first, as many as have room.
HistoryExact ==
    /\ level = Least(Len(past), Depth)
    /\ \A k \in 0..level - 1 : hist[k] = past[k + 1]

\* What return will enter is what the terminal shows, unless an arrow has found
\* no entry, or a control character, a delete or the core's prefix has spoilt
\* the terminal's line; and after an arrow that has found an entry it is that.
LineRight ==
    /\ ~blanked /\ ~marred => shown = line
    /\ histIdx > -1 /\ ~edited => line = hist[histIdx]

\* "replace only if no modification has made to the input buffer": a line that
\* keys have changed is left only by entering it.
KeptIfEdited == [][edited /\ ~edited' => ends]_vars

\* "case 'A': // UP", "case 'B': { // DOWN": an arrow moves the index of the
\* history its own way, with an arrow of the same line before it or not.
ArrowsMove ==
    [][\A ch \in {"A", "B"} :
           pos = 1 /\ noMod /\ histIdx > -1 /\ EscNext(ch) => histIdx' = Target(ch = "A")]_vars
=============================================================================
