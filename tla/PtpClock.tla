------------------------------- MODULE PtpClock -------------------------------
(***************************************************************************)
(* The functions of mac_drv.c that flexPTP steers the hardware clock with   *)
(* (flexptp_options.h): set the time, jump by a time, set the addend of the *)
(* fine correction. Each writes its value to registers, waits for a bit of  *)
(* MACTSCR that the hardware clears, and sets that bit by loading and       *)
(* storing the register, while the hardware may clear others. The clock is  *)
(* what the hardware has been told: the words it found in the registers.    *)
(***************************************************************************)
EXTENDS Integers, Sequences, SequencesExt

CONSTANTS
    Second,           \* the nanoseconds in a second, 1000000000
    Seconds, Nanos,   \* absolute seconds and nanoseconds a call is given
    Addends,          \* arguments of ETHHW_SetPTPAddend
    Rounds,           \* SetPTPAddend loads the addend so many times, 8
    MaxCalls          \* bound of the model: calls in a behaviour

ASSUME TimeAssumption ==
    /\ Second \in Nat \ {0}
    /\ Seconds \subseteq Nat
    /\ Nanos \subseteq 0..(Second - 1)
ASSUME RoundsAssumption == Rounds \in Nat \ {0}
ASSUME CallsAssumption == MaxCalls \in Nat

VARIABLES
    tscr,             \* MACTSCR: the bits that are set
    update, tsar,     \* MACSTSUR with MACSTNUR and its bit ADDSUB; MACTSAR
    addend,           \* the addend the clock runs with
    pc, op,           \* the caller: step and function
    arg, value,       \* its argument: the time of a jump, an addend
    tmp, i,           \* tmpreg and the loop counter of the function
    wanted, made,     \* history: jumps and settings asked for, and carried out
    due,              \* history: requests of each kind since the last one carried out
    hasty,            \* history: a call began before the last jump was carried out
    calls             \* history: for the bound

regVars == <<tscr, update, tsar, addend>>
callVars == <<pc, op, arg, value, tmp, i>>
histVars == <<wanted, made, due, hasty, calls>>
vars == <<regVars, callVars, histVars>>

Ops == {"init", "update", "addend", "fine", "coarse"}
Bits == {"TSINIT", "TSUPDT", "TSADDREG", "TSCFUPDT"}
Jumps == {"init", "update"}

\* The bit of MACTSCR each function is about.
Bit == [init |-> "TSINIT", update |-> "TSUPDT", addend |-> "TSADDREG",
        fine |-> "TSCFUPDT", coarse |-> "TSCFUPDT"]

\* The bits a function waits for.
Awaits(o) == CASE o = "init" -> {"TSINIT"}
               [] o = "update" -> {"TSUPDT", "TSINIT"}
               [] o = "addend" -> {"TSADDREG"}
               [] OTHER -> {}

Signed(S) == S \cup {-k : k \in S}
Times == [s : Signed(Seconds), ns : Signed(Nanos)]
Word == [sec : Nat, nsec : 0..Second, sub : BOOLEAN]
Jump == [how : Jumps, word : Word]

Abs(k) == IF k < 0 THEN -k ELSE k
Negative(t) == t.s * Second + t.ns < 0

\* Fault: the nanoseconds are complemented whole.
WordsWhole(o, t) ==
    LET add == o = "init" \/ Negative(t)
    IN  [sec |-> Abs(t.s), nsec |-> IF add THEN Abs(t.ns) ELSE 2 * Second - Abs(t.ns), sub |-> ~add]

\* What a jump's registers are to hold, bit 31 of the nanoseconds being ADDSUB,
\* set to subtract. The macros hand over absolute values,
\* and whether the time is negative as add_substract, where "true = add".
Words(o, t) ==
    LET add == o = "init" \/ Negative(t)
    IN  [sec  |-> Abs(t.s),
         nsec |-> IF add THEN Abs(t.ns) ELSE Second - Abs(t.ns) \div 2,
         sub  |-> ~add]

Init ==
    /\ tscr = {}
    /\ update = [sec |-> 0, nsec |-> 0, sub |-> FALSE]
    /\ tsar \in Addends /\ addend = tsar
    /\ pc = "idle" /\ op = "coarse" /\ arg \in Times /\ value = tsar
    /\ tmp = {} /\ i = 0
    /\ wanted = <<>> /\ made = <<>> /\ due = [o \in Jumps |-> 0]
    /\ hasty = FALSE /\ calls = 0

-----------------------------------------------------------------------------
(* The functions *)

Pending == tscr \cap {"TSINIT", "TSUPDT"}

Begin(o) ==
    /\ pc = "idle" /\ calls < MaxCalls
    /\ op' = o /\ i' = 0
    /\ hasty' = (hasty \/ Pending # {})
    /\ calls' = calls + 1
    /\ UNCHANGED <<regVars, tmp, made, due>>

CallJump(o, t) ==
    /\ Begin(o)
    /\ arg' = t
    /\ wanted' = Append(wanted, [how |-> o, word |-> Words(o, t)])
    /\ pc' = "write"
    /\ UNCHANGED value

CallAddend(v) ==
    /\ Begin("addend")
    /\ value' = v /\ pc' = "write"
    /\ UNCHANGED <<arg, wanted>>

CallFine(o) ==
    /\ Begin(o)
    /\ pc' = "load"
    /\ UNCHANGED <<arg, value, wanted>>

\* The value registers are written first, those of a jump one after the other...
WriteSeconds ==
    /\ pc = "write" /\ op \in Jumps
    /\ update' = [update EXCEPT !.sec = Words(op, arg).sec]
    /\ pc' = "writeNs"
    /\ UNCHANGED <<tscr, tsar, addend, op, arg, value, tmp, i, histVars>>

\* Fault: MACSTNUR keeps what it held.
WriteNanosNot ==
    /\ pc = "writeNs"
    /\ pc' = "wait"
    /\ UNCHANGED <<regVars, op, arg, value, tmp, i, histVars>>

WriteNanos ==
    /\ pc = "writeNs"
    /\ update' = [update EXCEPT !.nsec = Words(op, arg).nsec, !.sub = Words(op, arg).sub]
    /\ pc' = "wait"
    /\ UNCHANGED <<tscr, tsar, addend, op, arg, value, tmp, i, histVars>>

WriteAddend ==
    /\ pc = "write" /\ op = "addend"
    /\ tsar' = value
    /\ pc' = "wait"
    /\ UNCHANGED <<tscr, update, addend, op, arg, value, tmp, i, histVars>>

\* Fault: the function does not wait.
WaitNot ==
    /\ pc = "wait"
    /\ pc' = "load"
    /\ UNCHANGED <<regVars, op, arg, value, tmp, i, histVars>>

\* ...and then the function waits for the hardware.
Wait ==
    /\ pc = "wait" /\ tscr \cap Awaits(op) = {}
    /\ pc' = "load"
    /\ UNCHANGED <<regVars, op, arg, value, tmp, i, histVars>>

Load ==
    /\ pc = "load"
    /\ tmp' = tscr /\ pc' = "store"
    /\ UNCHANGED <<regVars, op, arg, value, i, histVars>>

\* Fault: the hardware is not told of the addend.
ModifiedNot(o, word) ==
    IF o \in {"coarse", "addend"} THEN word \ {Bit[o]} ELSE word \cup {Bit[o]}

\* What becomes of the word loaded from MACTSCR.
Modified(o, word) == IF o = "coarse" THEN word \ {Bit[o]} ELSE word \cup {Bit[o]}

\* Fault: one round more.
AgainLate == op = "addend" /\ i <= Rounds

\* SetPTPAddend's loop goes on.
Again == op = "addend" /\ i + 1 < Rounds

\* What the hardware has cleared since the load is set again.
Store ==
    /\ pc = "store"
    /\ tscr' = Modified(op, tmp)
    /\ i' = i + 1
    /\ pc' = IF Again THEN "write" ELSE "idle"
    /\ due' = IF op \in Jumps THEN [due EXCEPT ![op] = @ + 1] ELSE due
    /\ UNCHANGED <<update, tsar, addend, op, arg, value, tmp, wanted, made, hasty, calls>>

-----------------------------------------------------------------------------
(* The hardware *)

\* It sets the clock or jumps by what the registers hold now.
DoJump(o) ==
    /\ Bit[o] \in tscr
    /\ tscr' = tscr \ {Bit[o]}
    /\ made' = Append(made, [how |-> o, word |-> update])
    /\ due' = [due EXCEPT ![o] = 0]
    /\ UNCHANGED <<update, tsar, addend, callVars, wanted, hasty, calls>>

DoAddend ==
    /\ "TSADDREG" \in tscr
    /\ tscr' = tscr \ {"TSADDREG"}
    /\ addend' = tsar
    /\ UNCHANGED <<update, tsar, callVars, histVars>>

-----------------------------------------------------------------------------
Next == \/ \E o \in Jumps, t \in Times : CallJump(o, t)
        \/ \E v \in Addends : CallAddend(v)
        \/ \E o \in {"fine", "coarse"} : CallFine(o)
        \/ WriteSeconds \/ WriteNanos \/ WriteAddend
        \/ Wait \/ Load \/ Store
        \/ \E o \in Jumps : DoJump(o)
        \/ DoAddend

Spec == Init /\ [][Next]_vars

-----------------------------------------------------------------------------
(* Properties *)

\* Every variable has its type: MACTSCR holds no bits but those of the functions,
\* the nanoseconds fit MACSTNUR beside the bit ADDSUB, though they may be a whole
\* second, and the addend is set no more often than the loop is long.
TypeOK ==
    /\ tscr \subseteq Bits /\ tmp \subseteq Bits
    /\ update \in Word /\ arg \in Times
    /\ tsar \in Addends /\ addend \in Addends /\ value \in Addends
    /\ pc \in {"idle", "write", "writeNs", "wait", "load", "store"} /\ op \in Ops
    /\ i \in 0..Rounds
    /\ wanted \in Seq(Jump) /\ made \in Seq(Jump)
    /\ due \in [Jumps -> Nat]
    /\ hasty \in BOOLEAN /\ calls \in 0..MaxCalls

Jumping == op \in Jumps /\ pc # "idle"

\* As long as no call has begun before the hardware was through with the last
\* jump, every jump is carried out once, in order and with the words its own
\* call has computed, one that is under way excepted.
JumpsOnce ==
    ~hasty =>
        IF Jumping \/ Pending # {}
        THEN wanted # <<>> /\ wanted = Append(made, Last(wanted))
        ELSE made = wanted

\* However calls and hardware overlap, no jump asked for is dropped: none is
\* asked for on top of one of its kind still to be carried out, each stays
\* pending until it is, and when all is done the words carried out last are those
\* of the last call.
NoJumpLost ==
    /\ \A o \in Jumps : due[o] = 0 \/ (due[o] = 1 /\ Bit[o] \in tscr)
    /\ ~Jumping /\ Pending = {} /\ wanted # <<>> =>
          made # <<>> /\ Last(made).word = Last(wanted).word

\* When no call is under way, the clock runs with the addend set last, or the
\* hardware is still to take it; however the calls overlap its operations.
AddendRight == pc = "idle" => addend = tsar \/ "TSADDREG" \in tscr

\* "Update PTP time forward or backward by a given value" (mac_drv.h:124): what
\* the clock jumps by, a call has given.
JumpsAsGiven ==
    \A k \in DOMAIN made : made[k].how = "update" =>
        \E n \in DOMAIN wanted : wanted[n] = made[k]

\* "negative time value means jumping backward" (flexptp_options.h:38): a jump
\* by a negative time subtracts, any other adds.
NegativeGoesBack ==
    [][DoJump("update") /\ pc = "idle" /\ op = "update" => update.sub = Negative(arg)]_vars
=============================================================================
