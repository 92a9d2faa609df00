---------------------------- MODULE PtpClockProofs ----------------------------
(***************************************************************************)
(* Proofs about PtpClock, for any times, any number of calls and of rounds  *)
(* and a hardware as slow as it likes: types, the addend, and the jumps.    *)
(***************************************************************************)
EXTENDS PtpClock, TLAPS

(***************************************************************************)
(* Types                                                                    *)
(***************************************************************************)

TypeInv == TypeOK /\ (pc # "idle" => i < Rounds) /\ (pc = "writeNs" => op \in Jumps)

LEMMA ModifiedType ==
    ASSUME NEW o \in Ops, NEW w \in SUBSET Bits PROVE Modified(o, w) \in SUBSET Bits
<1>1. Bit[o] \in Bits
  BY DEF Ops, Bits, Bit
<1>2. QED
  BY <1>1 DEF Modified

\* Whatever signs a time has, its words fit the registers.
LEMMA WordsType == ASSUME NEW o \in Ops, NEW t \in Times PROVE Words(o, t) \in Word
<1>1. t.s \in Int /\ t.ns \in Int /\ Abs(t.s) \in Nat /\ Abs(t.ns) \in 0..(Second - 1)
  <2>1. t.s \in Signed(Seconds) /\ t.ns \in Signed(Nanos)
    BY DEF Times
  <2>2. \A k \in Signed(Seconds) : k \in Int /\ Abs(k) \in Nat
    BY TimeAssumption DEF Signed, Abs
  <2>3. \A k \in Signed(Nanos) : k \in Int /\ Abs(k) \in 0..(Second - 1)
    BY TimeAssumption DEF Signed, Abs
  <2>4. QED
    BY <2>1, <2>2, <2>3
<1>2. \A a \in 0..(Second - 1) : a \in 0..Second /\ Second - a \div 2 \in 0..Second
  BY TimeAssumption
<1>3. Abs(t.ns) \in 0..Second /\ Second - Abs(t.ns) \div 2 \in 0..Second
  BY <1>1, <1>2
<1>4. (o = "init" \/ Negative(t)) \in BOOLEAN
  OBVIOUS
<1>5. QED
  BY <1>1, <1>3, <1>4 DEF Words, Word

LEMMA TypeInit == Init => TypeInv
<1> SUFFICES ASSUME Init PROVE TypeInv
  OBVIOUS
<1>1. i \in 0..Rounds /\ calls \in 0..MaxCalls
  BY RoundsAssumption, CallsAssumption DEF Init
<1>2. wanted \in Seq(Jump) /\ made \in Seq(Jump) /\ due \in [Jumps -> Nat]
  BY DEF Init
<1>3. hasty \in BOOLEAN
  BY Zenon DEF Init
<1>4. update \in Word
  BY TimeAssumption DEF Init, Word
<1>5. QED
  BY <1>1, <1>2, <1>3, <1>4 DEF Init, TypeInv, TypeOK, Ops, Bits

\* What every call begins with.
LEMMA BeginType ==
    ASSUME TypeInv, NEW o \in Ops, Begin(o)
    PROVE  /\ op' = o /\ hasty' \in BOOLEAN
           /\ calls' \in 0..MaxCalls /\ i' \in 0..Rounds /\ i' < Rounds
<1>1. hasty' \in BOOLEAN
  BY Zenon DEF Begin
<1>2. QED
  BY <1>1, RoundsAssumption, CallsAssumption DEF Begin, TypeInv, TypeOK

LEMMA TypeKept == TypeInv /\ [Next]_vars => TypeInv'
<1> SUFFICES ASSUME TypeInv, [Next]_vars PROVE TypeInv'
  OBVIOUS
<1> USE DEF TypeInv, TypeOK
<1>1. ASSUME NEW o \in Jumps, NEW t \in Times, CallJump(o, t) PROVE TypeInv'
  <2>1. o \in Ops /\ Begin(o)
    BY <1>1 DEF CallJump, Jumps, Ops
  <2>2. [how |-> o, word |-> Words(o, t)] \in Jump
    BY <2>1, WordsType DEF Jump
  <2>3. wanted' \in Seq(Jump)
    BY <1>1, <2>2 DEF CallJump
  <2>4. arg' \in Times /\ pc' = "write" /\ value' = value
    BY <1>1 DEF CallJump
  <2>5. QED
    BY <2>1, <2>3, <2>4, BeginType DEF Begin, regVars
<1>2. ASSUME NEW v \in Addends, CallAddend(v) PROVE TypeInv'
  <2>1. "addend" \in Ops /\ Begin("addend")
    BY <1>2 DEF CallAddend, Ops
  <2>2. value' \in Addends /\ pc' = "write" /\ arg' = arg /\ wanted' = wanted
    BY <1>2 DEF CallAddend
  <2>3. QED
    BY <2>1, <2>2, BeginType DEF Begin, regVars
<1>3. ASSUME NEW o \in {"fine", "coarse"}, CallFine(o) PROVE TypeInv'
  <2>1. o \in Ops /\ Begin(o)
    BY <1>3 DEF CallFine, Ops
  <2>2. pc' = "load" /\ value' = value /\ arg' = arg /\ wanted' = wanted
    BY <1>3 DEF CallFine
  <2>3. QED
    BY <2>1, <2>2, BeginType DEF Begin, regVars
<1>4. CASE WriteSeconds
  <2>1. update' \in Word
    BY <1>4, WordsType DEF WriteSeconds, Word
  <2>2. QED
    BY <1>4, <2>1 DEF WriteSeconds, histVars
<1>5. CASE WriteNanos
  <2>1. update' \in Word
    BY <1>5, WordsType DEF WriteNanos, Word
  <2>2. QED
    BY <1>5, <2>1 DEF WriteNanos, histVars
<1>6. CASE WriteAddend
  BY <1>6 DEF WriteAddend, histVars
<1>7. CASE Wait
  BY <1>7 DEF Wait, regVars, histVars
<1>8. CASE Load
  BY <1>8 DEF Load, regVars, histVars
<1>9. CASE Store
  <2>1. tscr' \in SUBSET Bits
    BY <1>9, ModifiedType DEF Store
  <2>2. i' \in 0..Rounds /\ (pc' # "idle" => i' < Rounds)
    BY <1>9, RoundsAssumption DEF Store, Again
  <2>3. due' \in [Jumps -> Nat]
    BY <1>9 DEF Store
  <2>4. QED
    BY <1>9, <2>1, <2>2, <2>3 DEF Store
<1>10. ASSUME NEW o \in Jumps, DoJump(o) PROVE TypeInv'
  <2>1. made' \in Seq(Jump)
    BY <1>10 DEF DoJump, Jump
  <2>2. due' \in [Jumps -> Nat]
    BY <1>10 DEF DoJump
  <2>3. QED
    BY <1>10, <2>1, <2>2 DEF DoJump, callVars
<1>11. CASE DoAddend
  BY <1>11 DEF DoAddend, callVars, histVars
<1>12. CASE UNCHANGED vars
  BY <1>12 DEF vars, regVars, callVars, histVars
<1>13. QED
  BY <1>1, <1>2, <1>3, <1>4, <1>5, <1>6, <1>7, <1>8, <1>9, <1>10, <1>11, <1>12 DEF Next

\* Registers, the caller's copy of MACTSCR and the loop counter stay in their
\* types for any times, any number of calls and of rounds.
THEOREM TypeCorrect == Spec => []TypeOK
<1>1. TypeInv => TypeOK
  BY DEF TypeInv
<1>2. QED
  BY TypeInit, TypeKept, <1>1, PTL DEF Spec

LEMMA TypeHolds == Spec => []TypeInv
  BY TypeInit, TypeKept, PTL DEF Spec

\* A call leaves the registers, and begins idle.
LEMMA CallCases ==
    ASSUME (\E o \in Jumps, t \in Times : CallJump(o, t))
             \/ (\E v \in Addends : CallAddend(v))
             \/ (\E o \in {"fine", "coarse"} : CallFine(o))
    PROVE  /\ pc = "idle" /\ pc' \in {"write", "load"}
           /\ UNCHANGED <<regVars, made, due>>
           /\ hasty' = (hasty \/ Pending # {})
<1>1. \A o : Begin(o) => pc = "idle" /\ UNCHANGED <<regVars, made, due>>
                            /\ hasty' = (hasty \/ Pending # {})
  BY Zenon DEF Begin
<1>2. QED
  BY <1>1, Zenon DEF CallJump, CallAddend, CallFine

(***************************************************************************)
(* The addend                                                               *)
(***************************************************************************)

\* The copy a function is about to store lacks no bit the hardware still sees,
\* so no bit is ever taken back, TSADDREG among them.
AddendInv ==
    /\ pc = "store" => tscr \subseteq tmp
    /\ \/ op = "addend" /\ pc \in {"wait", "load", "store"}
       \/ addend = tsar
       \/ "TSADDREG" \in tscr

LEMMA AddendKept == TypeInv /\ AddendInv /\ [Next]_vars => AddendInv'
<1> SUFFICES ASSUME TypeInv, AddendInv, [Next]_vars PROVE AddendInv'
  OBVIOUS
<1> USE DEF AddendInv
<1>1. CASE (\E o \in Jumps, t \in Times : CallJump(o, t))
             \/ (\E v \in Addends : CallAddend(v))
             \/ (\E o \in {"fine", "coarse"} : CallFine(o))
  BY <1>1, CallCases DEF regVars
<1>2. CASE WriteSeconds
  BY <1>2 DEF WriteSeconds, Jumps
<1>3. CASE WriteNanos
  BY <1>3 DEF WriteNanos, TypeInv, Jumps
<1>4. CASE WriteAddend
  BY <1>4 DEF WriteAddend
<1>5. CASE Wait
  BY <1>5 DEF Wait, regVars
<1>6. CASE Load
  BY <1>6 DEF Load, regVars
<1>7. CASE Store
  <2>1. op \in Ops /\ pc' # "store"
    BY <1>7 DEF Store, TypeInv, TypeOK
  <2>2. op = "addend" => "TSADDREG" \in tscr'
    BY <1>7 DEF Store, Modified, Bit
  <2>3. op # "addend" /\ "TSADDREG" \in tscr => "TSADDREG" \in tscr'
    BY <1>7, <2>1 DEF Store, Modified, Bit, Ops
  <2>4. QED
    BY <1>7, <2>1, <2>2, <2>3 DEF Store
<1>8. ASSUME NEW o \in Jumps, DoJump(o) PROVE AddendInv'
  BY <1>8 DEF DoJump, Jumps, Bit, callVars
<1>9. CASE DoAddend
  BY <1>9 DEF DoAddend, callVars
<1>10. CASE UNCHANGED vars
  BY <1>10 DEF vars, regVars, callVars
<1>11. QED
  BY <1>1, <1>2, <1>3, <1>4, <1>5, <1>6, <1>7, <1>8, <1>9, <1>10 DEF Next

LEMMA AddendInit == Init => AddendInv
  BY DEF Init, AddendInv

\* Whatever calls overlap the operations of the hardware, the addend set last
\* is the one the clock runs with, or is still to be taken.
THEOREM AddendIsRight == Spec => []AddendRight
<1>1. AddendInv => AddendRight
  BY DEF AddendInv, AddendRight
<1>2. QED
  BY TypeHolds, AddendKept, AddendInit, <1>1, PTL DEF Spec

LEMMA AddendHolds == Spec => []AddendInv
  BY TypeHolds, AddendKept, AddendInit, PTL DEF Spec

(***************************************************************************)
(* The jumps                                                                *)
(***************************************************************************)

LEMMA LastAppend ==
    ASSUME NEW S, NEW s \in Seq(S), NEW x \in S
    PROVE  Append(s, x) # <<>> /\ Last(Append(s, x)) = x
BY DEF Last

\* What the registers of a jump hold is what the last call computed, from its
\* writes on.
WordInv ==
    /\ Jumping => /\ wanted # <<>>
                  /\ Last(wanted) = [how |-> op, word |-> Words(op, arg)]
                  /\ pc = "writeNs" => update.sec = Words(op, arg).sec
                  /\ pc \in {"wait", "load", "store"} => update = Words(op, arg)
    /\ ~Jumping /\ wanted # <<>> => update = Last(wanted).word

\* A call that jumps appends itself to what is wanted.
LEMMA CallJumpWrites ==
    ASSUME TypeInv, NEW o \in Jumps, NEW t \in Times, CallJump(o, t)
    PROVE  /\ Jumping' /\ pc' = "write" /\ op' = o /\ arg' = t
           /\ wanted' = Append(wanted, [how |-> o, word |-> Words(o, t)])
           /\ wanted' # <<>> /\ Last(wanted') = [how |-> o, word |-> Words(o, t)]
<1>1. o \in Ops
  BY DEF Jumps, Ops
<1>2. [how |-> o, word |-> Words(o, t)] \in Jump
  BY <1>1, WordsType DEF Jump
<1>3. wanted' = Append(wanted, [how |-> o, word |-> Words(o, t)]) /\ op' = o /\ arg' = t /\ pc' = "write"
  BY DEF CallJump, Begin
<1>4. wanted \in Seq(Jump)
  BY DEF TypeInv, TypeOK
<1>5. QED
  BY <1>2, <1>3, <1>4, LastAppend DEF Jumping

\* Any other call leaves the jumps alone.
LEMMA CallOtherWrites ==
    ASSUME (\E v \in Addends : CallAddend(v)) \/ (\E o \in {"fine", "coarse"} : CallFine(o))
    PROVE  ~Jumping' /\ ~Jumping /\ UNCHANGED wanted
<1>1. \A o : Begin(o) => pc = "idle" /\ op' = o
  BY DEF Begin
<1>2. op' \in {"addend", "fine", "coarse"} /\ pc = "idle" /\ wanted' = wanted
  BY <1>1 DEF CallAddend, CallFine
<1>3. QED
  BY <1>2 DEF Jumping, Jumps

LEMMA WordKept == TypeInv /\ WordInv /\ [Next]_vars => WordInv'
<1> SUFFICES ASSUME TypeInv, WordInv, [Next]_vars PROVE WordInv'
  OBVIOUS
<1>1. ASSUME NEW o \in Jumps, NEW t \in Times, CallJump(o, t) PROVE WordInv'
  BY <1>1, CallJumpWrites DEF WordInv
<1>2. CASE (\E v \in Addends : CallAddend(v)) \/ (\E o \in {"fine", "coarse"} : CallFine(o))
  BY <1>2, CallOtherWrites, CallCases DEF WordInv, regVars
<1>3. CASE WriteSeconds
  <2>1. update'.sec = Words(op, arg).sec
    BY <1>3 DEF WriteSeconds, TypeInv, TypeOK, Word
  <2>2. QED
    BY <1>3, <2>1 DEF WriteSeconds, WordInv, Jumping, histVars
<1>4. CASE WriteNanos
  <2>1. op \in Jumps /\ op \in Ops /\ Jumping
    BY <1>4 DEF WriteNanos, TypeInv, TypeOK, Jumping
  <2>2. Words(op, arg) \in Word /\ update \in Word /\ update.sec = Words(op, arg).sec
    BY <1>4, <2>1, WordsType DEF WriteNanos, TypeInv, TypeOK, WordInv
  <2>3. update' = Words(op, arg)
    BY <1>4, <2>2 DEF WriteNanos, Word
  <2>4. QED
    BY <1>4, <2>1, <2>3 DEF WriteNanos, WordInv, Jumping, histVars
<1>5. CASE WriteAddend
  BY <1>5 DEF WriteAddend, WordInv, Jumping, Jumps, histVars
<1>6. CASE Wait
  BY <1>6 DEF Wait, WordInv, Jumping, regVars, histVars
<1>7. CASE Load
  BY <1>7 DEF Load, WordInv, Jumping, regVars, histVars
<1>8. CASE Store
  <2>1. op \in Jumps => pc' = "idle" /\ Jumping
    BY <1>8 DEF Store, Again, Jumps, Jumping
  <2>2. UNCHANGED <<update, wanted, op, arg>> /\ pc = "store" /\ pc' \in {"idle", "write"}
    BY <1>8 DEF Store
  <2>3. CASE op \in Jumps
    BY <2>1, <2>2, <2>3 DEF WordInv, Jumping
  <2>4. CASE op \notin Jumps
    BY <2>2, <2>4 DEF WordInv, Jumping
  <2>5. QED
    BY <2>3, <2>4
<1>9. ASSUME NEW o \in Jumps, DoJump(o) PROVE WordInv'
  BY <1>9 DEF DoJump, WordInv, Jumping, callVars
<1>10. CASE DoAddend
  BY <1>10 DEF DoAddend, WordInv, Jumping, callVars, histVars
<1>11. CASE UNCHANGED vars
  BY <1>11 DEF vars, WordInv, Jumping, regVars, callVars, histVars
<1>12. QED
  BY <1>1, <1>2, <1>3, <1>4, <1>5, <1>6, <1>7, <1>8, <1>9, <1>10, <1>11 DEF Next

LEMMA WordHolds == Spec => []WordInv
<1>1. Init => WordInv
  BY DEF Init, WordInv, Jumping
<1>2. QED
  BY TypeHolds, WordKept, <1>1, PTL DEF Spec

(***************************************************************************)
(* No jump is lost                                                          *)
(***************************************************************************)

\* From its wait on a jump's bit is clear until the function itself sets it.
DueInv ==
    /\ NoJumpLost
    /\ pc \in {"load", "store"} /\ op \in Jumps => Bit[op] \notin tscr

\* The steps that touch neither the bits of MACTSCR nor the history.
LEMMA DueQuiet ==
    ASSUME DueInv, UNCHANGED <<tscr, wanted, made, due>>,
           (Jumping' <=> Jumping) \/ Jumping',
           pc' \in {"load", "store"} /\ op' \in Jumps => Bit[op'] \notin tscr
    PROVE  DueInv'
BY DEF DueInv, NoJumpLost, Pending

LEMMA DueKept == TypeInv /\ AddendInv /\ WordInv /\ DueInv /\ [Next]_vars => DueInv'
<1> SUFFICES ASSUME TypeInv, AddendInv, WordInv, DueInv, [Next]_vars PROVE DueInv'
  OBVIOUS
<1>1. ASSUME NEW o \in Jumps, NEW t \in Times, CallJump(o, t) PROVE DueInv'
  <2>1. Jumping' /\ pc' = "write" /\ UNCHANGED <<tscr, made, due>>
    BY <1>1, CallJumpWrites, CallCases DEF regVars
  <2>2. QED
    BY <2>1 DEF DueInv, NoJumpLost
<1>2. CASE (\E v \in Addends : CallAddend(v)) \/ (\E o \in {"fine", "coarse"} : CallFine(o))
  <2>1. ~Jumping' /\ ~Jumping /\ pc' # "idle" /\ UNCHANGED <<tscr, wanted, made, due>>
    BY <1>2, CallOtherWrites, CallCases DEF regVars
  <2>2. op' \notin Jumps
    BY <2>1 DEF Jumping
  <2>3. QED
    BY <2>1, <2>2, DueQuiet
<1>3. CASE WriteSeconds
  BY <1>3, DueQuiet DEF WriteSeconds, histVars, Jumping
<1>4. CASE WriteNanos
  BY <1>4, DueQuiet DEF WriteNanos, histVars, Jumping
<1>5. CASE WriteAddend
  BY <1>5, DueQuiet DEF WriteAddend, histVars, Jumping
<1>6. CASE Wait
  <2>1. op \in Jumps => Bit[op] \notin tscr
    BY <1>6 DEF Wait, Awaits, Bit, Jumps
  <2>2. QED
    BY <1>6, <2>1, DueQuiet DEF Wait, regVars, histVars, Jumping
<1>7. CASE Load
  BY <1>7, DueQuiet DEF Load, regVars, histVars, Jumping, DueInv
<1>8. CASE Store
  <2>1. op \in Ops /\ pc = "store" /\ pc' \in {"idle", "write"} /\ tscr \subseteq tmp
        /\ UNCHANGED <<wanted, made, op>>
    BY <1>8 DEF Store, TypeInv, TypeOK, AddendInv
  <2>2. tscr' = Modified(op, tmp)
    BY <1>8 DEF Store
  <2>3. \A o \in Jumps : Bit[o] \in tscr => Bit[o] \in tscr'
    BY <2>1, <2>2 DEF Modified, Bit, Jumps, Ops
  <2>4. CASE op \in Jumps
    <3>1. Bit[op] \in tscr' /\ Bit[op] \notin tscr /\ Bit[op] \in {"TSINIT", "TSUPDT"}
      BY <2>1, <2>2, <2>4 DEF Modified, Bit, Jumps, DueInv
    <3>2. due' = [due EXCEPT ![op] = @ + 1] /\ due \in [Jumps -> Nat]
      BY <1>8, <2>4 DEF Store, TypeInv, TypeOK
    <3>3. due[op] = 0
      BY <2>4, <3>1 DEF DueInv, NoJumpLost
    <3>4. \A o \in Jumps : due'[o] = 0 \/ (due'[o] = 1 /\ Bit[o] \in tscr')
      BY <2>3, <2>4, <3>1, <3>2, <3>3 DEF DueInv, NoJumpLost
    <3>5. Pending' # {}
      BY <3>1 DEF Pending
    <3>6. QED
      BY <2>1, <3>4, <3>5 DEF DueInv, NoJumpLost
  <2>5. CASE op \notin Jumps
    <3>1. due' = due
      BY <1>8, <2>5 DEF Store
    <3>2. Pending' = {} => Pending = {}
      BY <2>3 DEF Pending, Bit, Jumps
    <3>3. ~Jumping /\ ~Jumping'
      BY <2>1, <2>5 DEF Jumping
    <3>4. QED
      BY <2>1, <2>3, <2>5, <3>1, <3>2, <3>3 DEF DueInv, NoJumpLost
  <2>6. QED
    BY <2>4, <2>5
<1>9. ASSUME NEW o \in Jumps, DoJump(o) PROVE DueInv'
  <2>1. \A p \in Jumps : due'[p] = 0 \/ (due'[p] = 1 /\ Bit[p] \in tscr')
    <3>1. due' = [due EXCEPT ![o] = 0] /\ due \in [Jumps -> Nat] /\ tscr' = tscr \ {Bit[o]}
      BY <1>9 DEF DoJump, TypeInv, TypeOK
    <3>2. \A p \in Jumps : p # o => Bit[p] # Bit[o]
      BY DEF Jumps, Bit
    <3>3. QED
      BY <3>1, <3>2 DEF DueInv, NoJumpLost
  <2>2. [how |-> o, word |-> update] \in Jump /\ made \in Seq(Jump)
    BY DEF TypeInv, TypeOK, Jump
  <2>3. made' # <<>> /\ Last(made') = [how |-> o, word |-> update]
    BY <1>9, <2>2, LastAppend DEF DoJump
  <2>4. ~Jumping' /\ wanted' # <<>> => Last(made').word = Last(wanted').word
    BY <1>9, <2>3 DEF DoJump, callVars, Jumping, WordInv
  <2>5. pc' \in {"load", "store"} /\ op' \in Jumps => Bit[op'] \notin tscr'
    BY <1>9 DEF DoJump, callVars, DueInv
  <2>6. QED
    BY <2>1, <2>3, <2>4, <2>5 DEF DueInv, NoJumpLost
<1>10. CASE DoAddend
  <2>1. \A o \in Jumps : Bit[o] \in tscr' <=> Bit[o] \in tscr
    BY <1>10 DEF DoAddend, Bit, Jumps
  <2>2. Pending' = Pending
    BY <1>10 DEF DoAddend, Pending
  <2>3. QED
    BY <1>10, <2>1, <2>2 DEF DoAddend, callVars, histVars, DueInv, NoJumpLost, Jumping
<1>11. CASE UNCHANGED vars
  BY <1>11, DueQuiet DEF vars, regVars, callVars, histVars, Jumping, DueInv
<1>12. QED
  BY <1>1, <1>2, <1>3, <1>4, <1>5, <1>6, <1>7, <1>8, <1>9, <1>10, <1>11 DEF Next

\* Whatever calls overlap the operations of the hardware, no jump is dropped and
\* the words of the last call are those that end up carried out last.
THEOREM NoJumpIsLost == Spec => []NoJumpLost
<1>1. Init => DueInv
  BY DEF Init, DueInv, NoJumpLost, Jumping
<1>2. DueInv => NoJumpLost
  BY DEF DueInv
<1>3. QED
  BY TypeHolds, AddendHolds, WordHolds, DueKept, <1>1, <1>2, PTL DEF Spec

(***************************************************************************)
(* Without haste                                                            *)
(***************************************************************************)

\* The bits of a jump are set only when no call is under way, so no copy holds
\* them, and they are those of the last jump wanted.
JumpInv ==
    ~hasty =>
        /\ JumpsOnce
        /\ pc # "idle" => Pending = {}
        /\ pc = "store" => tmp \cap {"TSINIT", "TSUPDT"} = {}
        /\ Pending # {} => Last(wanted).how \in Jumps /\ Pending = {Bit[Last(wanted).how]}

LEMMA JumpQuiet ==
    ASSUME JumpInv, UNCHANGED <<wanted, made, hasty, op>>, Pending' = Pending,
           pc # "idle", pc' # "idle",
           pc' = "store" => tmp' \cap {"TSINIT", "TSUPDT"} = {} \/ hasty
    PROVE  JumpInv'
BY DEF JumpInv, JumpsOnce, Jumping

LEMMA JumpKept == TypeInv /\ WordInv /\ JumpInv /\ [Next]_vars => JumpInv'
<1> SUFFICES ASSUME TypeInv, WordInv, JumpInv, [Next]_vars, ~hasty' PROVE JumpInv'
  BY DEF JumpInv
<1>1. ASSUME NEW o \in Jumps, NEW t \in Times, CallJump(o, t) PROVE JumpInv'
  <2>1. pc = "idle" /\ ~hasty /\ Pending = {} /\ UNCHANGED <<tscr, made>>
    BY <1>1, CallCases, Zenon DEF regVars
  <2>2. made = wanted
    BY <2>1 DEF JumpInv, JumpsOnce, Jumping
  <2>3. wanted' = Append(made', Last(wanted')) /\ wanted' # <<>> /\ Jumping' /\ pc' = "write"
    BY <1>1, <2>1, <2>2, CallJumpWrites
  <2>4. Pending' = {}
    BY <2>1 DEF Pending
  <2>5. QED
    BY <2>3, <2>4 DEF JumpInv, JumpsOnce
<1>2. CASE (\E v \in Addends : CallAddend(v)) \/ (\E o \in {"fine", "coarse"} : CallFine(o))
  <2>1. pc = "idle" /\ ~hasty /\ Pending = {} /\ UNCHANGED <<tscr, made>> /\ pc' \in {"write", "load"}
    BY <1>2, CallCases, Zenon DEF regVars
  <2>2. made = wanted
    BY <2>1 DEF JumpInv, JumpsOnce, Jumping
  <2>3. ~Jumping' /\ wanted' = wanted
    BY <1>2, CallOtherWrites
  <2>4. Pending' = {}
    BY <2>1 DEF Pending
  <2>5. QED
    BY <2>1, <2>2, <2>3, <2>4 DEF JumpInv, JumpsOnce
<1>3. CASE WriteSeconds
  BY <1>3, JumpQuiet DEF WriteSeconds, histVars, Pending
<1>4. CASE WriteNanos
  BY <1>4, JumpQuiet DEF WriteNanos, histVars, Pending
<1>5. CASE WriteAddend
  BY <1>5, JumpQuiet DEF WriteAddend, histVars, Pending
<1>6. CASE Wait
  BY <1>6, JumpQuiet DEF Wait, histVars, regVars, Pending
<1>7. CASE Load
  <2>1. tmp' \cap {"TSINIT", "TSUPDT"} = Pending
    BY <1>7 DEF Load, Pending
  <2>2. ~hasty => Pending = {}
    BY <1>7 DEF Load, JumpInv
  <2>3. QED
    BY <1>7, <2>1, <2>2, JumpQuiet DEF Load, histVars, regVars, Pending
<1>8. CASE Store
  <2>1. ~hasty /\ op \in Ops /\ pc = "store" /\ pc' \in {"idle", "write"}
        /\ UNCHANGED <<op, wanted, made>> /\ tscr' = Modified(op, tmp)
    BY <1>8 DEF Store, TypeInv, TypeOK
  <2>2. CASE op \in Jumps
    <3>1. pc' = "idle" /\ Jumping
      BY <1>8, <2>2 DEF Store, Again, Jumps, Jumping
    <3>2. Pending' = {Bit[op]}
      BY <2>1, <2>2 DEF JumpInv, Pending, Modified, Bit, Jumps
    <3>3. wanted' # <<>> /\ wanted' = Append(made', Last(wanted')) /\ Last(wanted').how = op
      BY <2>1, <3>1 DEF JumpInv, JumpsOnce, WordInv
    <3>4. QED
      BY <2>2, <3>1, <3>2, <3>3 DEF JumpInv, JumpsOnce
  <2>3. CASE op \notin Jumps
    <3>1. Pending' = {}
      BY <2>1, <2>3 DEF JumpInv, Pending, Modified, Bit, Jumps, Ops
    <3>2. made' = wanted' /\ ~Jumping'
      BY <2>1, <2>3 DEF JumpInv, JumpsOnce, Jumping
    <3>3. QED
      BY <2>1, <3>1, <3>2 DEF JumpInv, JumpsOnce
  <2>4. QED
    BY <2>2, <2>3
<1>9. ASSUME NEW o \in Jumps, DoJump(o) PROVE JumpInv'
  <2>1. ~hasty /\ Bit[o] \in Pending
    BY <1>9 DEF DoJump, Jumps, Bit, Pending
  <2>2. pc = "idle" /\ ~Jumping /\ Last(wanted).how \in Jumps /\ Pending = {Bit[Last(wanted).how]}
        /\ wanted # <<>> /\ wanted = Append(made, Last(wanted))
    BY <2>1 DEF JumpInv, JumpsOnce, Jumping
  <2>3. o = Last(wanted).how /\ update = Last(wanted).word
    BY <2>1, <2>2 DEF Jumps, Bit, WordInv
  <2>4. Last(wanted) \in Jump
    BY <2>2 DEF TypeInv, TypeOK, Last
  <2>5. Last(wanted) = [how |-> o, word |-> update]
    BY <2>3, <2>4 DEF Jump
  <2>6. made' = wanted' /\ pc' = "idle"
    BY <1>9, <2>2, <2>5 DEF DoJump, callVars
  <2>7. Pending' = {}
    BY <1>9, <2>2, <2>3 DEF DoJump, Pending
  <2>8. QED
    BY <2>6, <2>7 DEF JumpInv, JumpsOnce, Jumping
<1>10. CASE DoAddend
  <2>1. Pending' = Pending
    BY <1>10 DEF DoAddend, Pending
  <2>2. QED
    BY <1>10, <2>1 DEF DoAddend, callVars, histVars, JumpInv, JumpsOnce, Jumping
<1>11. CASE UNCHANGED vars
  BY <1>11 DEF vars, regVars, callVars, histVars, JumpInv, JumpsOnce, Jumping, Pending
<1>12. QED
  BY <1>1, <1>2, <1>3, <1>4, <1>5, <1>6, <1>7, <1>8, <1>9, <1>10, <1>11 DEF Next

\* If every call leaves the hardware time for the jump before it, the clock
\* jumps once for each call, in order, with the words the call has computed.
THEOREM JumpsAreMadeOnce == Spec => []JumpsOnce
<1>1. Init => JumpInv
  BY DEF Init, JumpInv, JumpsOnce, Jumping, Pending
<1>2. JumpInv => JumpsOnce
  BY DEF JumpInv, JumpsOnce
<1>3. QED
  BY TypeHolds, WordHolds, JumpKept, <1>1, <1>2, PTL DEF Spec
=============================================================================
