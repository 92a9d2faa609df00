--------------------------- MODULE CliRegistryProofs ---------------------------
(***************************************************************************)
(* Proofs about CliRegistry, for every set of tasks and names, every size   *)
(* of the table and any number of calls.                                    *)
(***************************************************************************)
EXTENDS CliRegistry, TLAPS

(***************************************************************************)
(* Types and the mutex                                                     *)
(***************************************************************************)

\* A removal has a handle before it takes the mutex, and then an entry; a call
\* is of an entry.
IdxInv == /\ \A t \in Tasks : /\ pc[t] = "rmAcquire" => Left(hnd[t])
                              /\ pc[t] = "shift" => idx[t] \in 0..cnt - 1
          /\ cpc = "call" => j \in Cells

\* A command about to be entered is a new one, and its own task's; only
\* commands entered are stored and taken out.
CmdInv ==
    /\ gone \subseteq filled /\ filled \subseteq 1..Len(named)
    /\ \A t \in Tasks : cmd[t] <= Len(named)
    /\ \A t \in Tasks : Entering(t) => /\ cmd[t] \in 1..Len(named) /\ cmd[t] \notin filled
                                       /\ \A u \in Tasks \ {t} : cmd[u] # cmd[t]
    /\ \A c \in Stored(cnt) : table[c].cmd \in filled

Safe == TypeOK /\ MutexRight /\ IdxInv /\ CmdInv

\* Constants.
LEMMA Bounds == MaxCmds \in Nat /\ 0 < MaxCmds /\ Cap \in Nat /\ 0 < Cap
BY RegistryAssumption

\* What no overrun changes.
Base == <<progVars, taskVars, cliVars, raced, quiet>>

\* A step is one of the system that writes within the table, or one after which
\* only the overrun is known.
LEMMA StepCases == [Next]_vars => Within \/ UNCHANGED Base
BY Zenon DEF Next, vars, Overflow, Base

\* What remains of an array of handles is one.
LEMMA Rests ==
    ASSUME NEW h \in Seq(Handle), Left(h)
    PROVE  /\ Head(h) \in Handle /\ Tail(h) \in Seq(Handle) /\ Head(h).at \in Cells
           /\ Head(h) = h[1] /\ 1 \in 1..Len(h)
           /\ \A k \in 1..Len(Tail(h)) : Tail(h)[k] = h[k + 1] /\ k + 1 \in 1..Len(h)
<1>1. h # <<>> /\ Head(h).at # NULL
  BY Zenon DEF Left
<1>2. Len(h) \in Nat /\ Len(h) > 0
  BY <1>1
<1>3. Head(h) = h[1] /\ 1 \in 1..Len(h) /\ Head(h) \in Handle
  BY <1>1, <1>2
<1>4. Tail(h) \in Seq(Handle) /\ Len(Tail(h)) = Len(h) - 1
  BY <1>1, <1>2
<1>5. Head(h).at \in Cells
  BY <1>1, <1>3 DEF Handle
<1>6. \A k \in 1..Len(Tail(h)) : Tail(h)[k] = h[k + 1] /\ k + 1 \in 1..Len(h)
  BY <1>1, <1>2, <1>4
<1>7. QED
  BY <1>3, <1>4, <1>5, <1>6

\* A removal waiting for the mutex has a handle.
LEMMA HasHandle == ASSUME IdxInv, NEW t \in Tasks, pc[t] = "rmAcquire" PROVE Left(hnd[t])
BY DEF IdxInv

LEMMA SafeInit == Init => Safe
<1> SUFFICES ASSUME Init PROVE Safe
  OBVIOUS
<1>1. ProgType
  <2>1. [cmd |-> 0, tok |-> NoName, hint |-> NULL] \in Entry
    BY Bounds DEF Entry, Strings
  <2>2. table \in [Cells -> Entry]
    BY <2>1 DEF Init
  <2>3. cnt \in 0..Cap /\ owner \subseteq Tasks
    BY Bounds DEF Init
  <2>4. tidy \in BOOLEAN
    BY DEF Init
  <2>5. line \in Strings
    BY DEF Init, Strings
  <2>6. QED
    BY <2>2, <2>3, <2>4, <2>5, Zenon DEF ProgType
<1>2. TaskType
  <2>1. pc \in [Tasks -> {"idle", "acquire", "fill", "again", "release", "return",
                          "rmAcquire", "shift"}]
    BY DEF Init
  <2>2. /\ cmd \in [Tasks -> 0..MaxCmds] /\ idx \in [Tasks -> Cells \cup {NULL}]
        /\ hnd \in [Tasks -> Seq(Handle)]
    BY Bounds DEF Init
  <2>3. named \in Seq(Names) /\ Len(named) <= MaxCmds
    BY Bounds DEF Init
  <2>4. filled \subseteq Cmds /\ gone \subseteq Cmds
    BY DEF Init
  <2>5. QED
    BY <2>1, <2>2, <2>3, <2>4, Zenon DEF TaskType
<1>3. CliType
  <2>1. cpc \in {"idle", "tokens", "scan", "call", "done", "tidyUp", "print"}
    BY DEF Init
  <2>2. typed \in Strings /\ want \in Strings
    BY DEF Init, Strings
  <2>3. j \in 0..Cap /\ called \in 0..MaxCmds /\ due \in 0..Cap
    BY Bounds DEF Init
  <2>4. QED
    BY <2>1, <2>2, <2>3, Zenon DEF CliType
<1>4. HistoryType
  BY DEF Init, HistoryType
<1>5. MutexRight
  BY DEF Init, MutexRight, Inside, Stuck
<1>6. IdxInv
  BY DEF Init, IdxInv
<1>7. CmdInv
  BY DEF Init, CmdInv, Entering, Stored
<1>8. QED
  BY <1>1, <1>2, <1>3, <1>4, <1>5, <1>6, <1>7 DEF Safe, TypeOK

\* Every step keeps the types of what the program shares.
LEMMA ProgTypeKept == Safe /\ [Next]_vars => ProgType'
<1> SUFFICES ASSUME Safe, [Next]_vars PROVE ProgType'
  OBVIOUS
<1> USE Bounds
<1>1. /\ table \in [Cells -> Entry] /\ cnt \in 0..Cap
      /\ line \in Strings /\ owner \subseteq Tasks
  BY DEF Safe, TypeOK, ProgType
<1>2. /\ cmd \in [Tasks -> 0..MaxCmds] /\ idx \in [Tasks -> Cells \cup {NULL}]
      /\ named \in Seq(Names)
  BY DEF Safe, TypeOK, TaskType
<1>3. j \in 0..Cap
  BY DEF Safe, TypeOK, CliType
<1>4. tidy \in BOOLEAN
  BY Zenon DEF Safe, TypeOK, ProgType
<1>5. CASE UNCHANGED progVars
  BY <1>5, <1>1, <1>4, Zenon DEF progVars, ProgType
<1>6. ASSUME NEW t \in Tasks, RegAcquire(t) PROVE ProgType'
  <2>1. named[cmd[t]] \in Names
    BY <1>6, <1>2 DEF RegAcquire, Step, Safe, CmdInv, Entering
  <2>2. UNCHANGED <<table, cnt, tidy>> /\ line' \in Strings /\ owner' \subseteq Tasks
    BY <1>6, <2>1 DEF RegAcquire, Strings
  <2>3. QED
    BY <2>2, <1>1, <1>4, Zenon DEF ProgType
<1>7. ASSUME NEW t \in Tasks, RegFill(t) PROVE ProgType'
  <2>1. [cmd |-> cmd[t], tok |-> line, hint |-> NULL] \in Entry
    BY <1>1, <1>2 DEF Entry, Strings
  <2>2. table' \in [Cells -> Entry]
    BY <1>7, <2>1, <1>1 DEF RegFill
  <2>3. cnt' \in 0..Cap
    BY <1>7, <1>1 DEF RegFill, Cells
  <2>4. UNCHANGED <<tidy, line, owner>>
    BY <1>7 DEF RegFill
  <2>5. QED
    BY <2>2, <2>3, <2>4, <1>1, <1>4, Zenon DEF ProgType
<1>8. ASSUME NEW t \in Tasks, RegRelease(t) PROVE ProgType'
  <2>1. UNCHANGED <<table, cnt, line>> /\ tidy' = FALSE /\ owner' \subseteq Tasks
    BY <1>8 DEF RegRelease
  <2>2. QED
    BY <2>1, <1>1, Zenon DEF ProgType
<1>9. ASSUME NEW t \in Tasks, RmInvalid(t) \/ RmAcquire(t) PROVE ProgType'
  <2>1. UNCHANGED <<table, cnt, tidy, line>> /\ owner' \subseteq Tasks
    BY <1>9 DEF RmInvalid, RmAcquire, Iterate
  <2>2. QED
    BY <2>1, <1>1, <1>4, Zenon DEF ProgType
<1>10. ASSUME NEW t \in Tasks, RmShift(t) PROVE ProgType'
  <2>1. idx[t] \in Cells /\ idx[t] + 1 \in Cells
    BY <1>10, <1>1, <1>2 DEF RmShift, Step, Safe, IdxInv, Cells, NULL
  <2>2. table' \in [Cells -> Entry]
    BY <1>10, <2>1, <1>1 DEF RmShift
  <2>3. UNCHANGED <<cnt, tidy, line, owner>>
    BY <1>10 DEF RmShift
  <2>4. QED
    BY <2>2, <2>3, <1>1, <1>4, Zenon DEF ProgType
<1>11. ASSUME NEW t \in Tasks, RmRelease(t) PROVE ProgType'
  <2>1. cnt' \in 0..Cap
    BY <1>11, <1>1 DEF RmRelease, Iterate, Step, Safe, IdxInv
  <2>2. UNCHANGED <<table, tidy, line>> /\ owner' \subseteq Tasks
    BY <1>11 DEF RmRelease
  <2>3. QED
    BY <2>1, <2>2, <1>1, <1>4, Zenon DEF ProgType
<1>12. ASSUME NEW name \in Typed \cup {Question}, Type(name) PROVE ProgType'
  <2>1. UNCHANGED <<table, cnt, tidy, owner>> /\ line' \in Strings
    BY <1>12, RegistryAssumption DEF Type, Strings
  <2>2. QED
    BY <2>1, <1>1, <1>4, Zenon DEF ProgType
<1>13. CASE TidyUp
  <2>2. table' \in [Cells -> Entry]
    BY <1>13, <1>1, <1>3 DEF TidyUp, CliStep, Entry, Cells, NULL
  <2>3. tidy' \in BOOLEAN
    BY <1>13, <1>4, Zenon DEF TidyUp
  <2>4. UNCHANGED <<cnt, line, owner>>
    BY <1>13 DEF TidyUp
  <2>5. QED
    BY <2>2, <2>3, <2>4, <1>1, Zenon DEF ProgType
<1>14. QED
  <2>1. CASE Within
    BY <2>1, <1>5, <1>6, <1>7, <1>8, <1>9, <1>10, <1>11, <1>12, <1>13, Zenon
       DEF Within, TaskNext, CliNext, Register, Remove, RegReturn, LookUp, Scan, Call, Done, Help,
           PrintHelp
  <2>2. CASE UNCHANGED Base
    BY <2>2, <1>5, Zenon DEF Base
  <2>3. QED
    BY <2>1, <2>2, StepCases, Zenon

\* Every step keeps the types of what the tasks know.
LEMMA TaskTypeKept == Safe /\ [Next]_vars => TaskType'
<1> SUFFICES ASSUME Safe, [Next]_vars PROVE TaskType'
  OBVIOUS
<1> USE Bounds
<1>1. /\ table \in [Cells -> Entry] /\ cnt \in 0..Cap
  BY DEF Safe, TypeOK, ProgType
<1>2. TaskType
  BY Zenon DEF Safe, TypeOK
<1>3. CASE UNCHANGED taskVars
  BY <1>2, <1>3, Zenon DEF taskVars, TaskType
<1>4. ASSUME NEW t \in Tasks, NEW name \in Names, Register(t, name) PROVE TaskType'
  BY <1>2, <1>4 DEF TaskType, Register, Step, Cells, NULL, Cmds
<1>5. ASSUME NEW t \in Tasks, RegAcquire(t) \/ RegRelease(t) PROVE TaskType'
  BY <1>2, <1>5 DEF TaskType, RegAcquire, RegRelease, Step
<1>6. ASSUME NEW t \in Tasks, RegFill(t) PROVE TaskType'
  <2>1. cmd[t] \in Cmds
    BY <1>2, <1>6 DEF RegFill, Step, TaskType, Cmds, Safe, CmdInv, Entering
  <2>2. QED
    BY <2>1, <1>2, <1>6 DEF TaskType, RegFill, Step
<1>7. ASSUME NEW t \in Tasks, RegReturn(t) PROVE TaskType'
  <2>1. [at |-> cnt - 1, of |-> cmd[t]] \in Handle
    BY <1>1, <1>2 DEF TaskType, Handle, Cells, NULL
  <2>2. QED
    BY <2>1, <1>2, <1>7 DEF TaskType, RegReturn, Step
<1>8. ASSUME NEW t \in Tasks, Remove(t) \/ RmInvalid(t) \/ RmRelease(t) PROVE TaskType'
  <2>1. hnd[t] \in Seq(Handle)
    BY <1>2, <1>8 DEF TaskType
  <2>2. pc[t] = "rmAcquire" => Tail(hnd[t]) \in Seq(Handle)
    BY <2>1, <1>8, Rests, HasHandle, Zenon DEF Safe
  <2>3. /\ pc' \in [Tasks -> {"idle", "acquire", "fill", "again", "release", "return",
                              "rmAcquire", "shift"}]
        /\ hnd' \in [Tasks -> Seq(Handle)]
    <3>1. CASE RmInvalid(t)
      BY <2>2, <1>2, <1>8, <3>1 DEF TaskType, RmInvalid, Iterate, Step
    <3>2. CASE Remove(t) \/ RmRelease(t)
      <4>1. \E h \in {hnd[t], <<>>} : hnd' = [hnd EXCEPT ![t] = h]
        BY <3>2 DEF Remove, RmRelease, Iterate
      <4>2. \E p \in {"rmAcquire", "idle"} : pc' = [pc EXCEPT ![t] = p]
        BY <3>2 DEF Remove, RmRelease, Iterate, Step
      <4>3. QED
        <5>1. <<>> \in Seq(Handle)
          OBVIOUS
        <5>2. hnd' \in [Tasks -> Seq(Handle)]
          BY <2>1, <4>1, <5>1, <1>2, Zenon DEF TaskType
        <5>3. QED
          BY <5>2, <4>2, <1>2 DEF TaskType
    <3>3. QED
      BY <1>8, <3>1, <3>2, Zenon
  <2>4. idx' \in [Tasks -> Cells \cup {NULL}]
    BY <1>2, <1>8 DEF TaskType, Remove, RmInvalid, RmRelease
  <2>5. UNCHANGED <<cmd, named, filled, gone>>
    BY <1>8, Zenon DEF Remove, RmInvalid, RmRelease
  <2>6. QED
    BY <2>3, <2>4, <2>5, <1>2, Zenon DEF TaskType
<1>9. ASSUME NEW t \in Tasks, RmAcquire(t) PROVE TaskType'
  <2>1. Left(hnd[t]) /\ hnd[t] \in Seq(Handle)
    <3>1. pc[t] = "rmAcquire"
      BY <1>9, Zenon DEF RmAcquire, Step
    <3>2. hnd[t] \in Seq(Handle)
      BY <1>2, <1>9 DEF TaskType
    <3>3. QED
      BY <3>1, <3>2, <1>9, HasHandle, Zenon DEF Safe
  <2>2. Head(hnd[t]).at \in Cells /\ Tail(hnd[t]) \in Seq(Handle)
    BY <2>1, Rests
  <2>3. idx'[t] = Head(hnd[t]).at /\ table[idx'[t]].cmd \in filled
    BY <1>2, <1>9 DEF RmAcquire, Safe, CmdInv, Stored, TaskType
  <2>4. QED
    BY <2>2, <2>3, <1>2, <1>9 DEF TaskType, RmAcquire, Step
<1>10. ASSUME NEW t \in Tasks, RmShift(t) PROVE TaskType'
  <2>1. idx[t] + 1 \in Cells
    BY <1>1, <1>2, <1>10 DEF TaskType, RmShift, Step, Safe, IdxInv, Cells, NULL
  <2>2. QED
    BY <2>1, <1>2, <1>10 DEF TaskType, RmShift, Step
<1>11. QED
  <2>1. CASE Within
    BY <2>1, <1>3, <1>4, <1>5, <1>6, <1>7, <1>8, <1>9, <1>10, Zenon
       DEF Within, TaskNext, CliNext, Type, LookUp, Scan, Call, Done, Help, TidyUp, PrintHelp,
           CliStep
  <2>2. CASE UNCHANGED Base
    BY <2>2, <1>3, Zenon DEF Base
  <2>3. QED
    BY <2>1, <2>2, StepCases, Zenon

\* Every step keeps the types of what the CLI knows.
LEMMA CliTypeKept == Safe /\ [Next]_vars => CliType'
<1> SUFFICES ASSUME Safe, [Next]_vars PROVE CliType'
  OBVIOUS
<1> USE Bounds
<1>1. /\ table \in [Cells -> Entry] /\ cnt \in 0..Cap /\ line \in Strings
  BY DEF Safe, TypeOK, ProgType
<1>2. CliType
  BY Zenon DEF Safe, TypeOK
<1>3. CASE UNCHANGED cliVars
  BY <1>2, <1>3, Zenon DEF cliVars, CliType
<1>4. ASSUME NEW name \in Typed \cup {Question}, Type(name) PROVE CliType'
  BY <1>2, <1>4, RegistryAssumption DEF CliType, Type, CliStep, Strings
<1>5. CASE LookUp
  BY <1>1, <1>2, <1>5 DEF CliType, LookUp, CliStep
<1>6. CASE Scan
  BY <1>1, <1>2, <1>6 DEF CliType, Scan, CliStep
<1>7. CASE Call
  <2>1. table[j].cmd \in 0..MaxCmds
    BY <1>1, <1>7 DEF Call, CliStep, Safe, IdxInv, Entry
  <2>2. QED
    BY <2>1, <1>2, <1>7 DEF CliType, Call, CliStep
<1>8. CASE Done
  BY <1>2, <1>8 DEF CliType, Done, CliStep, Strings
<1>9. CASE Help
  <2>1. cpc' \in {"print", "tidyUp"}
    BY <1>9, Zenon DEF Help, CliStep
  <2>2. QED
    BY <2>1, <1>2, <1>9 DEF CliType, Help
<1>10. CASE TidyUp
  <2>1. j' \in 0..Cap
    BY <1>1, <1>2, <1>10 DEF CliType, TidyUp
  <2>2. QED
    BY <2>1, <1>2, <1>10 DEF CliType, TidyUp, CliStep
<1>11. CASE PrintHelp
  BY <1>1, <1>2, <1>11 DEF CliType, PrintHelp, CliStep, Strings
<1>12. QED
  <2>1. CASE Within
    BY <2>1, <1>3, <1>4, <1>5, <1>6, <1>7, <1>8, <1>9, <1>10, <1>11, Zenon
       DEF Within, TaskNext, CliNext, Register, RegAcquire, RegFill, RegRelease, RegReturn,
           Remove, RmInvalid, RmAcquire, RmShift, RmRelease
  <2>2. CASE UNCHANGED Base
    BY <2>2, <1>3, Zenon DEF Base
  <2>3. QED
    BY <2>1, <2>2, StepCases, Zenon

\* Every step keeps the types of the history.
LEMMA HistoryTypeKept == Safe /\ [Next]_vars => HistoryType'
<1> SUFFICES ASSUME Safe, [Next]_vars PROVE HistoryType'
  OBVIOUS
<1>1. HistoryType /\ overrun' \in BOOLEAN
  BY Zenon DEF Safe, TypeOK, HistoryType, Next, Overflow, vars
<1>2. ASSUME NEW t \in Tasks, NEW name \in Names, Register(t, name) PROVE HistoryType'
  BY <1>1, <1>2, Zenon DEF HistoryType, Register
<1>3. ASSUME NEW t \in Tasks, RegFill(t) PROVE HistoryType'
  BY <1>1, <1>3, Zenon DEF HistoryType, RegFill
<1>4. ASSUME NEW t \in Tasks, RegAcquire(t) \/ RegRelease(t) \/ RegReturn(t) \/ Remove(t)
      PROVE HistoryType'
  BY <1>1, <1>4, Zenon DEF HistoryType, RegAcquire, RegRelease, RegReturn, Remove
<1>5. ASSUME NEW t \in Tasks, RmInvalid(t) \/ RmAcquire(t) PROVE HistoryType'
  BY <1>1, <1>5, Zenon DEF HistoryType, RmInvalid, RmAcquire
<1>6. ASSUME NEW t \in Tasks, RmShift(t) \/ RmRelease(t) PROVE HistoryType'
  BY <1>1, <1>6, Zenon DEF HistoryType, RmShift, RmRelease
<1>7. ASSUME NEW name \in Typed \cup {Question}, Type(name) PROVE HistoryType'
  BY <1>1, <1>7, Zenon DEF HistoryType, Type, CliStep, taskVars
<1>8. CASE LookUp \/ Done \/ Help
  BY <1>1, <1>8, Zenon DEF HistoryType, LookUp, Done, Help, CliStep, taskVars
<1>9. CASE Scan \/ Call \/ TidyUp \/ PrintHelp
  BY <1>1, <1>9, Zenon DEF HistoryType, Scan, Call, TidyUp, PrintHelp, CliStep, taskVars
<1>10. CASE UNCHANGED Base
  BY <1>1, <1>10, Zenon DEF HistoryType, Base, taskVars
<1>11. QED
  BY <1>2, <1>3, <1>4, <1>5, <1>6, <1>7, <1>8, <1>9, <1>10, StepCases, Zenon
     DEF Within, TaskNext, CliNext

\* The cases of a step, by what they do to the mutex, the table and the tasks.
LEMMA CliSteps ==
    ASSUME CliNext \/ \E name \in Typed \cup {Question} : Type(name), table \in [Cells -> Entry]
    PROVE  /\ UNCHANGED <<taskVars, owner, cnt>>
           /\ \A c \in Cells : table'[c].cmd = table[c].cmd /\ table'[c].tok = table[c].tok
<1>1. CASE TidyUp
  BY <1>1 DEF TidyUp, CliStep, Entry
<1>2. CASE \/ LookUp \/ Scan \/ Call \/ Done \/ Help \/ PrintHelp
           \/ \E name \in Typed \cup {Question} : Type(name)
  BY <1>2, Zenon DEF LookUp, Scan, Call, Done, PrintHelp, Help, Type, CliStep, progVars
<1>3. QED
  BY <1>1, <1>2, Zenon DEF CliNext

\* Every step keeps the table's writers apart.
LEMMA MutexKept == Safe /\ [Next]_vars => MutexRight'
<1> SUFFICES ASSUME Safe, [Next]_vars PROVE MutexRight'
  OBVIOUS
<1>1. MutexRight /\ pc \in [Tasks -> {"idle", "acquire", "fill", "again", "release", "return",
                                     "rmAcquire", "shift"}]
  BY Zenon DEF Safe, TypeOK, TaskType
<1>2. CASE UNCHANGED <<owner, pc, leaked>>
  BY <1>1, <1>2, Zenon DEF MutexRight, Inside, Stuck
<1>3. ASSUME NEW t \in Tasks, NEW name \in Names, Register(t, name) PROVE MutexRight'
  BY <1>1, <1>3 DEF MutexRight, Inside, Stuck, Register, Step, progVars
<1>4. ASSUME NEW t \in Tasks, RegReturn(t) \/ Remove(t) PROVE MutexRight'
  BY <1>1, <1>4 DEF MutexRight, Inside, Stuck, RegReturn, Remove, Iterate, Step, progVars
<1>5. ASSUME NEW t \in Tasks, RegAcquire(t) \/ RmAcquire(t) PROVE MutexRight'
  BY <1>1, <1>5 DEF MutexRight, Inside, Stuck, RegAcquire, RmAcquire, Step
<1>6. ASSUME NEW t \in Tasks, RegFill(t) \/ RmShift(t) PROVE MutexRight'
  BY <1>1, <1>6 DEF MutexRight, Inside, Stuck, RegFill, RmShift, Step
<1>7. ASSUME NEW t \in Tasks, RegRelease(t) \/ RmRelease(t) PROVE MutexRight'
  BY <1>1, <1>7 DEF MutexRight, Inside, Stuck, RegRelease, RmRelease, Iterate, Step
<1>8. ASSUME NEW t \in Tasks, RmInvalid(t) PROVE MutexRight'
  BY <1>1, <1>8 DEF MutexRight, Inside, Stuck, RmInvalid, Iterate, Step
<1>9. CASE CliNext \/ \E name \in Typed \cup {Question} : Type(name)
  BY <1>2, <1>9, CliSteps, Zenon DEF taskVars, Safe, TypeOK, ProgType
<1>10. QED
  <2>1. CASE Within
    BY <2>1, <1>3, <1>4, <1>5, <1>6, <1>7, <1>8, <1>9, Zenon DEF Within, TaskNext
  <2>2. CASE UNCHANGED Base
    BY <2>2, <1>2, Zenon DEF Base, progVars, taskVars
  <2>3. QED
    BY <2>1, <2>2, StepCases, Zenon

\* Every step keeps a removal and a call within the table.
LEMMA IdxKept == Safe /\ [Next]_vars => IdxInv'
<1> SUFFICES ASSUME Safe, [Next]_vars PROVE IdxInv'
  OBVIOUS
<1> USE Bounds
<1>1. /\ pc \in [Tasks -> {"idle", "acquire", "fill", "again", "release", "return",
                           "rmAcquire", "shift"}]
      /\ idx \in [Tasks -> Cells \cup {NULL}] /\ hnd \in [Tasks -> Seq(Handle)]
      /\ cnt \in 0..Cap /\ j \in 0..Cap
  BY Zenon DEF Safe, TypeOK, TaskType, ProgType, CliType
<1>2. MutexRight /\ IdxInv
  BY Zenon DEF Safe
<1>3. CASE UNCHANGED <<cnt, pc, idx, hnd, cpc, j>>
  BY <1>2, <1>3, Zenon DEF IdxInv
<1>4. ASSUME NEW t \in Tasks, NEW name \in Names, Register(t, name) PROVE IdxInv'
  BY <1>1, <1>2, <1>4 DEF IdxInv, Register, Step, progVars, cliVars
<1>5. ASSUME NEW t \in Tasks, RegAcquire(t) \/ RegRelease(t) \/ RegReturn(t) \/ Remove(t)
      PROVE IdxInv'
  BY <1>1, <1>2, <1>5 DEF IdxInv, RegAcquire, RegRelease, RegReturn, Remove, Iterate, Step,
                          progVars, cliVars
<1>6. ASSUME NEW t \in Tasks, RegFill(t) PROVE IdxInv'
  BY <1>1, <1>2, <1>6 DEF IdxInv, RegFill, Step, cliVars
<1>7. ASSUME NEW t \in Tasks, RmInvalid(t) \/ RmAcquire(t) PROVE IdxInv'
  BY <1>1, <1>2, <1>7 DEF IdxInv, RmInvalid, RmAcquire, Iterate, Step, cliVars
<1>8. ASSUME NEW t \in Tasks, RmShift(t) PROVE IdxInv'
  BY <1>1, <1>2, <1>8 DEF IdxInv, RmShift, Step, cliVars
<1>9. ASSUME NEW t \in Tasks, RmRelease(t) PROVE IdxInv'
  BY <1>1, <1>2, <1>9 DEF IdxInv, MutexRight, Inside, Stuck, RmRelease, Iterate, Step, cliVars
<1>10. CASE CliNext \/ \E name \in Typed \cup {Question} : Type(name)
  <2>1. UNCHANGED <<taskVars, cnt>>
    BY <1>10, CliSteps, Zenon DEF Safe, TypeOK, ProgType
  <2>2. cpc' = "call" => j' \in Cells
    <3>1. CASE Scan
      BY <3>1, <1>1, <1>2 DEF Scan, CliStep, IdxInv, Cells
    <3>2. CASE Help
      <4>1. cpc' \in {"print", "tidyUp"}
        BY <3>2, Zenon DEF Help, CliStep
      <4>2. QED
        BY <4>1
    <3>3. CASE \E name \in Typed \cup {Question} : Type(name)
      BY <3>3 DEF Type, CliStep
    <3>4. CASE LookUp \/ Call \/ Done \/ TidyUp \/ PrintHelp
      BY <3>4 DEF LookUp, Call, Done, TidyUp, PrintHelp, CliStep
    <3>5. QED
      BY <3>1, <3>2, <3>3, <3>4, <1>10, Zenon DEF CliNext
  <2>3. QED
    BY <2>1, <2>2, <1>2, Zenon DEF IdxInv, taskVars
<1>11. QED
  <2>1. CASE Within
    BY <2>1, <1>4, <1>5, <1>6, <1>7, <1>8, <1>9, <1>10, Zenon DEF Within, TaskNext
  <2>2. CASE UNCHANGED Base
    BY <2>2, <1>3, Zenon DEF Base, progVars, taskVars, cliVars
  <2>3. QED
    BY <2>1, <2>2, StepCases, Zenon

\* Every step keeps the commands about to be entered apart from those entered,
\* and what is stored among those entered.
LEMMA CmdKept == Safe /\ [Next]_vars => CmdInv'
<1> SUFFICES ASSUME Safe, [Next]_vars PROVE CmdInv'
  OBVIOUS
<1> USE Bounds
<1>1. /\ pc \in [Tasks -> {"idle", "acquire", "fill", "again", "release", "return",
                           "rmAcquire", "shift"}]
      /\ cmd \in [Tasks -> 0..MaxCmds] /\ hnd \in [Tasks -> Seq(Handle)]
      /\ idx \in [Tasks -> Cells \cup {NULL}]
      /\ named \in Seq(Names)
      /\ cnt \in 0..Cap /\ table \in [Cells -> Entry]
  BY Zenon DEF Safe, TypeOK, TaskType, ProgType
<1>2. MutexRight /\ IdxInv /\ CmdInv
  BY Zenon DEF Safe
<1>3. CASE UNCHANGED <<taskVars, cnt>> /\ \A c \in Cells : table'[c].cmd = table[c].cmd
  <2>1. \A c \in Stored(cnt) : c \in Cells
    BY <1>1 DEF Stored, Cells
  <2>2. QED
    BY <1>2, <1>3, <2>1, Zenon DEF CmdInv, Entering, taskVars
<1>4. ASSUME NEW t \in Tasks, NEW name \in Names, Register(t, name) PROVE CmdInv'
  BY <1>1, <1>2, <1>4 DEF CmdInv, Entering, Register, Step, progVars
<1>5. ASSUME NEW t \in Tasks,
             RegAcquire(t) \/ RegRelease(t) \/ RegReturn(t) \/ Remove(t) \/ RmInvalid(t)
      PROVE CmdInv'
  <2>1. CASE RegAcquire(t) \/ RegRelease(t) \/ Remove(t) \/ RmInvalid(t)
    <3>1. UNCHANGED <<cmd, named, filled, gone, cnt, table>>
      BY <2>1, Zenon DEF RegAcquire, RegRelease, Remove, RmInvalid, progVars
    <3>2. \A u \in Tasks : Entering(u)' => Entering(u)
      BY <1>1, <2>1 DEF Entering, RegAcquire, RegRelease, Remove, RmInvalid, Iterate, Step
    <3>3. QED
      BY <1>2, <3>1, <3>2, Zenon DEF CmdInv
  <2>2. CASE RegReturn(t)
    <3>1. UNCHANGED <<named, filled, gone, cnt, table>>
      BY <2>2, Zenon DEF RegReturn, progVars
    <3>2. \A u \in Tasks : Entering(u)' => Entering(u) /\ u # t
      BY <1>1, <2>2 DEF Entering, RegReturn, Step
    <3>3. cmd'[t] = 0 /\ \A u \in Tasks \ {t} : cmd'[u] = cmd[u]
      BY <1>1, <2>2 DEF RegReturn
    <3>4. QED
      <4>1. \A u \in Tasks : Entering(u)' =>
                /\ cmd'[u] \in 1..Len(named) /\ cmd'[u] \notin filled
                /\ \A v \in Tasks \ {u} : cmd'[v] # cmd'[u]
        BY <1>2, <3>2, <3>3 DEF CmdInv
      <4>2. \A u \in Tasks : cmd'[u] <= Len(named)
        BY <1>1, <1>2, <3>3 DEF CmdInv
      <4>3. QED
        BY <1>2, <3>1, <4>1, <4>2, Zenon DEF CmdInv
  <2>3. QED
    BY <1>5, <2>1, <2>2, Zenon
<1>6. ASSUME NEW t \in Tasks, RegFill(t) PROVE CmdInv'
  <2>1. \A c \in Stored(cnt') : table'[c].cmd \in filled'
    BY <1>1, <1>2, <1>6 DEF CmdInv, RegFill, Stored, Cells
  <2>2. filled' \subseteq 1..Len(named)
    BY <1>1, <1>2, <1>6 DEF CmdInv, Entering, RegFill, Step
  <2>3. QED
    BY <2>1, <2>2, <1>1, <1>2, <1>6 DEF CmdInv, Entering, RegFill, Step
<1>7. ASSUME NEW t \in Tasks, RmAcquire(t) PROVE CmdInv'
  BY <1>1, <1>2, <1>7 DEF CmdInv, Entering, RmAcquire, Step, Stored
<1>8. ASSUME NEW t \in Tasks, RmShift(t) PROVE CmdInv'
  <2>1. \A c \in Stored(cnt') : table'[c].cmd \in filled'
    BY <1>1, <1>2, <1>8 DEF CmdInv, IdxInv, RmShift, Step, Stored, Cells
  <2>2. QED
    BY <2>1, <1>1, <1>2, <1>8 DEF CmdInv, Entering, RmShift, Step
<1>9. ASSUME NEW t \in Tasks, RmRelease(t) PROVE CmdInv'
  BY <1>1, <1>2, <1>9 DEF CmdInv, IdxInv, Entering, RmRelease, Iterate, Step, Stored
<1>10. CASE CliNext \/ \E name \in Typed \cup {Question} : Type(name)
  BY <1>1, <1>3, <1>10, CliSteps, Zenon
<1>11. QED
  <2>1. CASE Within
    BY <2>1, <1>4, <1>5, <1>6, <1>7, <1>8, <1>9, <1>10, Zenon DEF Within, TaskNext
  <2>2. CASE UNCHANGED Base
    BY <2>2, <1>3, Zenon DEF Base, progVars
  <2>3. QED
    BY <2>1, <2>2, StepCases, Zenon

LEMMA SafeKept == Safe /\ [Next]_vars => Safe'
BY ProgTypeKept, TaskTypeKept, CliTypeKept, HistoryTypeKept, MutexKept, IdxKept, CmdKept, Zenon
   DEF Safe, TypeOK

\* Types: in particular, sCliCmdCnt stays between 0 and CLI_MAX_CMD_CNT and every
\* index is one of spCliCmds[], however the tasks preempt each other, up to a
\* write behind the table.
THEOREM TypeCorrect == Spec => []TypeOK
<1>1. Safe => TypeOK
  BY Zenon DEF Safe
<1>2. QED
  BY SafeInit, SafeKept, <1>1, PTL DEF Spec

\* The table has one writer at a time, and modifyMtx is given back by whoever
\* took it; but for a call with an invalid index, which leaves with it, and a
\* registration of a name already there, which waits for itself with it.
THEOREM MutexIsRight == Spec => []MutexRight
<1>1. Safe => MutexRight
  BY Zenon DEF Safe
<1>2. QED
  BY SafeInit, SafeKept, <1>1, PTL DEF Spec

(***************************************************************************)
(* Room                                                                    *)
(***************************************************************************)

\* A task past the check for room has found room, and is the only one.
RoomInv ==
    ~crowded => \A t \in Tasks : Entering(t) => /\ cnt < Cap
                                                /\ \A u \in Tasks : Entering(u) => u = t

LEMMA RoomKept == Safe /\ RoomInv /\ [Next]_vars => RoomInv'
<1> SUFFICES ASSUME Safe, RoomInv, [Next]_vars PROVE RoomInv'
  OBVIOUS
<1>1. /\ pc \in [Tasks -> {"idle", "acquire", "fill", "again", "release", "return",
                           "rmAcquire", "shift"}]
      /\ cnt \in 0..Cap /\ table \in [Cells -> Entry] /\ Cap \in Nat
  BY RegistryAssumption, Zenon DEF Safe, TypeOK, TaskType, ProgType
<1>2. CASE UNCHANGED <<crowded, cnt, pc>>
  BY <1>2, Zenon DEF RoomInv, Entering
<1>3. ASSUME NEW t \in Tasks, NEW name \in Names, Register(t, name) PROVE RoomInv'
  <2>1. CASE crowded \/ \E u \in Tasks : Entering(u)
    BY <2>1, <1>3, Zenon DEF RoomInv, Register
  <2>2. CASE ~crowded /\ \A u \in Tasks : ~Entering(u)
    <3>1. cnt < Cap /\ cnt' = cnt
      BY <2>2, <1>1, <1>3, RoomInv DEF RoomInv, Register, Full, progVars
    <3>2. \A u \in Tasks : Entering(u)' => u = t
      BY <2>2, <1>1, <1>3 DEF Register, Step, Entering
    <3>3. QED
      BY <3>1, <3>2, <1>1 DEF RoomInv
  <2>3. QED
    BY <2>1, <2>2, Zenon
<1>4. ASSUME NEW t \in Tasks, RegFill(t), ~crowded PROVE RoomInv'
  <2>1. cnt < Cap /\ cnt' = cnt + 1
    BY <1>4, RoomInv DEF RoomInv, RegFill, Step, Entering
  <2>2. \A u \in Tasks : ~Entering(u)'
    BY <1>1, <1>4, RoomInv DEF RoomInv, RegFill, Step, Entering
  <2>3. QED
    BY <2>1, <2>2, <1>1 DEF RoomInv
<1>5. ASSUME NEW t \in Tasks, RegAcquire(t) \/ RegRelease(t) \/ RegReturn(t) \/ Remove(t), ~crowded
      PROVE RoomInv'
  <2>1. cnt' = cnt /\ \A u \in Tasks : Entering(u)' => Entering(u)
    BY <1>1, <1>5 DEF RegAcquire, RegRelease, RegReturn, Remove, Iterate, Step, Entering,
                       progVars
  <2>2. QED
    BY <2>1, <1>5, RoomInv, Zenon DEF RoomInv
<1>6. ASSUME NEW t \in Tasks, RmInvalid(t) \/ RmAcquire(t) \/ RmShift(t) \/ RmRelease(t), ~crowded
      PROVE RoomInv'
  <2>1. cnt' <= cnt /\ \A u \in Tasks : Entering(u)' => Entering(u)
    BY <1>1, <1>6 DEF RmInvalid, RmAcquire, RmShift, RmRelease, Iterate, Step, Entering
  <2>2. cnt' \in Int
    BY <1>1, <1>6 DEF RmInvalid, RmAcquire, RmShift, RmRelease
  <2>3. \A u \in Tasks : Entering(u) => cnt < Cap
    BY <1>6, RoomInv, Zenon DEF RoomInv
  <2>4. \A u \in Tasks : Entering(u)' => cnt' < Cap
    BY <2>1, <2>2, <2>3, <1>1
  <2>5. QED
    BY <2>1, <2>4, <1>6, RoomInv, Zenon DEF RoomInv
<1>7. CASE CliNext \/ \E name \in Typed \cup {Question} : Type(name)
  BY <1>1, <1>2, <1>7, CliSteps, Zenon DEF taskVars
<1>8. ASSUME NEW t \in Tasks, TaskNext(t) \/ Remove(t), crowded PROVE RoomInv'
  <2>1. crowded' = crowded
    BY <1>8, Zenon DEF TaskNext, Remove, RegAcquire, RegFill, RegRelease, RegReturn, RmInvalid,
                       RmAcquire, RmShift, RmRelease
  <2>2. QED
    BY <2>1, <1>8, Zenon DEF RoomInv
<1>9. QED
  <2>1. CASE Within
    BY <2>1, <1>3, <1>4, <1>5, <1>6, <1>7, <1>8, Zenon DEF Within, TaskNext
  <2>2. CASE UNCHANGED Base
    BY <2>2, <1>2, Zenon DEF Base, progVars, taskVars
  <2>3. QED
    BY <2>1, <2>2, StepCases, Zenon

LEMMA WithinKept == Safe /\ RoomInv /\ WithinTable /\ [Next]_vars => WithinTable'
<1> SUFFICES ASSUME Safe, RoomInv, WithinTable, [Next]_vars PROVE WithinTable'
  OBVIOUS
<1>1. crowded => crowded'
  BY StepCases, Zenon
     DEF Within, TaskNext, CliNext, Register, Remove, RegAcquire, RegFill, RegRelease, RegReturn,
         RmInvalid, RmAcquire, RmShift, RmRelease, Type, LookUp, Scan, Call, Done, Help, TidyUp,
         PrintHelp, CliStep, taskVars, Base
<1>2. ASSUME NEW t \in Tasks, Overflow(t) PROVE crowded
  <2>1. Entering(t) /\ cnt \notin Cells /\ cnt \in 0..Cap
    BY <1>2, Zenon DEF Overflow, Entering, Safe, TypeOK, ProgType
  <2>2. ~(cnt < Cap)
    BY <2>1, Bounds DEF Cells
  <2>3. QED
    BY <2>1, <2>2, Zenon DEF RoomInv
<1>3. overrun' = overrun \/ \E t \in Tasks : Overflow(t)
  BY Zenon DEF Next, vars
<1>4. QED
  BY <1>1, <1>2, <1>3, Zenon DEF WithinTable

\* No command is written behind spCliCmds[], unless two tasks pass the check for
\* room together.
THEOREM TableHasRoom == Spec => []WithinTable
<1>1. Init => RoomInv /\ WithinTable
  <2>1. ASSUME Init PROVE ~overrun /\ \A t \in Tasks : ~Entering(t)
    BY <2>1 DEF Init, Entering
  <2>2. QED
    BY <2>1, Zenon DEF RoomInv, WithinTable
<1>2. QED
  BY SafeInit, SafeKept, RoomKept, WithinKept, <1>1, PTL DEF Spec

(***************************************************************************)
(* The table's content                                                     *)
(***************************************************************************)

\* The entry that is being overwritten by a removal is no longer, or not yet
\* again, one of the table's.
Hole(c) == \E t \in Tasks : pc[t] = "shift" /\ idx[t] = c

\* But for that entry, the table holds each command registered and not removed
\* once: TableExact, strengthened to the time of a removal.
ExactInv ==
    /\ \A c \in Stored(cnt) : ~Hole(c) => table[c].cmd \in filled \ gone
    /\ \A k \in filled \ gone : \E c \in Stored(cnt) : ~Hole(c) /\ table[c].cmd = k
    /\ \A c, d \in Stored(cnt) :
           ~Hole(c) /\ ~Hole(d) /\ table[c].cmd = table[d].cmd => c = d

LEMMA ExactKept == Safe /\ ExactInv /\ [Next]_vars => ExactInv'
<1> SUFFICES ASSUME Safe, ExactInv, [Next]_vars PROVE ExactInv'
  OBVIOUS
<1>1. /\ pc \in [Tasks -> {"idle", "acquire", "fill", "again", "release", "return",
                           "rmAcquire", "shift"}]
      /\ idx \in [Tasks -> Cells \cup {NULL}]
      /\ cnt \in 0..Cap /\ table \in [Cells -> Entry] /\ MaxCmds \in Nat /\ Cap \in Nat
  BY Bounds, Zenon DEF Safe, TypeOK, TaskType, ProgType
<1>2. MutexRight /\ IdxInv /\ CmdInv
  BY Zenon DEF Safe
<1>3. \A c \in Stored(cnt) : c \in Cells
  BY <1>1 DEF Stored, Cells
<1>4. ASSUME UNCHANGED <<cnt, filled, gone>>,
             \A c \in Cells : table'[c].cmd = table[c].cmd,
             \A c : Hole(c)' <=> Hole(c)
      PROVE ExactInv'
  BY <1>3, <1>4, Zenon DEF ExactInv
<1>5. ASSUME NEW t \in Tasks, NEW name \in Names, Register(t, name) PROVE ExactInv'
  <2>1. \A c : Hole(c)' <=> Hole(c)
    BY <1>1, <1>5 DEF Register, Step, Hole
  <2>2. QED
    BY <2>1, <1>4, <1>5, Zenon DEF Register, progVars
<1>6. ASSUME NEW t \in Tasks,
             RegAcquire(t) \/ RegRelease(t) \/ RegReturn(t) \/ Remove(t) \/ RmInvalid(t)
      PROVE ExactInv'
  <2>1. \A c : Hole(c)' <=> Hole(c)
    BY <1>1, <1>6 DEF RegAcquire, RegRelease, RegReturn, Remove, RmInvalid, Iterate, Step, Hole
  <2>2. QED
    BY <2>1, <1>4, <1>6, Zenon DEF RegAcquire, RegRelease, RegReturn, Remove, RmInvalid, progVars
<1>7. ASSUME NEW t \in Tasks, RegFill(t) PROVE ExactInv'
  <2>1. \A c : ~Hole(c) /\ ~Hole(c)'
    BY <1>1, <1>2, <1>7 DEF RegFill, Step, Hole, MutexRight, Inside
  <2>2. cmd[t] \notin filled /\ gone \subseteq filled
    BY <1>2, <1>7 DEF RegFill, Step, CmdInv, Entering
  <2>3. /\ table'[cnt].cmd = cmd[t] /\ Stored(cnt') = Stored(cnt) \cup {cnt}
        /\ \A c \in Stored(cnt) : table'[c] = table[c]
    BY <1>1, <1>3, <1>7 DEF RegFill, Stored
  <2>4. filled' = filled \cup {cmd[t]} /\ gone' = gone
    BY <1>7 DEF RegFill
  <2>5. QED
    BY <2>1, <2>2, <2>3, <2>4 DEF ExactInv
<1>8. ASSUME NEW t \in Tasks, RmAcquire(t) PROVE ExactInv'
  <2>1. \A c : ~Hole(c) /\ (Hole(c)' <=> c = idx'[t])
    BY <1>1, <1>2, <1>8 DEF RmAcquire, Step, Hole, MutexRight, Inside
  <2>2. /\ idx'[t] \in Stored(cnt) /\ gone' = gone \cup {table[idx'[t]].cmd}
        /\ UNCHANGED <<table, cnt, filled>>
    BY <1>1, <1>8 DEF RmAcquire, Stored
  <2>3. QED
    BY <2>1, <2>2 DEF ExactInv
<1>9. ASSUME NEW t \in Tasks, RmShift(t) PROVE ExactInv'
  <2>1. \A c : (Hole(c) <=> c = idx[t]) /\ (Hole(c)' <=> c = idx[t] + 1)
    BY <1>1, <1>2, <1>9 DEF RmShift, Step, Hole, MutexRight, Inside
  <2>2. /\ idx[t] \in Stored(cnt) /\ idx[t] + 1 \in Stored(cnt)
        /\ UNCHANGED <<cnt, filled, gone>>
    BY <1>1, <1>2, <1>9 DEF RmShift, Step, IdxInv, Stored
  <2>3. /\ table'[idx[t]] = table[idx[t] + 1]
        /\ \A c \in Stored(cnt) : c # idx[t] => table'[c] = table[c]
    BY <2>2, <1>1, <1>3, <1>9 DEF RmShift
  <2>4. idx[t] # idx[t] + 1
    BY <2>2 DEF Stored
  <2>5. \A c \in Stored(cnt)' : ~Hole(c)' =>
            \E b \in Stored(cnt) : /\ ~Hole(b) /\ table'[c] = table[b]
                                   /\ b = IF c = idx[t] THEN idx[t] + 1 ELSE c
    BY <2>1, <2>2, <2>3, <2>4
  <2>6. \A b \in Stored(cnt) : ~Hole(b) =>
            \E c \in Stored(cnt)' : ~Hole(c)' /\ table'[c] = table[b]
    BY <2>1, <2>2, <2>3, <2>4
  <2>7. \A c \in Stored(cnt)' : ~Hole(c)' => table'[c].cmd \in (filled \ gone)'
    BY <2>2, <2>5, Zenon DEF ExactInv
  <2>8. \A k \in (filled \ gone)' : \E c \in Stored(cnt)' : ~Hole(c)' /\ table'[c].cmd = k
    BY <2>2, <2>6 DEF ExactInv
  <2>9. \A c, d \in Stored(cnt)' :
            ~Hole(c)' /\ ~Hole(d)' /\ table'[c].cmd = table'[d].cmd => c = d
    <3>1. SUFFICES ASSUME NEW c \in Stored(cnt)', NEW d \in Stored(cnt)',
                          ~Hole(c)', ~Hole(d)', table'[c].cmd = table'[d].cmd
                   PROVE  c = d
      OBVIOUS
    <3>2. PICK b \in Stored(cnt) : /\ ~Hole(b) /\ table'[c] = table[b]
                                   /\ b = IF c = idx[t] THEN idx[t] + 1 ELSE c
      BY <2>5, <3>1, Zenon
    <3>3. PICK e \in Stored(cnt) : /\ ~Hole(e) /\ table'[d] = table[e]
                                   /\ e = IF d = idx[t] THEN idx[t] + 1 ELSE d
      BY <2>5, <3>1, Zenon
    <3>4. b = e
      BY <3>1, <3>2, <3>3 DEF ExactInv
    <3>5. c # idx[t] + 1 /\ d # idx[t] + 1
      BY <2>1, <3>1
    <3>6. QED
      BY <3>2, <3>3, <3>4, <3>5
  <2>10. QED
    BY <2>7, <2>8, <2>9 DEF ExactInv
<1>10. ASSUME NEW t \in Tasks, RmRelease(t) PROVE ExactInv'
  <2>1. \A c : (Hole(c) <=> c = idx[t]) /\ ~Hole(c)'
    BY <1>1, <1>2, <1>10 DEF RmRelease, Iterate, Step, Hole, MutexRight, Inside
  <2>2. /\ Stored(cnt) = Stored(cnt') \cup {idx[t]} /\ idx[t] \notin Stored(cnt')
        /\ UNCHANGED <<table, filled, gone>>
    BY <1>1, <1>2, <1>10 DEF RmRelease, Iterate, Step, IdxInv, Stored
  <2>3. QED
    BY <2>1, <2>2 DEF ExactInv
<1>11. CASE CliNext \/ \E name \in Typed \cup {Question} : Type(name)
  <2>1. UNCHANGED <<taskVars, cnt>> /\ \A c \in Cells : table'[c].cmd = table[c].cmd
    BY <1>1, <1>11, CliSteps, Zenon
  <2>2. \A c : Hole(c)' <=> Hole(c)
    BY <2>1, Zenon DEF Hole, taskVars
  <2>3. QED
    BY <2>1, <2>2, <1>4, Zenon DEF taskVars
<1>12. CASE UNCHANGED Base
  <2>1. \A c : Hole(c)' <=> Hole(c)
    BY <1>12, Zenon DEF Hole, Base, taskVars
  <2>2. QED
    BY <2>1, <1>4, <1>12, Zenon DEF Base, taskVars, progVars
<1>13. QED
  BY <1>5, <1>6, <1>7, <1>8, <1>9, <1>10, <1>11, <1>12, StepCases, Zenon DEF Within, TaskNext

\* However registrations, removals and look-ups interleave, the table holds the
\* commands registered and not removed, each in one entry.
THEOREM TableIsExact == Spec => []TableExact
<1>1. Init => ExactInv
  BY DEF Init, ExactInv, Stored
<1>2. ExactInv => TableExact
  BY DEF ExactInv, TableExact, Shifting, Hole
<1>3. QED
  BY SafeInit, SafeKept, ExactKept, <1>1, <1>2, PTL DEF Spec

(***************************************************************************)
(* The names                                                               *)
(***************************************************************************)

\* NamesOnce, strengthened to the time of a removal, as TableExact above.
NamesInv ==
    \/ \E t \in Tasks : Stuck(t)
    \/ \A c, d \in Stored(cnt) :
           ~Hole(c) /\ ~Hole(d) /\ table[c].tok = table[d].tok => c = d

LEMMA NamesKept == Safe /\ NamesInv /\ [Next]_vars => NamesInv'
<1> SUFFICES ASSUME Safe, NamesInv, [Next]_vars PROVE NamesInv'
  OBVIOUS
<1>1. /\ pc \in [Tasks -> {"idle", "acquire", "fill", "again", "release", "return",
                           "rmAcquire", "shift"}]
      /\ idx \in [Tasks -> Cells \cup {NULL}]
      /\ cnt \in 0..Cap /\ table \in [Cells -> Entry] /\ Cap \in Nat
  BY Bounds, Zenon DEF Safe, TypeOK, TaskType, ProgType
<1>2. MutexRight /\ IdxInv
  BY Zenon DEF Safe
<1>3. \A c \in Stored(cnt) : c \in Cells
  BY <1>1 DEF Stored, Cells
<1>4. ASSUME NEW t \in Tasks, Stuck(t), Within \/ UNCHANGED Base PROVE Stuck(t)'
  <2>1. CASE \E u \in Tasks : TaskNext(u) \/ Remove(u) \/ \E name \in Names : Register(u, name)
    <3>1. PICK u \in Tasks : TaskNext(u) \/ Remove(u) \/ \E name \in Names : Register(u, name)
      BY <2>1
    <3>2. pc[u] # "again" /\ \A v \in Tasks \ {u} : pc'[v] = pc[v]
      BY <1>1, <3>1 DEF TaskNext, Remove, Register, RegAcquire, RegFill, RegRelease, RegReturn,
                        RmInvalid, RmAcquire, RmShift, RmRelease, Iterate, Step
    <3>3. QED
      BY <1>4, <3>2 DEF Stuck
  <2>2. CASE (CliNext \/ \E name \in Typed \cup {Question} : Type(name)) \/ UNCHANGED Base
    BY <1>1, <1>4, <2>2, CliSteps, Zenon DEF Stuck, taskVars, Base
  <2>3. QED
    BY <1>4, <2>1, <2>2, Zenon DEF Within
<1>5. SUFFICES ASSUME \A t \in Tasks : ~Stuck(t),
                      \A c, d \in Stored(cnt) :
                          ~Hole(c) /\ ~Hole(d) /\ table[c].tok = table[d].tok => c = d
               PROVE  NamesInv'
  BY <1>4, StepCases, Zenon DEF NamesInv
<1>6. ASSUME UNCHANGED cnt,
             \A c \in Cells : table'[c].tok = table[c].tok,
             \A c : Hole(c)' <=> Hole(c)
      PROVE NamesInv'
  BY <1>3, <1>5, <1>6, Zenon DEF NamesInv
<1>7. ASSUME NEW t \in Tasks,
             \/ RegAcquire(t) \/ RegRelease(t) \/ RegReturn(t) \/ Remove(t) \/ RmInvalid(t)
             \/ \E name \in Names : Register(t, name)
      PROVE NamesInv'
  <2>1. \A c : Hole(c)' <=> Hole(c)
    BY <1>1, <1>7 DEF RegAcquire, RegRelease, RegReturn, Remove, RmInvalid, Register, Iterate,
                      Step, Hole
  <2>2. QED
    BY <2>1, <1>6, <1>7, Zenon
       DEF RegAcquire, RegRelease, RegReturn, Remove, RmInvalid, Register, progVars
<1>8. ASSUME NEW t \in Tasks, RegFill(t) PROVE NamesInv'
  <2>1. CASE Duplicate(line)
    <3>1. Stuck(t)'
      BY <2>1, <1>1, <1>8 DEF RegFill, Step, Stuck
    <3>2. QED
      BY <3>1, Zenon DEF NamesInv
  <2>2. CASE ~Duplicate(line)
    <3>1. \A c : ~Hole(c)
      BY <1>1, <1>2, <1>8 DEF RegFill, Step, Hole, MutexRight, Inside
    <3>2. \A c \in Stored(cnt) : table[c].tok # line
      BY <2>2, Zenon DEF Duplicate, Stored
    <3>3. /\ table'[cnt].tok = line /\ Stored(cnt') = Stored(cnt) \cup {cnt}
          /\ \A c \in Stored(cnt) : table'[c] = table[c]
      BY <1>1, <1>3, <1>8 DEF RegFill, Stored
    <3>4. \A c, d \in Stored(cnt') : table'[c].tok = table'[d].tok => c = d
      BY <3>1, <3>2, <3>3, <1>5
    <3>5. QED
      BY <3>4, Zenon DEF NamesInv
  <2>3. QED
    BY <2>1, <2>2, Zenon
<1>9. ASSUME NEW t \in Tasks, RmAcquire(t) PROVE NamesInv'
  <2>1. \A c : ~Hole(c)
    BY <1>1, <1>2, <1>9 DEF RmAcquire, Step, Hole, MutexRight, Inside
  <2>2. UNCHANGED <<table, cnt>>
    BY <1>9, Zenon DEF RmAcquire
  <2>3. QED
    BY <2>1, <2>2, <1>5, Zenon DEF NamesInv
<1>10. ASSUME NEW t \in Tasks, RmShift(t) PROVE NamesInv'
  <2>1. \A c : (Hole(c) <=> c = idx[t]) /\ (Hole(c)' <=> c = idx[t] + 1)
    BY <1>1, <1>2, <1>10 DEF RmShift, Step, Hole, MutexRight, Inside
  <2>2. /\ idx[t] \in Stored(cnt) /\ idx[t] + 1 \in Stored(cnt) /\ cnt' = cnt
        /\ idx[t] # idx[t] + 1
    BY <1>1, <1>2, <1>10 DEF RmShift, Step, IdxInv, Stored
  <2>3. /\ table'[idx[t]] = table[idx[t] + 1]
        /\ \A c \in Stored(cnt) : c # idx[t] => table'[c] = table[c]
    BY <2>2, <1>1, <1>3, <1>10 DEF RmShift
  <2>4. SUFFICES ASSUME NEW c \in Stored(cnt), NEW d \in Stored(cnt),
                        c # idx[t] + 1, d # idx[t] + 1, table'[c].tok = table'[d].tok
                 PROVE  c = d
    BY <2>1, <2>2, Zenon DEF NamesInv
  <2>5. PICK b \in Stored(cnt) : /\ b # idx[t] /\ table'[c] = table[b]
                                 /\ b = IF c = idx[t] THEN idx[t] + 1 ELSE c
    BY <2>2, <2>3, <2>4
  <2>6. PICK e \in Stored(cnt) : /\ e # idx[t] /\ table'[d] = table[e]
                                 /\ e = IF d = idx[t] THEN idx[t] + 1 ELSE d
    BY <2>2, <2>3, <2>4
  <2>7. b = e
    BY <2>1, <2>4, <2>5, <2>6, <1>5
  <2>8. QED
    BY <2>4, <2>5, <2>6, <2>7
<1>11. ASSUME NEW t \in Tasks, RmRelease(t) PROVE NamesInv'
  <2>1. \A c : Hole(c) <=> c = idx[t]
    BY <1>1, <1>2, <1>11 DEF RmRelease, Iterate, Step, Hole, MutexRight, Inside
  <2>2. \A c \in Stored(cnt') : c \in Stored(cnt) /\ c # idx[t]
    BY <1>1, <1>2, <1>11 DEF RmRelease, Iterate, Step, IdxInv, Stored
  <2>3. table' = table
    BY <1>11, Zenon DEF RmRelease
  <2>4. QED
    BY <2>1, <2>2, <2>3, <1>5, Zenon DEF NamesInv
<1>12. CASE CliNext \/ \E name \in Typed \cup {Question} : Type(name)
  <2>1. UNCHANGED <<taskVars, cnt>> /\ \A c \in Cells : table'[c].tok = table[c].tok
    BY <1>1, <1>12, CliSteps, Zenon
  <2>2. \A c : Hole(c)' <=> Hole(c)
    BY <2>1, Zenon DEF Hole, taskVars
  <2>3. QED
    BY <2>1, <2>2, <1>6, Zenon
<1>13. CASE UNCHANGED Base
  <2>1. \A c : Hole(c)' <=> Hole(c)
    BY <1>13, Zenon DEF Hole, Base, taskVars
  <2>2. QED
    BY <2>1, <1>6, <1>13, Zenon DEF Base, progVars
<1>14. QED
  BY <1>7, <1>8, <1>9, <1>10, <1>11, <1>12, <1>13, StepCases, Zenon DEF Within, TaskNext

\* No two entries have the same tokens, however the tasks and the CLI mix up
\* the static buffer those are taken from; but a task that registers a name
\* already there is stuck for ever, with both entries in the table.
THEOREM NamesAreOnce == Spec => []NamesOnce
<1>1. Init => NamesInv
  BY DEF Init, NamesInv, Stored
<1>2. NamesInv => NamesOnce
  BY Zenon DEF NamesInv, NamesOnce, Once, Shifting, Hole
<1>3. QED
  BY SafeInit, SafeKept, NamesKept, <1>1, <1>2, PTL DEF Spec

\* The three together: what CliRegistry's run checks of the table.
THEOREM TableIsRight == Spec => []TableRight
  BY TableHasRoom, TableIsExact, NamesAreOnce, PTL DEF TableRight

(***************************************************************************)
(* Handles                                                                 *)
(***************************************************************************)

Good(h) == h.at \in Stored(cnt) /\ table[h.at].cmd = h.of

\* What a task knows of its commands: between entering one and computing its
\* handle, that it is the last; with a handle, that it is there.
Knows(t) ==
    /\ pc[t] # "shift"
    /\ pc[t] \in {"again", "release", "return"} =>
           cnt - 1 \in Stored(cnt) /\ table[cnt - 1].cmd = cmd[t]
    /\ \A k \in 1..Len(hnd[t]) : Good(hnd[t][k])

\* HandleRight, strengthened to the calls that have not returned.
HandleInv == gone = {} /\ ~overtaken => \A t \in Tasks : Knows(t)

LEMMA HandleKept == Safe /\ HandleInv /\ [Next]_vars => HandleInv'
<1> SUFFICES ASSUME Safe, HandleInv, [Next]_vars PROVE HandleInv'
  OBVIOUS
<1>1. /\ pc \in [Tasks -> {"idle", "acquire", "fill", "again", "release", "return",
                           "rmAcquire", "shift"}]
      /\ hnd \in [Tasks -> Seq(Handle)] /\ cmd \in [Tasks -> 0..MaxCmds]
      /\ cnt \in 0..Cap /\ table \in [Cells -> Entry] /\ MaxCmds \in Nat /\ Cap \in Nat
  BY Bounds, Zenon DEF Safe, TypeOK, TaskType, ProgType
<1>2. MutexRight
  BY Zenon DEF Safe
<1>3. \A c \in Stored(cnt) : c \in Cells
  BY <1>1 DEF Stored, Cells
<1>4. CASE /\ UNCHANGED <<cnt, gone, overtaken, pc, cmd, hnd>>
           /\ \A c \in Cells : table'[c].cmd = table[c].cmd
  <2>1. \A h : Good(h) => Good(h)'
    BY <1>3, <1>4, Zenon DEF Good
  <2>2. QED
    BY <2>1, <1>3, <1>4, Zenon DEF HandleInv, Knows
<1>5. ASSUME NEW t \in Tasks, UNCHANGED <<cnt, table, gone, overtaken>>,
             \A u \in Tasks \ {t} : pc'[u] = pc[u] /\ cmd'[u] = cmd[u] /\ hnd'[u] = hnd[u],
             Knows(t) => Knows(t)'
      PROVE HandleInv'
  <2>1. \A h : Good(h)' <=> Good(h)
    BY <1>5, Zenon DEF Good
  <2>2. \A u \in Tasks \ {t} : Knows(u) => Knows(u)'
    BY <2>1, <1>5, Zenon DEF Knows
  <2>3. QED
    BY <2>2, <1>5, Zenon DEF HandleInv
<1>6. ASSUME NEW t \in Tasks,
             \/ RegAcquire(t) \/ RegRelease(t) \/ Remove(t)
             \/ \E name \in Names : Register(t, name)
      PROVE HandleInv'
  <2>1. UNCHANGED <<cnt, table, gone, overtaken>>
    BY <1>6, Zenon DEF RegAcquire, RegRelease, Remove, Register, progVars
  <2>2. \A u \in Tasks \ {t} : pc'[u] = pc[u] /\ cmd'[u] = cmd[u] /\ hnd'[u] = hnd[u]
    BY <1>1, <1>6 DEF RegAcquire, RegRelease, Remove, Register, Iterate, Step
  <2>3. ASSUME Knows(t) PROVE Knows(t)'
    <3>1. hnd'[t] = hnd[t] \/ hnd'[t] = <<>>
      BY <1>1, <1>6 DEF RegAcquire, RegRelease, Remove, Register, Iterate, Step
    <3>2. /\ pc'[t] # "shift"
          /\ pc'[t] \in {"again", "release", "return"} => pc[t] = "release" /\ cmd'[t] = cmd[t]
      BY <1>1, <1>6 DEF RegAcquire, RegRelease, Remove, Register, Iterate, Step
    <3>3. \A k \in 1..Len(hnd'[t]) : Good(hnd'[t][k])
      BY <2>3, <3>1 DEF Knows
    <3>4. QED
      BY <2>1, <2>3, <3>2, <3>3 DEF Knows, Good
  <2>4. QED
    BY <2>1, <2>2, <2>3, <1>5
<1>7. ASSUME NEW t \in Tasks, RegReturn(t) \/ RmInvalid(t) PROVE HandleInv'
  <2>1. UNCHANGED <<cnt, table, gone, overtaken>>
    BY <1>7, Zenon DEF RegReturn, RmInvalid, progVars
  <2>2. \A u \in Tasks \ {t} : pc'[u] = pc[u] /\ cmd'[u] = cmd[u] /\ hnd'[u] = hnd[u]
    BY <1>1, <1>7 DEF RegReturn, RmInvalid, Iterate, Step
  <2>3. pc'[t] \in {"idle", "rmAcquire"}
    BY <1>1, <1>7 DEF RegReturn, RmInvalid, Iterate, Step
  <2>4. ASSUME Knows(t) PROVE \A k \in 1..Len(hnd'[t]) : Good(hnd'[t][k])
    <3>1. CASE RegReturn(t)
      <4>1. hnd'[t] = Append(hnd[t], [at |-> cnt - 1, of |-> cmd[t]])
        BY <1>1, <3>1 DEF RegReturn
      <4>2. pc[t] = "return"
        BY <3>1, Zenon DEF RegReturn, Step
      <4>3. Good([at |-> cnt - 1, of |-> cmd[t]])
        BY <2>4, <4>2 DEF Knows, Good
      <4>4. \A k \in 1..Len(hnd[t]) : Good(hnd[t][k])
        BY <2>4, Zenon DEF Knows
      <4>5. \A k \in 1..Len(hnd'[t]) :
                \/ k \in 1..Len(hnd[t]) /\ hnd'[t][k] = hnd[t][k]
                \/ hnd'[t][k] = [at |-> cnt - 1, of |-> cmd[t]]
        BY <1>1, <4>1
      <4>6. QED
        BY <4>3, <4>4, <4>5, Zenon
    <3>2. CASE RmInvalid(t)
      <4>1. Left(hnd[t]) /\ hnd[t] \in Seq(Handle)
        BY <1>1, <1>7, <3>2, HasHandle, Zenon DEF RmInvalid, Iterate, Step, Safe
      <4>2. Good(hnd[t][1]) /\ hnd[t][1] = Head(hnd[t])
        BY <2>4, <4>1, Rests, Zenon DEF Knows
      <4>3. ~Good(Head(hnd[t]))
        BY <1>1, <3>2 DEF RmInvalid, Good, Stored
      <4>4. QED
        BY <4>2, <4>3
    <3>3. QED
      BY <1>7, <3>1, <3>2, Zenon
  <2>5. Knows(t) => Knows(t)'
    BY <2>1, <2>3, <2>4 DEF Knows, Good
  <2>6. QED
    BY <2>1, <2>2, <2>5, <1>5
<1>8. ASSUME NEW t \in Tasks, RegFill(t) PROVE HandleInv'
  <2>1. SUFFICES ASSUME gone = {}, ~overtaken, \A u \in Tasks \ {t} : pc[u] # "return"
                 PROVE  \A u \in Tasks : Knows(u)'
    BY <1>8, Zenon DEF HandleInv, RegFill, Returning
  <2>2. \A u \in Tasks \ {t} : pc[u] \notin {"again", "release", "shift"}
    BY <1>2, <1>8 DEF MutexRight, Inside, Stuck, RegFill, Step
  <2>3. /\ pc'[t] \in {"again", "release"} /\ UNCHANGED <<cmd, hnd>>
        /\ \A u \in Tasks \ {t} : pc'[u] = pc[u]
    BY <1>1, <1>8 DEF RegFill, Step
  <2>4. /\ cnt' - 1 = cnt /\ cnt \in Stored(cnt') /\ table'[cnt].cmd = cmd[t]
        /\ \A c \in Stored(cnt) : c \in Stored(cnt') /\ table'[c] = table[c]
    BY <1>1, <1>3, <1>8 DEF RegFill, Stored
  <2>8. \A h : Good(h) => Good(h)'
    BY <2>4, Zenon DEF Good
  <2>5. Knows(t)'
    <3>1. \A k \in 1..Len(hnd[t]) : Good(hnd[t][k])
      BY <2>1, Zenon DEF HandleInv, Knows
    <3>2. QED
      BY <3>1, <2>3, <2>4, <2>8 DEF Knows
  <2>6. ASSUME NEW u \in Tasks \ {t} PROVE Knows(u)'
    <3>1. Knows(u)
      BY <2>1 DEF HandleInv
    <3>2. QED
      BY <3>1, <2>1, <2>2, <2>3, <2>8 DEF Knows
  <2>7. QED
    BY <2>5, <2>6, Zenon
<1>9. ASSUME NEW t \in Tasks, RmAcquire(t) PROVE HandleInv'
  BY <1>9, Zenon DEF HandleInv, RmAcquire
<1>10. ASSUME NEW t \in Tasks, RmShift(t) \/ RmRelease(t) PROVE HandleInv'
  <2>1. pc[t] = "shift" /\ UNCHANGED <<gone, overtaken>>
    BY <1>10, Zenon DEF RmShift, RmRelease, Iterate, Step
  <2>2. QED
    BY <2>1, Zenon DEF HandleInv, Knows
<1>11. CASE CliNext \/ \E name \in Typed \cup {Question} : Type(name)
  BY <1>1, <1>4, <1>11, CliSteps, Zenon DEF taskVars
<1>12. CASE UNCHANGED Base
  BY <1>12, <1>4, Zenon DEF Base, progVars, taskVars
<1>13. QED
  BY <1>6, <1>7, <1>8, <1>9, <1>10, <1>11, <1>12, StepCases, Zenon DEF Within, TaskNext

\* Until something is removed, or a task overtakes another between the release
\* of the mutex and the computation of the handle, every handle is the index of
\* its task's command.
THEOREM HandleIsRight == Spec => []HandleRight
<1>1. Init => HandleInv
  BY DEF Init, HandleInv, Knows
<1>2. HandleInv => HandleRight
  BY Zenon DEF HandleInv, HandleRight, Knows, Good
<1>3. QED
  BY SafeInit, SafeKept, HandleKept, <1>1, <1>2, PTL DEF Spec

(***************************************************************************)
(* Look-ups                                                                *)
(***************************************************************************)

\* A look-up that nothing is removed during has found no entry of the name it
\* wants before the index, or one at the index, or has called one.
LookInv ==
    /\ cpc # "done" => called = 0
    /\ quiet =>
        /\ cpc \in LookingUp => due <= cnt
        /\ cpc = "scan" => j <= cnt /\ \A c \in Stored(j) : table[c].tok # want
        /\ cpc = "call" => j \in Stored(cnt) /\ table[j].tok = want
        /\ cpc = "done" =>
              IF called # 0 THEN \E c \in Stored(cnt) : table[c].cmd = called /\ table[c].tok = want
                            ELSE \A c \in Stored(due) : table[c].tok # want

LEMMA LookKept == Safe /\ LookInv /\ [Next]_vars => LookInv'
<1> SUFFICES ASSUME Safe, LookInv, [Next]_vars PROVE LookInv'
  OBVIOUS
<1>1. /\ cnt \in 0..Cap /\ table \in [Cells -> Entry] /\ MaxCmds \in Nat /\ Cap \in Nat
      /\ j \in 0..Cap /\ due \in 0..Cap /\ called \in 0..MaxCmds
  BY Bounds, Zenon DEF Safe, TypeOK, CliType, ProgType
<1>2. \A c \in Stored(cnt) : c \in Cells
  BY <1>1 DEF Stored, Cells
<1>3. CASE UNCHANGED <<cnt, table, cliVars, quiet>>
  BY <1>3, Zenon DEF LookInv, cliVars
<1>4. ASSUME NEW t \in Tasks, NEW name \in Names, Register(t, name) PROVE LookInv'
  BY <1>3, <1>4, Zenon DEF Register, progVars
<1>5. ASSUME NEW t \in Tasks,
             RegAcquire(t) \/ RegRelease(t) \/ RegReturn(t) \/ Remove(t) \/ RmInvalid(t)
      PROVE LookInv'
  BY <1>3, <1>5, Zenon DEF RegAcquire, RegRelease, RegReturn, Remove, RmInvalid, progVars
<1>6. ASSUME NEW t \in Tasks, RegFill(t) PROVE LookInv'
  <2>1. UNCHANGED <<cpc, want, j, called, due, quiet>>
    BY <1>6, Zenon DEF RegFill, cliVars
  <2>2. /\ cnt' = cnt + 1 /\ \A c \in Stored(cnt) : c \in Stored(cnt') /\ table'[c] = table[c]
    BY <1>1, <1>2, <1>6 DEF RegFill, Stored
  <2>3. /\ j <= cnt => \A c \in Stored(j) : c \in Stored(cnt)
        /\ due <= cnt => \A c \in Stored(due) : c \in Stored(cnt)
    BY <1>1 DEF Stored
  <2>4. CASE cpc \in LookingUp /\ quiet
    <3>1. due <= cnt /\ due <= cnt'
      BY <2>2, <2>4, <1>1 DEF LookInv
    <3>2. cpc = "scan" => j <= cnt /\ j <= cnt'
      BY <2>2, <2>4, <1>1 DEF LookInv
    <3>3. QED
      BY <2>1, <2>2, <2>3, <2>4, <3>1, <3>2, Zenon DEF LookInv
  <2>5. CASE ~(cpc \in LookingUp /\ quiet)
    BY <2>1, <2>5 DEF LookInv, LookingUp
  <2>6. QED
    BY <2>4, <2>5, Zenon
<1>7. ASSUME NEW t \in Tasks, RmAcquire(t) \/ RmShift(t) \/ RmRelease(t) PROVE LookInv'
  <2>1. UNCHANGED <<cpc, called>> /\ quiet' = (cpc \notin LookingUp)
    BY <1>7, Zenon DEF RmAcquire, RmShift, RmRelease, cliVars
  <2>2. QED
    BY <2>1 DEF LookInv, LookingUp
<1>8. ASSUME NEW name \in Typed \cup {Question}, Type(name) PROVE LookInv'
  BY <1>8 DEF LookInv, LookingUp, Type, CliStep
<1>9. CASE LookUp
  BY <1>1, <1>9 DEF LookInv, LookingUp, LookUp, CliStep, progVars, Stored
<1>10. CASE Scan
  <2>1. UNCHANGED <<cnt, table, want, called, due, quiet>> /\ called = 0 /\ cpc = "scan"
    BY <1>10 DEF Scan, CliStep, progVars, LookInv
  <2>2. CASE j >= cnt
    <3>1. cpc' = "done" /\ j' = j
      BY <1>10, <2>2 DEF Scan, CliStep
    <3>2. due <= cnt => \A c \in Stored(due) : c \in Stored(j)
      BY <1>1, <2>2 DEF Stored
    <3>3. QED
      BY <2>1, <3>1, <3>2 DEF LookInv, LookingUp
  <2>3. CASE j < cnt /\ table[j].tok = want
    <3>1. cpc' = "call" /\ j' = j /\ j \in Stored(cnt)
      BY <1>1, <1>10, <2>3 DEF Scan, CliStep, Stored
    <3>2. QED
      BY <2>1, <2>3, <3>1 DEF LookInv, LookingUp
  <2>4. CASE j < cnt /\ table[j].tok # want
    <3>1. cpc' = "scan" /\ j' = j + 1
      BY <1>1, <1>10, <2>4 DEF Scan, CliStep
    <3>2. j' <= cnt /\ \A c \in Stored(j') : c \in Stored(j) \/ c = j
      BY <1>1, <2>4, <3>1 DEF Stored
    <3>3. QED
      BY <2>1, <2>4, <3>1, <3>2 DEF LookInv, LookingUp
  <2>5. QED
    BY <1>1, <2>2, <2>3, <2>4
<1>11. CASE Call
  <2>1. /\ UNCHANGED <<cnt, table, want, due, quiet>> /\ called' = table[j].cmd
        /\ cpc = "call" /\ cpc' = "done"
    BY <1>11 DEF Call, CliStep, progVars
  <2>2. ASSUME quiet PROVE j \in Stored(cnt) /\ table[j].tok = want /\ due <= cnt /\ called' # 0
    <3>1. j \in Stored(cnt) /\ table[j].tok = want /\ due <= cnt
      BY <2>1, <2>2 DEF LookInv, LookingUp
    <3>2. table[j].cmd \in 1..Len(named)
      BY <3>1 DEF Safe, CmdInv
    <3>3. QED
      BY <2>1, <3>1, <3>2
  <2>3. QED
    BY <2>1, <2>2 DEF LookInv
<1>12. CASE Done
  BY <1>12 DEF LookInv, LookingUp, Done, CliStep
<1>13. CASE Help
  <2>1. cpc = "tokens" /\ cpc' \in {"print", "tidyUp"} /\ called' = called
    BY <1>13, Zenon DEF Help, CliStep
  <2>2. QED
    BY <2>1 DEF LookInv, LookingUp
<1>14. CASE TidyUp \/ PrintHelp
  <2>1. cpc \in {"tidyUp", "print"} /\ cpc' \in {"tidyUp", "print", "idle"} /\ called' = called
    BY <1>14, Zenon DEF TidyUp, PrintHelp, CliStep
  <2>2. QED
    BY <2>1 DEF LookInv, LookingUp
<1>15. CASE UNCHANGED Base
  BY <1>3, <1>15, Zenon DEF Base, progVars
<1>16. QED
  BY <1>4, <1>5, <1>6, <1>7, <1>8, <1>9, <1>10, <1>11, <1>12, <1>13, <1>14, <1>15, StepCases, Zenon
     DEF Within, TaskNext, CliNext

\* A look-up during which nothing is removed calls a command of the name typed,
\* and calls none only if none was there, unless the static buffer has mixed up
\* the tokens of two lines; however the tasks register meanwhile.
THEOREM LookupIsRight == Spec => []LookupRight
<1>1. Init => LookInv
  BY DEF Init, LookInv, LookingUp
<1>2. Safe /\ LookInv => LookupRight
  <2> SUFFICES ASSUME Safe, LookInv, cpc = "done", quiet, ~MixedUp
               PROVE  IF called # 0 THEN named[called] = typed
                                    ELSE \A c \in Stored(due) : named[table[c].cmd] # typed
    BY DEF LookupRight
  <2>1. want = typed /\ \A c \in Stored(cnt) : table[c].tok = named[table[c].cmd]
    BY Zenon DEF MixedUp
  <2>2. \A c \in Stored(due) : c \in Stored(cnt)
    BY DEF LookInv, LookingUp, Safe, TypeOK, CliType, ProgType, Stored
  <2>3. QED
    BY <2>1, <2>2 DEF LookInv
<1>3. QED
  BY SafeInit, SafeKept, LookKept, <1>1, <1>2, PTL DEF Spec

(***************************************************************************)
(* The help                                                                *)
(***************************************************************************)

Hinted(n) == \A c \in Stored(cnt) : c < n => table[c].hint # NULL

\* While the help is printed undisturbed nobody changes the table, and every
\* entry has its hint up to where tidying has come; a tidy table has them all,
\* until an entry is added and before it is marked untidy. Hints that have
\* never been moved are their own entry's.
HintInv ==
    /\ ~raced =>
        /\ Helping => \A t \in Tasks : pc[t] \notin {"again", "release", "shift"}
        /\ tidy /\ (\A t \in Tasks : pc[t] \notin {"again", "release"}) => Hinted(cnt)
        /\ cpc = "tidyUp" => Hinted(j)
        /\ cpc = "print" => Hinted(cnt)
    /\ gone = {} => /\ \A t \in Tasks : pc[t] # "shift"
                    /\ \A c \in Stored(cnt) : table[c].hint \in {NULL, c}

LEMMA HintKept == Safe /\ HintInv /\ [Next]_vars => HintInv'
<1> SUFFICES ASSUME Safe, HintInv, [Next]_vars PROVE HintInv'
  OBVIOUS
<1>1. /\ pc \in [Tasks -> {"idle", "acquire", "fill", "again", "release", "return",
                           "rmAcquire", "shift"}]
      /\ idx \in [Tasks -> Cells \cup {NULL}]
      /\ cnt \in 0..Cap /\ table \in [Cells -> Entry]
      /\ MaxCmds \in Nat /\ Cap \in Nat /\ j \in 0..Cap
  BY Bounds, Zenon DEF Safe, TypeOK, TaskType, ProgType, CliType
<1>2. \A c \in Stored(cnt) : c \in Cells
  BY <1>1 DEF Stored, Cells
<1>3. ASSUME /\ UNCHANGED <<cnt, table, tidy, gone, raced>>
             /\ \A t \in Tasks : \A s \in {"again", "release", "shift"} : pc'[t] = s <=> pc[t] = s
             /\ UNCHANGED <<cpc, j>> \/ (~Helping /\ ~Helping')
      PROVE HintInv'
  <2>1. /\ \A t \in Tasks : /\ pc'[t] \in {"again", "release"} <=> pc[t] \in {"again", "release"}
                            /\ pc'[t] = "shift" <=> pc[t] = "shift"
        /\ \A n : Hinted(n)' <=> (\A c \in Stored(cnt) : c < n => table[c].hint # NULL)
    BY <1>3 DEF Hinted
  <2>2. QED
    BY <1>3, <2>1 DEF HintInv, Helping, Hinted
<1>4. ASSUME NEW t \in Tasks, NEW name \in Names, Register(t, name) PROVE HintInv'
  <2>1. \A u \in Tasks : \A s \in {"again", "release", "shift"} : pc'[u] = s <=> pc[u] = s
    BY <1>1, <1>4 DEF Register, Step
  <2>2. UNCHANGED <<cnt, table, tidy, gone, raced, cpc, j>>
    BY <1>4, Zenon DEF Register, progVars, cliVars
  <2>3. QED
    BY <1>3, <2>1, <2>2
<1>5. ASSUME NEW t \in Tasks, RegAcquire(t) \/ RegReturn(t) \/ Remove(t) \/ RmInvalid(t)
      PROVE HintInv'
  <2>1. \A u \in Tasks : \A s \in {"again", "release", "shift"} : pc'[u] = s <=> pc[u] = s
    BY <1>1, <1>5 DEF RegAcquire, RegReturn, Remove, RmInvalid, Iterate, Step
  <2>2. UNCHANGED <<cnt, table, tidy, gone, raced, cpc, j>>
    BY <1>5, Zenon DEF RegAcquire, RegReturn, Remove, RmInvalid, progVars, cliVars
  <2>3. QED
    BY <1>3, <2>1, <2>2
<1>6. ASSUME NEW t \in Tasks, RegFill(t) PROVE HintInv'
  <2>1. pc'[t] \in {"again", "release"} /\ \A u \in Tasks \ {t} : pc'[u] = pc[u]
    BY <1>1, <1>6 DEF RegFill, Step
  <2>2. raced' = (raced \/ Helping) /\ UNCHANGED <<cpc, gone>>
    BY <1>6, Zenon DEF RegFill, cliVars
  <2>3. /\ table'[cnt].hint = NULL /\ \A c \in Stored(cnt) : table'[c] = table[c]
        /\ Stored(cnt') = Stored(cnt) \cup {cnt}
    BY <1>1, <1>2, <1>6 DEF RegFill, Stored
  <2>4. gone = {} => \A c \in Stored(cnt') : table'[c].hint \in {NULL, c}
    BY <2>3 DEF HintInv
  <2>5. gone = {} => \A u \in Tasks : pc'[u] # "shift"
    BY <2>1 DEF HintInv
  <2>6. QED
    BY <2>1, <2>2, <2>4, <2>5 DEF HintInv, Helping
<1>7. ASSUME NEW t \in Tasks, RegRelease(t) PROVE HintInv'
  <2>1. pc[t] = "release" /\ pc'[t] = "return" /\ \A u \in Tasks \ {t} : pc'[u] = pc[u]
    BY <1>1, <1>7 DEF RegRelease, Step
  <2>2. UNCHANGED <<cpc, gone, raced, table, cnt>> /\ tidy' = FALSE
    BY <1>7, Zenon DEF RegRelease, cliVars
  <2>3. QED
    BY <2>1, <2>2 DEF HintInv, Helping
<1>8. ASSUME NEW t \in Tasks, RmAcquire(t) PROVE HintInv'
  <2>1. /\ pc'[t] = "shift" /\ pc[t] = "rmAcquire"
        /\ \A u \in Tasks \ {t} : pc'[u] = pc[u]
    BY <1>1, <1>8 DEF RmAcquire, Step
  <2>2. /\ raced' = (raced \/ Helping) /\ UNCHANGED <<cpc, tidy, table, cnt>> /\ gone' # {}
    BY <1>8, Zenon DEF RmAcquire, cliVars
  <2>3. Hinted(cnt)' <=> Hinted(cnt)
    BY <2>2 DEF Hinted
  <2>4. (\A u \in Tasks : pc'[u] \notin {"again", "release"}) =>
            \A u \in Tasks : pc[u] \notin {"again", "release"}
    BY <2>1
  <2>5. QED
    BY <2>2, <2>3, <2>4 DEF HintInv, Helping
<1>9. ASSUME NEW t \in Tasks, RmShift(t) \/ RmRelease(t) PROVE HintInv'
  <2>1. /\ pc[t] = "shift" /\ pc'[t] \in {"shift", "rmAcquire", "idle"}
        /\ \A u \in Tasks \ {t} : pc'[u] = pc[u]
    BY <1>1, <1>9 DEF RmShift, RmRelease, Iterate, Step
  <2>2. UNCHANGED <<cpc, gone, raced, tidy>>
    BY <1>9, Zenon DEF RmShift, RmRelease, cliVars
  <2>3. gone # {} /\ (~raced => ~Helping)
    BY <2>1 DEF HintInv
  <2>4. Hinted(cnt) => Hinted(cnt)'
    <3>1. CASE RmShift(t)
      <4>1. idx[t] \in Cells /\ idx[t] + 1 \in Stored(cnt) /\ cnt' = cnt
        BY <1>1, <3>1 DEF RmShift, Step, Safe, IdxInv, Cells, Stored
      <4>2. \A c \in Stored(cnt) : table'[c] = table[c] \/ table'[c] = table[idx[t] + 1]
        BY <1>1, <1>2, <4>1, <3>1 DEF RmShift
      <4>3. QED
        BY <4>1, <4>2, <1>1 DEF Hinted, Stored
    <3>2. CASE RmRelease(t)
      BY <1>1, <3>2 DEF RmRelease, Hinted, Stored
    <3>3. QED
      BY <1>9, <3>1, <3>2, Zenon
  <2>5. (\A u \in Tasks : pc'[u] \notin {"again", "release"}) =>
            \A u \in Tasks : pc[u] \notin {"again", "release"}
    BY <2>1
  <2>6. QED
    BY <2>2, <2>3, <2>4, <2>5 DEF HintInv, Helping
<1>10. ASSUME NEW name \in Typed \cup {Question}, Type(name) PROVE HintInv'
  BY <1>3, <1>10 DEF Type, CliStep, taskVars, Helping
<1>11. CASE LookUp \/ Scan \/ Call \/ Done
  <2>1. /\ UNCHANGED <<cnt, table, tidy, gone, raced, pc>>
        /\ cpc \in {"tokens", "scan", "call", "done"} /\ cpc' \in {"scan", "call", "done", "idle"}
    BY <1>11, Zenon DEF LookUp, Scan, Call, Done, CliStep, progVars, taskVars
  <2>2. ~Helping /\ ~Helping'
    BY <2>1 DEF Helping
  <2>3. QED
    BY <1>3, <2>1, <2>2, Zenon
<1>12. CASE Help
  <2>1. UNCHANGED <<cnt, table, tidy, gone, pc>> /\ cpc' = (IF tidy THEN "print" ELSE "tidyUp")
    BY <1>12, Zenon DEF Help, CliStep, progVars, taskVars
  <2>2. /\ raced' = (raced \/ \E t \in Tasks : pc[t] \in {"again", "release", "shift"})
        /\ j' = 0
    BY <1>12, Zenon DEF Help
  <2>3. (Hinted(cnt)' <=> Hinted(cnt)) /\ Hinted(j)'
    BY <1>1, <2>1, <2>2 DEF Hinted, Stored
  <2>4. ~raced' => ~raced /\ \A t \in Tasks : pc'[t] \notin {"again", "release", "shift"}
    BY <2>1, <2>2, Zenon
  <2>5. gone' = {} => /\ \A t \in Tasks : pc'[t] # "shift"
                      /\ \A c \in Stored(cnt)' : table'[c].hint \in {NULL, c}
    BY <2>1, Zenon DEF HintInv
  <2>6. ASSUME ~raced' PROVE tidy => Hinted(cnt)'
    <3>1. \A t \in Tasks : pc[t] \notin {"again", "release"}
      BY <2>1, <2>4, <2>6
    <3>2. QED
      BY <2>3, <2>4, <2>6, <3>1, Zenon DEF HintInv
  <2>7. cpc' = "print" => tidy
    BY <2>1
  <2>8. QED
    BY <2>1, <2>3, <2>4, <2>5, <2>6, <2>7, Zenon DEF HintInv
<1>13. CASE TidyUp
  <2>1. /\ UNCHANGED <<cnt, gone, pc, raced>> /\ cpc = "tidyUp"
        /\ cpc' = (IF j < cnt THEN "tidyUp" ELSE "print")
    BY <1>13, Zenon DEF TidyUp, CliStep, taskVars
  <2>2. ~raced => \A t \in Tasks : pc[t] \notin {"again", "release", "shift"}
    BY <2>1 DEF HintInv, Helping
  <2>3. ~raced => Hinted(j)
    BY <2>1, Zenon DEF HintInv
  <2>4. CASE j < cnt
    <3>1. j \in Cells /\ cpc' = "tidyUp" /\ j' = j + 1 /\ tidy' = tidy
      BY <1>1, <1>13, <2>1, <2>4 DEF TidyUp, Cells
    <3>2. table' = [table EXCEPT ![j].hint = IF @ = NULL THEN j ELSE @]
      BY <1>13, <2>4, Zenon DEF TidyUp
    <3>3. /\ table'[j].hint = IF table[j].hint = NULL THEN j ELSE table[j].hint
          /\ \A c \in Cells \ {j} : table'[c] = table[c]
      BY <1>1, <3>1, <3>2 DEF Entry
    <3>4. j # NULL
      BY <3>1 DEF Cells, NULL
    <3>5. /\ Hinted(cnt) => Hinted(cnt)'
          /\ Hinted(j) => Hinted(j)'
      BY <1>1, <1>2, <2>1, <3>1, <3>3, <3>4 DEF Hinted, Stored
    <3>6. gone = {} => \A c \in Stored(cnt') : table'[c].hint \in {NULL, c}
      BY <1>2, <2>1, <3>3 DEF HintInv
    <3>7. gone = {} => \A t \in Tasks : pc'[t] # "shift"
      BY <2>1, Zenon DEF HintInv
    <3>8. ~raced' /\ tidy' => Hinted(cnt)'
      BY <2>1, <2>2, <3>1, <3>5 DEF HintInv
    <3>9. QED
      BY <2>1, <2>2, <2>3, <3>1, <3>5, <3>6, <3>7, <3>8 DEF HintInv
  <2>5. CASE j >= cnt
    <3>1. cpc' = "print" /\ table' = table
      BY <1>1, <1>13, <2>1, <2>5 DEF TidyUp
    <3>2. Hinted(j) => Hinted(cnt)'
      BY <1>1, <2>1, <2>5, <3>1 DEF Hinted, Stored
    <3>3. gone = {} => /\ \A t \in Tasks : pc'[t] # "shift"
                       /\ \A c \in Stored(cnt)' : table'[c].hint \in {NULL, c}
      BY <2>1, <3>1, Zenon DEF HintInv
    <3>4. QED
      BY <2>1, <2>2, <2>3, <3>1, <3>2, <3>3 DEF HintInv
  <2>6. QED
    BY <1>1, <2>4, <2>5
<1>14. CASE PrintHelp
  <2>1. /\ UNCHANGED <<cnt, table, tidy, gone, pc, raced>>
        /\ cpc = "print" /\ cpc' \in {"print", "idle"}
    BY <1>14, Zenon DEF PrintHelp, CliStep, progVars, taskVars
  <2>2. Hinted(cnt)' <=> Hinted(cnt)
    BY <2>1 DEF Hinted
  <2>3. QED
    BY <2>1, <2>2 DEF HintInv, Helping
<1>15. CASE UNCHANGED Base
  <2>1. UNCHANGED <<cnt, table, tidy, gone, raced, cpc, j, pc>>
    BY <1>15, Zenon DEF Base, progVars, taskVars, cliVars
  <2>2. QED
    BY <1>3, <2>1
<1>16. QED
  BY <1>4, <1>5, <1>6, <1>7, <1>8, <1>9, <1>10, <1>11, <1>12, <1>13, <1>14, <1>15, StepCases, Zenon
     DEF Within, TaskNext, CliNext

\* The help prints no entry whose hint has not been looked for, and, until
\* something is removed, the hint of that entry; unless the table changes
\* meanwhile.
THEOREM HelpIsTidy == Spec => []HelpTidy
<1>1. Init => HintInv
  BY DEF Init, HintInv, Stored
<1>2. Safe /\ HintInv => HelpTidy
  <2>1. ASSUME Safe, HintInv, cpc = "print", j < cnt, ~raced
        PROVE  table[j].hint # NULL /\ (gone = {} => table[j].hint = j)
    <3>1. j \in Stored(cnt)
      BY <2>1 DEF Safe, TypeOK, ProgType, CliType, Stored
    <3>2. QED
      BY <2>1, <3>1 DEF HintInv, Hinted
  <2>2. QED
    BY <2>1, Zenon DEF HelpTidy
<1>3. QED
  BY SafeInit, SafeKept, HintKept, <1>1, <1>2, PTL DEF Spec
=============================================================================
