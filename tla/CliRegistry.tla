------------------------------ MODULE CliRegistry ------------------------------
(***************************************************************************)
(* The command table of the CLI (cliutils/cli.c): tasks register and remove *)
(* commands under modifyMtx; the CLI task looks typed commands up, and      *)
(* prints the help, without it. All of them have the same priority and      *)
(* preempt each other.                                                      *)
(***************************************************************************)
EXTENDS Integers, Sequences, FiniteSets

CONSTANTS Tasks,        \* the tasks that register and remove: start-up, flexPTP
          Names, Typed, \* command names (the tokens); those the user types
          Cap,          \* CLI_MAX_CMD_CNT
          MaxCmds       \* bound: calls of cli_register_command not refused at once

ASSUME RegistryAssumption == /\ Cap \in Nat \ {0} /\ MaxCmds \in Nat \ {0}
                             /\ Typed \subseteq Names

Cmds == 1..MaxCmds      \* a command is its number in the order of the calls
Cells == 0..Cap - 1     \* the indices of spCliCmds[]
NULL == -1
NoName == "none"
Question == "?"         \* what is typed to get the help
Strings == Names \cup {NoName, Question}

VARIABLES
    table, cnt, tidy,   \* spCliCmds, sCliCmdCnt, sCmdsTidy
    line,               \* static pLineCpy of tokenize_cli_line
    owner,              \* modifyMtx: the task that has it, if any
    pc, cmd, idx, hnd,  \* per task: step, command being registered, index, handles
    cpc, typed, want, j, called,    \* the CLI: step, name typed, tokens, index, result
    named,      \* the names commands are registered under
    filled,     \* history: commands entered
    gone,       \* history: commands taken out
    crowded,    \* history: a task passed the check for room while another was past it
    overrun,    \* history: an entry was written behind spCliCmds[]; nothing follows
    leaked,     \* history: the tasks that have left a call without releasing the mutex
    overtaken,  \* history: a command was entered while another task was about to return
    raced,      \* history: the table changed while the help was printed
    due, quiet  \* history: cnt as a look-up began; nothing removed since

progVars == <<table, cnt, tidy, line, owner>>
taskVars == <<pc, cmd, idx, hnd, named, filled, gone, crowded, leaked, overtaken>>
cliVars == <<cpc, typed, want, j, called, due>>
vars == <<progVars, taskVars, cliVars, raced, quiet, overrun>>

\* An entry: its command (callback and help line), its tokens, and the slot
\* whose help line pHint points into.
Entry == [cmd : 0..MaxCmds, tok : Strings, hint : Cells \cup {NULL}]

\* A handle: the index returned, and (history) the command it was returned for.
Handle == [at : Cells \cup {NULL}, of : 0..MaxCmds]

Init ==
    /\ table = [c \in Cells |-> [cmd |-> 0, tok |-> NoName, hint |-> NULL]]
    /\ cnt = 0 /\ tidy = FALSE /\ line = NoName /\ owner = {}
    /\ pc = [t \in Tasks |-> "idle"] /\ cmd = [t \in Tasks |-> 0]
    /\ idx = [t \in Tasks |-> NULL] /\ hnd = [t \in Tasks |-> <<>>]
    /\ cpc = "idle" /\ typed = NoName /\ want = NoName /\ j = 0 /\ called = 0
    /\ named = <<>> /\ filled = {} /\ gone = {} /\ due = 0 /\ quiet = TRUE
    /\ crowded = FALSE /\ leaked = {} /\ overtaken = FALSE /\ raced = FALSE
    /\ overrun = FALSE

-----------------------------------------------------------------------------
(* cli_register_command *)

Step(t, from, to) == pc[t] = from /\ pc' = [pc EXCEPT ![t] = to]

\* Past the check for room and not yet entered.
Entering(t) == pc[t] \in {"acquire", "fill"}

\* Another task is about to compute the handle it returns.
Returning(t) == \E u \in Tasks \ {t} : pc[u] = "return"

\* Fault: a command more than there is room for.
FullLate == cnt > Cap

Full == cnt = Cap
LookingUp == {"scan", "call", "done"}
Helping == cpc \in {"tidyUp", "print"}

\* The check is made before the mutex is taken. With a full table the call
\* returns -1 and nothing changes.
Register(t, name) ==
    /\ Step(t, "idle", "acquire") /\ ~Full /\ Len(named) < MaxCmds
    /\ named' = Append(named, name)
    /\ cmd' = [cmd EXCEPT ![t] = Len(named) + 1]
    /\ crowded' = (crowded \/ \E u \in Tasks : Entering(u))
    /\ UNCHANGED <<progVars, idx, hnd, filled, gone, leaked, overtaken, cliVars, raced, quiet>>

\* Fault: the mutex is not waited for.
RegAcquireNot(t) ==
    /\ Step(t, "acquire", "fill")
    /\ owner' = {t}
    /\ line' = named[cmd[t]]
    /\ UNCHANGED <<table, cnt, tidy, cmd, idx, hnd, named, filled, gone, crowded, leaked, overtaken,
                   cliVars, raced, quiet>>

\* With the mutex taken, the line is copied to a static buffer ...
RegAcquire(t) ==
    /\ Step(t, "acquire", "fill")
    /\ owner = {} /\ owner' = {t}
    /\ line' = named[cmd[t]]
    /\ UNCHANGED <<table, cnt, tidy, cmd, idx, hnd, named, filled, gone, crowded, leaked, overtaken,
                   cliVars, raced, quiet>>

Duplicate(name) == \E k \in 0..cnt - 1 : table[k].tok = name

\* Fault: the entries before it are not compared.
RegFillOnly(t) ==
    /\ Step(t, "fill", "release") /\ cnt \in Cells
    /\ table' = [table EXCEPT ![cnt] = [cmd |-> cmd[t], tok |-> line, hint |-> NULL]]
    /\ cnt' = cnt + 1
    /\ filled' = filled \cup {cmd[t]}
    /\ overtaken' = (overtaken \/ Returning(t))
    /\ raced' = (raced \/ Helping)
    /\ UNCHANGED <<tidy, line, owner, cmd, idx, hnd, named, gone, crowded, leaked, cliVars, quiet>>

\* ... and its tokens taken from there. To "clean up if the same command
\* registered before" the task calls cli_remove_command with the mutex taken,
\* which is not recursive: in "again" it waits for itself.
RegFill(t) ==
    /\ Step(t, "fill", IF Duplicate(line) THEN "again" ELSE "release") /\ cnt \in Cells
    /\ table' = [table EXCEPT ![cnt] = [cmd |-> cmd[t], tok |-> line, hint |-> NULL]]
    /\ cnt' = cnt + 1
    /\ filled' = filled \cup {cmd[t]}
    /\ overtaken' = (overtaken \/ Returning(t))
    /\ raced' = (raced \/ Helping)
    /\ UNCHANGED <<tidy, line, owner, cmd, idx, hnd, named, gone, crowded, leaked, cliVars, quiet>>

\* The entry is written where there is none, since the room was checked before.
Overflow(t) ==
    /\ pc[t] = "fill" /\ cnt \notin Cells
    /\ overrun' = TRUE
    /\ UNCHANGED <<progVars, taskVars, cliVars, raced, quiet>>

\* Fault: the table is not marked untidy.
RegReleaseTidy(t) ==
    /\ Step(t, "release", "return")
    /\ tidy' = tidy /\ owner' = {}
    /\ UNCHANGED <<table, cnt, line, cmd, idx, hnd, named, filled, gone, crowded, leaked, overtaken,
                   cliVars, raced, quiet>>

RegRelease(t) ==
    /\ Step(t, "release", "return")
    /\ tidy' = FALSE /\ owner' = {}
    /\ UNCHANGED <<table, cnt, line, cmd, idx, hnd, named, filled, gone, crowded, leaked, overtaken,
                   cliVars, raced, quiet>>

\* Fault: the handle is the number of commands.
RegReturnCount(t) ==
    /\ Step(t, "return", "idle")
    /\ hnd' = [hnd EXCEPT ![t] = Append(@, [at |-> cnt, of |-> cmd[t]])]
    /\ cmd' = [cmd EXCEPT ![t] = 0]
    /\ UNCHANGED <<progVars, idx, named, filled, gone, crowded, leaked, overtaken, cliVars,
                   raced, quiet>>

\* The handle is computed when the mutex has been released.
RegReturn(t) ==
    /\ Step(t, "return", "idle")
    /\ hnd' = [hnd EXCEPT ![t] = Append(@, [at |-> cnt - 1, of |-> cmd[t]])]
    /\ cmd' = [cmd EXCEPT ![t] = 0]
    /\ UNCHANGED <<progVars, idx, named, filled, gone, crowded, leaked, overtaken, cliVars,
                   raced, quiet>>

-----------------------------------------------------------------------------
(* cli_remove_command_array, with the handles got at registration, and its   *)
(* calls of cli_remove_command                                               *)

\* The array ends, and so does its removal, at the first -1.
Left(h) == h # <<>> /\ Head(h).at # NULL

\* Back from cli_remove_command, with what is left of the array.
Iterate(t, from, rest) ==
    /\ Step(t, from, IF Left(rest) THEN "rmAcquire" ELSE "idle")
    /\ hnd' = [hnd EXCEPT ![t] = IF Left(rest) THEN rest ELSE <<>>]

Remove(t) ==
    /\ hnd[t] # <<>> /\ Iterate(t, "idle", hnd[t])
    /\ UNCHANGED <<progVars, cmd, idx, named, filled, gone, crowded, leaked, overtaken, cliVars,
                   raced, quiet>>

\* An index out of range: the mutex is taken and not released.
RmInvalid(t) ==
    /\ Iterate(t, "rmAcquire", Tail(hnd[t]))
    /\ owner = {} /\ owner' = {t}
    /\ Head(hnd[t]).at + 1 > cnt
    /\ leaked' = leaked \cup {t}
    /\ UNCHANGED <<table, cnt, tidy, line, cmd, idx, named, filled, gone, crowded, overtaken,
                   cliVars, raced, quiet>>

RmAcquire(t) ==
    /\ Step(t, "rmAcquire", "shift")
    /\ owner = {} /\ owner' = {t}
    /\ Head(hnd[t]).at \in 0..cnt - 1
    /\ idx' = [idx EXCEPT ![t] = Head(hnd[t]).at]
    /\ hnd' = [hnd EXCEPT ![t] = Tail(@)]
    /\ gone' = gone \cup {table[idx'[t]].cmd}
    /\ quiet' = (cpc \notin LookingUp) /\ raced' = (raced \/ Helping)
    /\ UNCHANGED <<table, cnt, tidy, line, cmd, named, filled, crowded, leaked, overtaken,
                   cliVars>>

\* Fault: the entries are copied the other way.
RmShiftUp(t) ==
    /\ Step(t, "shift", "shift") /\ idx[t] < cnt - 1
    /\ table' = [table EXCEPT ![idx[t] + 1] = table[idx[t]]]
    /\ idx' = [idx EXCEPT ![t] = @ + 1]
    /\ quiet' = (cpc \notin LookingUp)
    /\ UNCHANGED <<cnt, tidy, line, owner, cmd, hnd, named, filled, gone, crowded, leaked,
                   overtaken, cliVars, raced>>

\* memcpy moves pHint as it is.
RmShift(t) ==
    /\ Step(t, "shift", "shift") /\ idx[t] < cnt - 1
    /\ table' = [table EXCEPT ![idx[t]] = table[idx[t] + 1]]
    /\ idx' = [idx EXCEPT ![t] = @ + 1]
    /\ quiet' = (cpc \notin LookingUp)
    /\ UNCHANGED <<cnt, tidy, line, owner, cmd, hnd, named, filled, gone, crowded, leaked,
                   overtaken, cliVars, raced>>

\* Fault: the mutex is not released.
RmReleaseNot(t) ==
    /\ Iterate(t, "shift", hnd[t]) /\ idx[t] >= cnt - 1
    /\ cnt' = cnt - 1 /\ owner' = owner /\ quiet' = (cpc \notin LookingUp)
    /\ idx' = [idx EXCEPT ![t] = NULL]
    /\ UNCHANGED <<table, tidy, line, cmd, named, filled, gone, crowded, leaked, overtaken,
                   cliVars, raced>>

RmRelease(t) ==
    /\ Iterate(t, "shift", hnd[t]) /\ idx[t] >= cnt - 1
    /\ cnt' = cnt - 1 /\ owner' = {} /\ quiet' = (cpc \notin LookingUp)
    /\ idx' = [idx EXCEPT ![t] = NULL]
    /\ UNCHANGED <<table, tidy, line, cmd, named, filled, gone, crowded, leaked, overtaken,
                   cliVars, raced>>

-----------------------------------------------------------------------------
(* The CLI task: process_cli_line. It does not take the mutex.               *)

CliStep(from, to) == cpc = from /\ cpc' = to /\ UNCHANGED taskVars

\* The line typed is copied to the static buffer ...
Type(name) ==
    /\ CliStep("idle", "tokens")
    /\ typed' = name /\ line' = name
    /\ UNCHANGED <<table, cnt, tidy, owner, want, j, called, due, raced, quiet>>

\* ... and its tokens taken from there, to be looked up ...
LookUp ==
    /\ CliStep("tokens", "scan") /\ line # Question
    /\ want' = line /\ j' = 0 /\ due' = cnt /\ quiet' = TRUE
    /\ UNCHANGED <<progVars, typed, called, raced>>

\* ... unless they ask for the help.
Help ==
    /\ CliStep("tokens", IF tidy THEN "print" ELSE "tidyUp") /\ line = Question
    /\ j' = 0
    /\ raced' = (raced \/ \E t \in Tasks : pc[t] \in {"again", "release", "shift"})
    /\ UNCHANGED <<progVars, typed, want, called, due, quiet>>

\* Fault: the last command is not looked at.
ScanEarly ==
    /\ CliStep("scan", IF j >= cnt - 1 THEN "done"
                       ELSE IF table[j].tok = want THEN "call" ELSE "scan")
    /\ j' = IF cpc' = "scan" THEN j + 1 ELSE j
    /\ UNCHANGED <<progVars, typed, want, called, due, raced, quiet>>

Scan ==
    /\ CliStep("scan", IF j >= cnt THEN "done"
                       ELSE IF table[j].tok = want THEN "call" ELSE "scan")
    /\ j' = IF cpc' = "scan" THEN j + 1 ELSE j
    /\ UNCHANGED <<progVars, typed, want, called, due, raced, quiet>>

\* The callback is that of the entry at the index found before.
Call ==
    /\ CliStep("call", "done")
    /\ called' = table[j].cmd
    /\ UNCHANGED <<progVars, typed, want, j, due, raced, quiet>>

Done ==
    /\ CliStep("done", "idle")
    /\ typed' = NoName /\ want' = NoName /\ j' = 0 /\ called' = 0 /\ due' = 0 /\ quiet' = TRUE
    /\ UNCHANGED <<progVars, raced>>

\* tidy_format_commands: the hint of each new entry is found in its help line.
TidyUp ==
    /\ CliStep("tidyUp", IF j < cnt THEN "tidyUp" ELSE "print")
    /\ IF j < cnt
       THEN /\ table' = [table EXCEPT ![j].hint = IF @ = NULL THEN j ELSE @]
            /\ j' = j + 1 /\ tidy' = tidy
       ELSE table' = table /\ j' = 0 /\ tidy' = TRUE
    /\ UNCHANGED <<cnt, line, owner, typed, want, called, due, raced, quiet>>

PrintHelp ==
    /\ CliStep("print", IF j < cnt THEN "print" ELSE "idle")
    /\ IF j < cnt THEN j' = j + 1 /\ typed' = typed ELSE j' = 0 /\ typed' = NoName
    /\ UNCHANGED <<progVars, want, called, due, raced, quiet>>

-----------------------------------------------------------------------------
(* Specification *)

\* A task inside a call.
TaskNext(t) ==
    \/ RegAcquire(t) \/ RegFill(t) \/ RegRelease(t) \/ RegReturn(t)
    \/ RmInvalid(t) \/ RmAcquire(t) \/ RmShift(t) \/ RmRelease(t)

CliNext == LookUp \/ Scan \/ Call \/ Done \/ Help \/ TidyUp \/ PrintHelp

Within ==
    \/ \E t \in Tasks, name \in Names : Register(t, name)
    \/ \E t \in Tasks : Remove(t) \/ TaskNext(t)
    \/ \E name \in Typed \cup {Question} : Type(name)
    \/ CliNext

Next == ~overrun /\ ((Within /\ UNCHANGED overrun) \/ \E t \in Tasks : Overflow(t))

Spec == Init /\ [][Next]_vars

\* The scheduler runs every task that is ready: time is sliced between equals.
FairSpec ==
    Spec /\ \A t \in Tasks : WF_vars(~overrun /\ TaskNext(t) /\ UNCHANGED overrun)

-----------------------------------------------------------------------------
(* Properties *)

ProgType ==
    /\ table \in [Cells -> Entry] /\ cnt \in 0..Cap /\ tidy \in BOOLEAN
    /\ line \in Strings /\ owner \subseteq Tasks

TaskType ==
    /\ pc \in [Tasks -> {"idle", "acquire", "fill", "again", "release", "return",
                         "rmAcquire", "shift"}]
    /\ cmd \in [Tasks -> 0..MaxCmds] /\ idx \in [Tasks -> Cells \cup {NULL}]
    /\ hnd \in [Tasks -> Seq(Handle)]
    /\ named \in Seq(Names) /\ Len(named) <= MaxCmds
    /\ filled \subseteq Cmds /\ gone \subseteq Cmds

CliType ==
    /\ cpc \in {"idle", "tokens", "scan", "call", "done", "tidyUp", "print"}
    /\ typed \in Strings /\ want \in Strings
    /\ j \in 0..Cap /\ called \in 0..MaxCmds /\ due \in 0..Cap

HistoryType ==
    /\ crowded \in BOOLEAN /\ leaked \subseteq Tasks /\ overtaken \in BOOLEAN
    /\ raced \in BOOLEAN /\ quiet \in BOOLEAN /\ overrun \in BOOLEAN

\* Every variable has its type; every index is one of spCliCmds[].
TypeOK == ProgType /\ TaskType /\ CliType /\ HistoryType

\* No command is written behind spCliCmds[], unless two tasks have passed the
\* check for room together.
WithinTable == overrun => crowded

\* Inside a critical section, and in one for good.
Inside(t) == pc[t] \in {"fill", "release", "shift"}
Stuck(t) == pc[t] = "again"

\* The table is written by one task at a time, that which has the mutex; and
\* whoever has it is in a critical section and will give it back, or has left
\* with it because of an invalid index, or waits for itself because its command
\* had been registered before.
MutexRight ==
    \A t \in Tasks : /\ Inside(t) \/ Stuck(t) => owner = {t}
                     /\ t \in owner => Inside(t) \/ Stuck(t) \/ t \in leaked

Shifting == \E t \in Tasks : pc[t] = "shift"
Stored(n) == 0..n - 1

\* Whatever the tasks do at once, the table holds the commands registered and
\* not removed, each in one entry.
TableExact ==
    ~Shifting =>
        /\ {table[c].cmd : c \in Stored(cnt)} = filled \ gone
        /\ \A c, d \in Stored(cnt) : table[c].cmd = table[d].cmd => c = d

Once == \A c, d \in Stored(cnt) : table[c].tok = table[d].tok => c = d

\* No two entries have the same tokens, unless the task that has entered the
\* second is stuck: whatever the static buffer held for a registration.
NamesOnce == ~Shifting => Once \/ \E t \in Tasks : Stuck(t)

\* The table: the three above, for any interleaving of the registering tasks.
TableRight == WithinTable /\ TableExact /\ NamesOnce

\* Every handle a task got is the index of the command it registered, as long
\* as nothing is removed and no task has entered a command between the release
\* of the mutex and the computation of another's handle.
HandleRight ==
    gone = {} /\ ~overtaken =>
        \A t \in Tasks : \A k \in 1..Len(hnd[t]) :
            hnd[t][k].at \in Stored(cnt) /\ table[hnd[t][k].at].cmd = hnd[t][k].of

\* The tokens somebody took from the static buffer were those of another line.
MixedUp == want # typed \/ \E c \in Stored(cnt) : table[c].tok # named[table[c].cmd]

\* A look-up, during which nothing is removed, calls a command of the name
\* typed; it calls none only if there was none. Both only if no tokens have been
\* mixed up.
LookupRight ==
    cpc = "done" /\ quiet /\ ~MixedUp =>
        IF called # 0 THEN named[called] = typed
                      ELSE \A c \in Stored(due) : named[table[c].cmd] # typed

\* The help prints no entry whose hint has not been looked for, and the hint of
\* that entry until something is removed; unless the table has
\* changed meanwhile.
HelpTidy ==
    cpc = "print" /\ j < cnt /\ ~raced =>
        table[j].hint # NULL /\ (gone = {} => table[j].hint = j)

\* "limit on number of separate commands": no command is written behind the table.
LimitKept == ~overrun

\* "clean up if the same command registered before": a command that is twice in
\* the table is not left there.
DuplicatesGo == ~Once ~> Once

\* "removes bunch of commands, terminated by -1": those whose handles are given.
RemovedAsGiven ==
    [][\A t \in Tasks : RmAcquire(t) => table[Head(hnd[t]).at].cmd = Head(hnd[t]).of]_vars

\* "release mutex": no task that is in no call has it.
Released == \A t \in Tasks : pc[t] = "idle" => t \notin owner

\* "mutex protecting the command database": a command called has the name typed.
CalledAsTyped == cpc = "done" /\ called # 0 => named[called] = typed
=============================================================================
