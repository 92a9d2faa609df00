-------------------------- MODULE LinkMonitorProofs --------------------------
(***************************************************************************)
(* Proofs about LinkMonitor, for any modes, any changes of the cable and    *)
(* any number of triggers: types in both builds, and what the stack is told *)
(* in the build with one thread.                                            *)
(***************************************************************************)
EXTENDS LinkMonitor, TLAPS

(***************************************************************************)
(* Types                                                                    *)
(***************************************************************************)

WordType ==
    /\ agreed \in Modes /\ mac \in Modes
    /\ addr \in Regs /\ data \in Words
    /\ pc \in [Threads -> PCs] /\ reg \in [Threads -> Regs] /\ val \in [Threads -> Words]
    /\ \A t \in Threads : pc[t] = "store" => val[t].of = reg[t]
    /\ told \in {"nothing", "up", "down"}
    /\ changes \in 0..MaxChanges /\ triggers \in 0..MaxTriggers

BitType == up \in BOOLEAN /\ low \in BOOLEAN /\ mb \in BOOLEAN

StateType ==
    /\ status \in [up : BOOLEAN, mode : Modes]
    /\ link \in [init : BOOLEAN, up : BOOLEAN, mode : Modes]

LEMMA WordsHold ==
    ASSUME NEW w \in Words
    PROVE  w.of \in Regs /\ (w.of = "SCSR" => w.is \in Modes) /\ (w.of = "BSR" => w.is \in BOOLEAN)
  BY DEF Words, Regs

LEMMA TypeParts == TypeOK <=> stack \in Stacks /\ WordType /\ BitType /\ StateType
  BY Zenon DEF TypeOK, WordType, BitType, StateType

LEMMA TypePartsNext ==
    stack' \in Stacks /\ WordType' /\ BitType' /\ StateType' => TypeOK'
  BY Zenon DEF TypeOK, WordType, BitType, StateType

LEMMA TypeInit == Init => TypeOK
<1> SUFFICES ASSUME Init PROVE TypeOK
  OBVIOUS
<1>1. data \in Words
  BY DEF Init, Decoded
<1>2. WordType
  BY <1>1, BoundAssumption DEF Init, WordType, Threads, Regs, PCs
<1>3. BitType
  BY Zenon DEF Init, BitType
<1>4. StateType
  <2>1. mac \in Modes
    BY DEF Init
  <2>2. QED
    BY <2>1 DEF Init, StateType
<1>5. QED
  BY <1>2, <1>3, <1>4, TypeParts DEF Init

LEMMA TypeKept == TypeOK /\ [Next]_vars => TypeOK'
<1> SUFFICES ASSUME TypeOK, [Next]_vars PROVE TypeOK'
  OBVIOUS
<1>0. stack \in Stacks /\ WordType /\ BitType /\ StateType
  BY TypeParts
<1> USE <1>0
<1>1. CASE Lose
  <2>1. WordType' /\ StateType' /\ UNCHANGED <<stack, mb>>
    BY <1>1, BoundAssumption DEF Lose, mdioVars, taskVars, linkVars, WordType, StateType
  <2>2. BitType'
    BY <1>1, <2>1, Zenon DEF Lose, BitType
  <2>3. QED
    BY <2>1, <2>2, TypePartsNext
<1>2. ASSUME NEW m \in Modes, Negotiate(m) PROVE TypeOK'
  BY <1>2, BoundAssumption DEF TypeOK, Negotiate, mdioVars, taskVars, linkVars
<1>3. CASE Rise
  <2>1. WordType' /\ StateType' /\ UNCHANGED <<stack, mb, low>>
    BY <1>3 DEF Rise, mdioVars, taskVars, linkVars, WordType, StateType
  <2>2. BitType'
    BY <1>3, <2>1, Zenon DEF Rise, BitType
  <2>3. QED
    BY <2>1, <2>2, TypePartsNext
<1>4. CASE MdioDone
  <2>1. UNCHANGED <<stack, up, agreed, addr, taskVars, linkVars, changes, triggers>> /\ mb' = FALSE
    BY <1>4, Zenon DEF MdioDone
  <2>2. CASE addr = "SCSR"
    <3>1. data' \in Words /\ low' = low
      BY <1>4, <2>2 DEF MdioDone, Words, WordType
    <3>2. WordType' /\ StateType'
      BY <2>1, <3>1 DEF WordType, StateType, taskVars, linkVars
    <3>3. BitType'
      BY <2>1, <3>1, Zenon DEF BitType
    <3>4. QED
      BY <2>1, <3>2, <3>3, TypePartsNext
  <2>3. CASE addr # "SCSR"
    <3>1. \A b \in BOOLEAN : [of |-> "BSR", is |-> b] \in Words
      BY DEF Words
    <3>2. data' = [of |-> "BSR", is |-> up /\ ~low] /\ low' \in {FALSE, ~up}
      BY <1>4, <2>3, Zenon DEF MdioDone
    <3>3. (up /\ ~low) \in BOOLEAN
      BY Zenon
    <3>4. data' \in Words
      BY <3>1, <3>2, <3>3, Zenon
    <3>5. BitType'
      BY <2>1, <3>2, Zenon DEF BitType
    <3>6. WordType' /\ StateType'
      BY <2>1, <3>4 DEF WordType, StateType, taskVars, linkVars
    <3>7. QED
      BY <2>1, <3>5, <3>6, TypePartsNext
  <2>4. QED
    BY <2>2, <2>3
<1>5. ASSUME NEW t \in Threads, Fetch(t) PROVE TypeOK'
  <2>1. triggers' \in 0..MaxTriggers
    BY <1>5, BoundAssumption DEF Fetch, WordType
  <2>2. pc' \in [Threads -> PCs] /\ reg' \in [Threads -> Regs]
        /\ \A s \in Threads : pc'[s] = "store" => val[s].of = reg'[s]
    BY <1>5 DEF Fetch, Goto, WordType, PCs, Regs
  <2>3. QED
    BY <1>5, <2>1, <2>2 DEF Fetch, TypeOK, phyVars, mdioVars, linkVars
<1>6. ASSUME NEW t \in Threads, MdioCheck(t) PROVE TypeOK'
  <2>1. pc' \in [Threads -> PCs] /\ val' \in [Threads -> Words]
        /\ \A s \in Threads : pc'[s] = "store" => val'[s].of = reg[s]
    BY <1>6 DEF MdioCheck, Goto, WordType, PCs, Decoded
  <2>2. QED
    BY <1>6, <2>1 DEF MdioCheck, TypeOK, phyVars, mdioVars, linkVars
<1>7. ASSUME NEW t \in Threads, MdioIssue(t) PROVE TypeOK'
  <2>1. pc' \in [Threads -> PCs] /\ \A s \in Threads : pc'[s] = "store" => pc[s] = "store"
    BY <1>7 DEF MdioIssue, Goto, WordType, PCs
  <2>2. addr' \in Regs
    BY <1>7 DEF MdioIssue, WordType
  <2>3. QED
    BY <1>7, <2>1, <2>2 DEF MdioIssue, TypeOK, phyVars, linkVars
<1>8. ASSUME NEW t \in Threads, MdioTake(t) PROVE TypeOK'
  <2>1. pc' \in [Threads -> PCs] /\ val' \in [Threads -> Words]
        /\ \A s \in Threads : pc'[s] = "store" => val'[s].of = reg[s]
    BY <1>8 DEF MdioTake, Goto, WordType, PCs, Decoded
  <2>2. QED
    BY <1>8, <2>1 DEF MdioTake, TypeOK, phyVars, mdioVars, linkVars
<1>9. ASSUME NEW t \in Threads, StoreMode(t) PROVE TypeOK'
  <2>1. val[t].is \in Modes
    BY <1>9, WordsHold DEF StoreMode, WordType
  <2>2. pc' \in [Threads -> PCs] /\ reg' \in [Threads -> Regs]
        /\ \A s \in Threads : pc'[s] = "store" => val[s].of = reg'[s]
    BY <1>9 DEF StoreMode, Goto, WordType, PCs, Regs
  <2>3. status' \in [up : BOOLEAN, mode : Modes]
    BY <1>9, <2>1 DEF StoreMode, StateType
  <2>4. QED
    BY <1>9, <2>2, <2>3 DEF StoreMode, TypeOK, phyVars, mdioVars
<1>10. ASSUME NEW t \in Threads, StoreUp(t) PROVE TypeOK'
  <2>1. val[t].is \in BOOLEAN
    BY <1>10, WordsHold DEF StoreUp, WordType
  <2>2. pc' \in [Threads -> PCs] /\ \A s \in Threads : pc'[s] = "store" => pc[s] = "store"
    BY <1>10 DEF StoreUp, Goto, WordType, PCs
  <2>3. status' \in [up : BOOLEAN, mode : Modes]
    BY <1>10, <2>1 DEF StoreUp, StateType
  <2>4. QED
    BY <1>10, <2>2, <2>3 DEF StoreUp, TypeOK, phyVars, mdioVars
<1>11. ASSUME NEW t \in Threads, Compare(t) PROVE TypeOK'
  <2>1. pc' \in [Threads -> PCs] /\ \A s \in Threads : pc'[s] = "store" => pc[s] = "store"
    BY <1>11 DEF Compare, Goto, WordType, PCs
  <2>2. link' \in [init : BOOLEAN, up : BOOLEAN, mode : Modes]
    BY <1>11 DEF Compare, StateType
  <2>3. QED
    BY <1>11, <2>1, <2>2 DEF Compare, TypeOK, phyVars, mdioVars
<1>12. ASSUME NEW t \in Threads, SetMac(t) PROVE TypeOK'
  <2>1. pc' \in [Threads -> PCs] /\ \A s \in Threads : pc'[s] = "store" => pc[s] = "store"
    BY <1>12 DEF SetMac, Goto, WordType, PCs
  <2>2. link' \in [init : BOOLEAN, up : BOOLEAN, mode : Modes] /\ mac' \in Modes
    BY <1>12 DEF SetMac, StateType
  <2>3. QED
    BY <1>12, <2>1, <2>2 DEF SetMac, TypeOK, phyVars, mdioVars
<1>13. ASSUME NEW t \in Threads, Tell(t) PROVE TypeOK'
  <2>1. pc' \in [Threads -> PCs] /\ \A s \in Threads : pc'[s] = "store" => pc[s] = "store"
    BY <1>13 DEF Tell, Goto, WordType, PCs
  <2>2. link' \in [init : BOOLEAN, up : BOOLEAN, mode : Modes] /\ told' \in {"up", "down"}
    BY <1>13 DEF Tell, StateType
  <2>3. QED
    BY <1>13, <2>1, <2>2 DEF Tell, TypeOK, phyVars, mdioVars
<1>14. CASE UNCHANGED vars
  BY <1>14 DEF vars, TypeOK, phyVars, mdioVars, taskVars, linkVars
<1>15. QED
  BY <1>1, <1>2, <1>3, <1>4, <1>5, <1>6, <1>7, <1>8, <1>9, <1>10, <1>11, <1>12, <1>13, <1>14, Zenon
  DEF Next, Phy, Step

\* In both builds, whatever MDIO transactions are mixed, all variables stay in
\* their types, and a thread decodes a word only as of the register it asked for.
THEOREM TypeCorrect == Spec => []TypeOK
  BY TypeInit, TypeKept, PTL DEF Spec

(***************************************************************************)
(* What the stack is told, with one thread                                  *)
(***************************************************************************)

Heard == IF link.up THEN "up" ELSE "down"

\* Between two rounds the stack has been told what linkState says, unless it is
\* still to be told anything; when it is about to be told, it is something else.
ToldInv ==
    stack = "lwIP" =>
        /\ pc["stack"] = "idle"
        /\ told = "nothing" <=> ~link.init
        /\ IF pc["phy"] \in {"mac", "tell"} THEN told # Heard ELSE told \in {"nothing", Heard}

LEMMA StackFixed == [Next]_vars => stack' = stack
<1> SUFFICES ASSUME [Next]_vars PROVE stack' = stack
  OBVIOUS
<1>1. CASE Phy \/ MdioDone \/ UNCHANGED vars
  BY <1>1 DEF Phy, vars, Lose, Negotiate, Rise, MdioDone
<1>2. ASSUME NEW t \in Threads, Step(t) PROVE stack' = stack
  <2>1. CASE Fetch(t) \/ StoreMode(t) \/ StoreUp(t) \/ SetMac(t)
    BY <2>1 DEF Fetch, StoreMode, StoreUp, SetMac
  <2>2. CASE MdioCheck(t) \/ MdioIssue(t) \/ MdioTake(t)
    BY <2>2 DEF MdioCheck, MdioIssue, MdioTake
  <2>3. CASE Compare(t) \/ Tell(t)
    BY <2>3 DEF Compare, Tell
  <2>4. QED
    BY <1>2, <2>1, <2>2, <2>3 DEF Step
<1>3. QED
  BY <1>1, <1>2, Zenon DEF Next

LEMMA ToldKept == TypeOK /\ ToldInv /\ [Next]_vars => ToldInv'
<1> SUFFICES ASSUME TypeOK, ToldInv, [Next]_vars, stack = "lwIP" PROVE ToldInv'
  BY StackFixed DEF ToldInv
<1> USE DEF ToldInv, Heard
<1>0. pc \in [Threads -> PCs] /\ link \in [init : BOOLEAN, up : BOOLEAN, mode : Modes]
      /\ status \in [up : BOOLEAN, mode : Modes]
  BY DEF TypeOK
<1>1. CASE Phy \/ MdioDone \/ UNCHANGED vars
  BY <1>1 DEF Phy, Lose, Negotiate, Rise, MdioDone, vars, taskVars, linkVars
<1>2. ASSUME NEW t \in Threads, Step(t) PROVE t = "phy"
  BY <1>2 DEF Step, Threads, Fetch, MdioCheck, MdioIssue, MdioTake, StoreMode, StoreUp,
              Compare, SetMac, Tell
<1>3. ASSUME NEW t \in Threads,
             Fetch(t) \/ MdioCheck(t) \/ MdioIssue(t) \/ MdioTake(t) \/ StoreMode(t) \/ StoreUp(t)
      PROVE  ToldInv'
  <2>1. t = "phy"
    BY <1>2, <1>3 DEF Step
  <2>2. UNCHANGED <<link, told>> /\ pc["phy"] \notin {"mac", "tell"}
        /\ pc' \in [Threads -> PCs] /\ pc'["phy"] \notin {"mac", "tell"} /\ pc'["stack"] = pc["stack"]
    BY <1>0, <1>3, <2>1 DEF Fetch, MdioCheck, MdioIssue, MdioTake, StoreMode, StoreUp, Goto,
                            linkVars, Threads, PCs
  <2>3. QED
    BY <2>2
<1>4. ASSUME NEW t \in Threads, Compare(t) PROVE ToldInv'
  <2>1. t = "phy"
    BY <1>2, <1>4 DEF Step
  <2>2. CASE Differs
    <3>1. link' = [link EXCEPT !.up = status.up] /\ told' = told
          /\ pc' = [pc EXCEPT !["phy"] = IF status.up THEN "mac" ELSE "tell"]
      BY <1>4, <2>1, <2>2 DEF Compare, Goto
    <3>2. QED
      BY <1>0, <1>4, <2>1, <2>2, <3>1 DEF Compare, Differs, Threads
  <2>3. CASE ~Differs
    <3>1. link' = [link EXCEPT !.init = TRUE] /\ told' = told /\ link.init
          /\ pc' = [pc EXCEPT !["phy"] = "idle"]
      BY <1>4, <2>1, <2>3 DEF Compare, Goto, Differs
    <3>2. QED
      BY <1>0, <1>4, <2>1, <3>1 DEF Compare, Threads
  <2>4. QED
    BY <2>2, <2>3
<1>5. ASSUME NEW t \in Threads, SetMac(t) PROVE ToldInv'
  <2>1. t = "phy"
    BY <1>2, <1>5 DEF Step
  <2>2. QED
    BY <1>0, <1>5, <2>1 DEF SetMac, Goto, Threads
<1>6. ASSUME NEW t \in Threads, Tell(t) PROVE ToldInv'
  <2>1. t = "phy"
    BY <1>2, <1>6 DEF Step
  <2>2. QED
    BY <1>0, <1>6, <2>1 DEF Tell, Goto, Threads
<1>7. QED
  BY <1>1, <1>3, <1>4, <1>5, <1>6, Zenon DEF Next, Step

\* With one thread the stack is never told the same twice in a row, however
\* the cable behaves and whatever the reads return.
THEOREM ToldChangesOnly == Spec => ToldAlternates
<1>1. Init => ToldInv
  BY DEF Init, ToldInv, Heard, Threads
<1>2. TypeOK /\ ToldInv => (stack = "lwIP" => \A t \in Threads : Tell(t) => told' # told)
  <2> SUFFICES ASSUME TypeOK, ToldInv, stack = "lwIP", NEW t \in Threads, Tell(t)
               PROVE  told' # told
    OBVIOUS
  <2>1. t = "phy" /\ told' = Heard
    BY DEF Tell, ToldInv, Threads, Heard
  <2>2. QED
    BY <2>1 DEF Tell, ToldInv
<1>3. QED
  BY TypeInit, TypeKept, ToldKept, <1>1, <1>2, PTL DEF Spec, ToldAlternates

(***************************************************************************)
(* The mode of the MAC, with one thread                                     *)
(***************************************************************************)

\* The phy thread has the PHY's answer about the link, from the end of the MDIO
\* transaction until the MAC is set ...
Answered ==
    reg["phy"] = "BSR" /\ (pc["phy"] \in {"store", "compare", "mac"} \/ (pc["phy"] = "wait" /\ ~mb))

\* ... and the answer is that the link is up.
Seen ==
    \/ pc["phy"] = "wait" /\ data.is
    \/ pc["phy"] = "store" /\ val["phy"].is
    \/ pc["phy"] = "compare" /\ status.up
    \/ pc["phy"] = "mac"

\* With one thread MDIO works as meant: a transaction is waited for, and the
\* word found is of the register asked for.
MdioInv ==
    stack = "lwIP" =>
        /\ pc["stack"] = "idle"
        /\ mb => pc["phy"] = "wait" /\ addr = reg["phy"]
        /\ pc["phy"] = "wait" /\ ~mb => data.of = reg["phy"]
        /\ pc["phy"] \in {"compare", "mac", "tell"} => reg["phy"] = "BSR"

\* BSR not remembering a loss, an answer "up" is still true, and the mode read
\* before it is the link's; and so is the MAC's unless it is about to be set or
\* linkState about to be corrected.
MacInv ==
    stack = "lwIP" =>
        /\ pc["phy"] = "mac" => link.up
        /\ up => \A m \in Modes : ReadBefore("phy", m) => m = agreed
        /\ Answered /\ Seen /\ ~low => up /\ status.mode = agreed
        /\ link.up /\ ~low /\ (Answered => Seen) /\ pc["phy"] # "mac" => up /\ mac = agreed

LEMMA OnlyPhy ==
    ASSUME MdioInv, stack = "lwIP", NEW t \in Threads, Step(t)
    PROVE  t = "phy"
  BY DEF MdioInv, Step, Threads, Fetch, MdioCheck, MdioIssue, MdioTake, StoreMode, StoreUp,
         Compare, SetMac, Tell

LEMMA MdioKept == TypeOK /\ MdioInv /\ [Next]_vars => MdioInv'
<1> SUFFICES ASSUME TypeOK, MdioInv, [Next]_vars, stack = "lwIP" PROVE MdioInv'
  BY StackFixed DEF MdioInv
<1> USE DEF MdioInv
<1>0. pc \in [Threads -> PCs] /\ reg \in [Threads -> Regs] /\ addr \in Regs
  BY DEF TypeOK
<1>1. CASE Phy \/ UNCHANGED vars
  <2>1. UNCHANGED <<stack, mdioVars, taskVars>>
    BY <1>1 DEF Phy, Lose, Negotiate, Rise, vars
  <2>2. QED
    BY <2>1 DEF mdioVars, taskVars
<1>2. CASE MdioDone
  <2>1. mb /\ ~mb' /\ UNCHANGED <<stack, pc, reg>>
    BY <1>2 DEF MdioDone, taskVars
  <2>2. pc["phy"] = "wait" /\ addr = reg["phy"] /\ addr \in {"SCSR", "BSR"}
    BY <1>0, <2>1 DEF Regs
  <2>3. data'.of = addr
    <3>1. CASE addr = "SCSR"
      BY <1>2, <3>1 DEF MdioDone
    <3>2. CASE addr # "SCSR"
      <4>1. data' = [of |-> "BSR", is |-> up /\ ~low]
        BY <1>2, <3>2 DEF MdioDone
      <4>2. QED
        BY <2>2, <3>2, <4>1
    <3>3. QED
      BY <3>1, <3>2
  <2>4. QED
    BY <2>1, <2>2, <2>3
<1>3. ASSUME NEW t \in Threads, Step(t) PROVE MdioInv'
  <2>1. t = "phy"
    BY <1>3, OnlyPhy
  <2>2. CASE Fetch(t) \/ MdioCheck(t) \/ MdioIssue(t) \/ MdioTake(t)
    BY <1>0, <2>1, <2>2 DEF Fetch, MdioCheck, MdioIssue, MdioTake, Goto, Threads, mdioVars
  <2>3. CASE StoreMode(t) \/ StoreUp(t)
    BY <1>0, <2>1, <2>3 DEF StoreMode, StoreUp, Goto, Threads, mdioVars
  <2>4. CASE Compare(t) \/ SetMac(t) \/ Tell(t)
    BY <1>0, <2>1, <2>4 DEF Compare, SetMac, Tell, Goto, Threads, mdioVars
  <2>5. QED
    BY <1>3, <2>2, <2>3, <2>4 DEF Step
<1>4. QED
  BY <1>1, <1>2, <1>3 DEF Next

LEMMA MacKept == Settles /\ TypeOK /\ MdioInv /\ MacInv /\ [Next]_vars => MacInv'
<1> SUFFICES ASSUME Settles, TypeOK, MdioInv, MacInv, [Next]_vars, stack = "lwIP" PROVE MacInv'
  BY StackFixed DEF MacInv
<1>0. /\ pc \in [Threads -> PCs] /\ reg \in [Threads -> Regs] /\ val \in [Threads -> Words]
      /\ link \in [init : BOOLEAN, up : BOOLEAN, mode : Modes]
      /\ status \in [up : BOOLEAN, mode : Modes] /\ "phy" \in Threads
  BY DEF TypeOK, Threads
<1>i. /\ mb => pc["phy"] = "wait" /\ addr = reg["phy"]
      /\ pc["phy"] = "wait" /\ ~mb => data.of = reg["phy"]
      /\ pc["phy"] \in {"compare", "mac", "tell"} => reg["phy"] = "BSR"
  BY DEF MdioInv
<1>m. /\ pc["phy"] = "mac" => link.up
      /\ up => \A m \in Modes : ReadBefore("phy", m) => m = agreed
      /\ Answered /\ Seen /\ ~low => up /\ status.mode = agreed
      /\ link.up /\ ~low /\ (Answered => Seen) /\ pc["phy"] # "mac" => up /\ mac = agreed
  BY DEF MacInv
<1>n. stack' = stack
  BY StackFixed
<1>1. CASE Lose \/ UNCHANGED vars
  BY <1>m, <1>1 DEF Lose, vars, phyVars, mdioVars, taskVars, linkVars, MacInv, ReadBefore, Answered, Seen
<1>2. ASSUME NEW m \in Modes, Negotiate(m) PROVE MacInv'
  BY <1>m, <1>2 DEF Negotiate, mdioVars, taskVars, linkVars, MacInv, Answered, Seen
<1>3. CASE Rise
  BY <1>0, <1>m, <1>3 DEF Rise, mdioVars, taskVars, linkVars, MacInv, Answered, Seen, ReadBefore
<1>4. CASE MdioDone
  <2>1. /\ mb /\ ~mb' /\ UNCHANGED <<stack, up, agreed, addr, taskVars, linkVars>>
        /\ pc["phy"] = "wait" /\ addr = reg["phy"] /\ ~Answered
    BY <1>i, <1>4 DEF MdioDone, Answered
  <2>2. CASE reg["phy"] = "SCSR"
    <3>1. data' = [of |-> "SCSR", is |-> agreed] /\ low' = low
      BY <1>4, <2>1, <2>2 DEF MdioDone
    <3>2. ~Answered'
      BY <2>1, <2>2 DEF Answered, taskVars
    <3>3. \A m \in Modes : ReadBefore("phy", m)' => m = agreed
      BY <2>1, <2>2, <3>1 DEF ReadBefore, taskVars
    <3>4. QED
      BY <1>m, <2>1, <3>1, <3>2, <3>3 DEF MacInv, taskVars, linkVars
  <2>3. CASE reg["phy"] # "SCSR"
    <3>0. reg["phy"] = "BSR"
      BY <1>0, <2>3 DEF Regs
    <3>1. data' = [of |-> "BSR", is |-> up /\ ~low] /\ low' \in {FALSE, ~up}
      BY <1>4, <2>1, <3>0 DEF MdioDone
    <3>2. Seen' => up /\ ~low
      <4>1. data'.is = (up /\ ~low)
        BY <3>1
      <4>2. pc'["phy"] = "wait"
        BY <2>1 DEF taskVars
      <4>3. QED
        BY <4>1, <4>2 DEF Seen
    <3>3. \A m \in Modes : ReadBefore("phy", m)' <=> ReadBefore("phy", m)
      BY <2>1, <3>0 DEF ReadBefore, taskVars, linkVars
    <3>4. up => status.mode = agreed
      BY <1>0, <1>m, <2>1, <3>0 DEF ReadBefore
    <3>5. Answered'
      BY <2>1, <3>0 DEF Answered, taskVars
    <3>6. QED
      BY <1>m, <2>1, <3>2, <3>3, <3>4, <3>5 DEF MacInv, taskVars, linkVars
  <2>4. QED
    BY <2>2, <2>3
<1>5. ASSUME NEW t \in Threads, Step(t) PROVE MacInv'
  <2>0. t = "phy" /\ UNCHANGED phyVars
    <3>0. t = "phy"
      BY <1>5, OnlyPhy
    <3>1. CASE Fetch(t) \/ MdioCheck(t) \/ MdioIssue(t) \/ MdioTake(t)
      BY <3>0, <3>1 DEF Fetch, MdioCheck, MdioIssue, MdioTake
    <3>2. CASE StoreMode(t) \/ StoreUp(t) \/ Compare(t) \/ SetMac(t) \/ Tell(t)
      BY <3>0, <3>2 DEF StoreMode, StoreUp, Compare, SetMac, Tell
    <3>3. QED
      BY <1>5, <3>1, <3>2 DEF Step
  <2> USE DEF phyVars
  <2>1. CASE Fetch(t)
    <3>1. /\ pc["phy"] = "idle" /\ pc'["phy"] = "check" /\ reg'["phy"] = "SCSR"
          /\ UNCHANGED linkVars
      BY <1>0, <2>0, <2>1 DEF Fetch, Goto
    <3>2. ~Answered /\ ~Answered' /\ \A m : ~ReadBefore("phy", m)'
      BY <3>1 DEF Answered, ReadBefore
    <3>3. QED
      BY <1>m, <2>0, <3>1, <3>2 DEF MacInv, linkVars
  <2>2. CASE MdioCheck(t) \/ MdioIssue(t)
    <3>1. /\ pc["phy"] \in {"check", "issue"} /\ pc'["phy"] \in {"issue", "wait"}
          /\ reg' = reg /\ (pc'["phy"] = "wait" => mb') /\ UNCHANGED linkVars
      BY <1>0, <1>i, <2>0, <2>2 DEF MdioCheck, MdioIssue, Goto
    <3>2. ~Answered /\ ~Answered'
      BY <3>1 DEF Answered
    <3>3. \A m : ReadBefore("phy", m)' => ReadBefore("phy", m)
      BY <3>1 DEF ReadBefore, linkVars
    <3>4. QED
      BY <1>m, <2>0, <3>1, <3>2, <3>3 DEF MacInv, linkVars
  <2>3. CASE MdioTake(t)
    <3>1. /\ pc["phy"] = "wait" /\ ~mb /\ pc'["phy"] = "store" /\ val'["phy"] = data
          /\ reg' = reg /\ UNCHANGED linkVars /\ data.of = reg["phy"]
      BY <1>0, <1>i, <2>0, <2>3 DEF MdioTake, Goto
    <3>2. (Answered' <=> Answered) /\ (Seen' <=> Seen)
      BY <3>1 DEF Answered, Seen
    <3>3. \A m : ReadBefore("phy", m)' => ReadBefore("phy", m)
      BY <3>1 DEF ReadBefore, linkVars
    <3>4. QED
      BY <1>m, <2>0, <3>1, <3>2, <3>3 DEF MacInv, linkVars
  <2>4. CASE StoreMode(t)
    <3>1. /\ pc["phy"] = "store" /\ reg["phy"] = "SCSR" /\ pc'["phy"] = "check"
          /\ reg'["phy"] = "BSR" /\ status'.mode = val["phy"].is /\ UNCHANGED <<link, mac>>
      BY <1>0, <2>0, <2>4 DEF StoreMode, Goto
    <3>2. ~Answered /\ ~Answered'
      BY <3>1 DEF Answered
    <3>3. \A m : ReadBefore("phy", m)' => ReadBefore("phy", m)
      BY <3>1 DEF ReadBefore
    <3>4. QED
      BY <1>m, <2>0, <3>1, <3>2, <3>3 DEF MacInv
  <2>5. CASE StoreUp(t)
    <3>1. /\ pc["phy"] = "store" /\ reg["phy"] = "BSR" /\ pc'["phy"] = "compare" /\ reg' = reg
          /\ UNCHANGED <<link, mac>>
      BY <1>0, <2>0, <2>5 DEF StoreUp, Goto
    <3>2. status'.mode = status.mode /\ status'.up = val["phy"].is
      BY <1>0, <2>0, <2>5 DEF StoreUp
    <3>3. (Answered' <=> Answered) /\ (Seen' <=> Seen) /\ \A m : ~ReadBefore("phy", m)'
      BY <3>1, <3>2 DEF Answered, Seen, ReadBefore
    <3>4. QED
      BY <1>m, <2>0, <3>1, <3>2, <3>3 DEF MacInv
  <2>6. CASE Compare(t)
    <3>1. /\ pc["phy"] = "compare" /\ reg["phy"] = "BSR" /\ UNCHANGED <<reg, status, mac>>
          /\ pc'["phy"] \in {"idle", "mac", "tell"}
      BY <1>0, <1>i, <2>0, <2>6 DEF Compare, Goto
    <3>2. /\ Answered /\ (Seen <=> status.up)
          /\ (Answered' => pc'["phy"] = "mac") /\ \A m : ~ReadBefore("phy", m)'
      BY <3>1 DEF Answered, Seen, ReadBefore
    <3>3. link'.up = status.up /\ (pc'["phy"] = "mac" => status.up)
      <4>1. CASE Differs
        BY <1>0, <2>0, <2>6, <4>1 DEF Compare, Goto
      <4>2. CASE ~Differs
        BY <1>0, <2>0, <2>6, <4>2 DEF Compare, Goto, Differs
      <4>3. QED
        BY <4>1, <4>2
    <3>4. pc'["phy"] = "idle" => link.up = status.up
      BY <1>0, <2>0, <2>6 DEF Compare, Goto, Differs
    <3>5. pc'["phy"] = "tell" => ~status.up
      BY <1>0, <2>0, <2>6 DEF Compare, Goto
    <3>6. QED
      BY <1>m, <2>0, <3>1, <3>2, <3>3, <3>4, <3>5 DEF MacInv
  <2>7. CASE SetMac(t)
    <3>1. /\ pc["phy"] = "mac" /\ pc'["phy"] = "tell" /\ reg' = reg
          /\ mac' = status.mode /\ link'.up = link.up
      BY <1>0, <2>0, <2>7 DEF SetMac, Goto
    <3>2. Answered /\ Seen /\ ~Answered' /\ \A m : ~ReadBefore("phy", m)'
      BY <1>i, <3>1 DEF Answered, Seen, ReadBefore
    <3>3. QED
      BY <1>m, <2>0, <3>1, <3>2 DEF MacInv
  <2>8. CASE Tell(t)
    <3>1. /\ pc["phy"] = "tell" /\ pc'["phy"] = "idle" /\ link'.up = link.up /\ mac' = mac
      BY <1>0, <2>0, <2>8 DEF Tell, Goto
    <3>2. ~Answered /\ ~Answered' /\ \A m : ~ReadBefore("phy", m)'
      BY <3>1 DEF Answered, ReadBefore
    <3>3. QED
      BY <1>m, <2>0, <3>1, <3>2 DEF MacInv
  <2>9. QED
    BY <1>5, <2>1, <2>2, <2>3, <2>4, <2>5, <2>6, <2>7, <2>8 DEF Step
<1>6. QED
  BY <1>1, <1>2, <1>3, <1>4, <1>5 DEF Next, Phy

\* With one thread and a PHY whose mode settles a round before the link comes up,
\* the MAC has the link's mode, however short a loss brought another one: for
\* any modes and any changes of the cable.
THEOREM MacIsRight == ASSUME Settles PROVE Spec => []MacMatchesPhy
<1>1. Init => MdioInv /\ MacInv
  <2> SUFFICES ASSUME Init PROVE MdioInv /\ MacInv
    OBVIOUS
  <2>1. /\ pc["phy"] = "idle" /\ pc["stack"] = "idle" /\ reg["phy"] = "SCSR" /\ ~mb /\ ~up
        /\ ~link.up
    BY DEF Init, Threads
  <2>2. QED
    BY <2>1 DEF MdioInv, MacInv, Answered, ReadBefore
<1>2. TypeOK /\ MdioInv /\ MacInv => MacMatchesPhy
  BY DEF MdioInv, MacInv, MacMatchesPhy, Answered
<1>3. Settles
  OBVIOUS
<1>4. TypeOK /\ MdioInv /\ MacInv /\ [Next]_vars => (TypeOK /\ MdioInv /\ MacInv)'
  BY <1>3, TypeKept, MdioKept, MacKept, Zenon
<1>5. QED
  BY TypeInit, <1>1, <1>2, <1>4, PTL DEF Spec
=============================================================================
