----------------------------- MODULE LinkMonitor -----------------------------
(***************************************************************************)
(* The link monitor of the Ethernet driver: fetch_link_properties reads the *)
(* PHY over MDIO, sets the MAC's speed and duplex when the link comes up    *)
(* and tells the network stack of every change. It runs twice a second. In  *)
(* the lwIP build one thread runs it; in the EtherLib build both the phy    *)
(* thread and, through llTrigLinkChg, the stack's thread do, without a lock *)
(* around the MDIO registers, linkStatus or linkState.                      *)
(*                                                                         *)
(* A mode is what auto-negotiation agrees on, a speed with a duplex.        *)
(***************************************************************************)
EXTENDS Integers

CONSTANTS
    Modes,       \* the link's speed and duplex
    Stacks,      \* the builds to look at, of "lwIP" and "EtherLib"
    Settles,     \* is a mode readable at least one round before the link is up?
    MaxChanges,  \* bound of the model: changes of the cable and the partner
    MaxTriggers  \* bound of the model: calls of llTrigLinkChg

ASSUME StacksAssumption == Stacks \subseteq {"lwIP", "EtherLib"}
ASSUME SettlesAssumption == Settles \in BOOLEAN
ASSUME BoundAssumption == MaxChanges \in Nat /\ MaxTriggers \in Nat

VARIABLES
    stack,               \* ETH_STACK of the build
    up, agreed, low,     \* the PHY: link, mode, BSR still tells of a lost link
    mb, addr, data,      \* MACMDIOAR.MB and .RDA, MACMDIODR
    pc, reg, val,        \* each thread: step, register being read, regVal
    status,              \* linkStatus of phy_common.c
    link,                \* linkState of the driver
    mac,                 \* MACCR.FES and .DM
    told,                \* what the stack was told last: "up", "down", "nothing"
    changes, triggers    \* history: for the bounds

phyVars == <<up, agreed, low>>
mdioVars == <<mb, addr, data>>
taskVars == <<pc, reg, val>>
linkVars == <<status, link, mac, told>>
vars == <<stack, phyVars, mdioVars, taskVars, linkVars, changes, triggers>>

Threads == {"phy", "stack"}
Regs == {"SCSR", "BSR"}
Words == [of : {"SCSR"}, is : Modes] \cup [of : {"BSR"}, is : BOOLEAN]

\* A word of register r, as one register's word is decoded for the other.
Decoded(r) == {w \in Words : w.of = r}

Init ==
    /\ stack \in Stacks
    /\ up = FALSE /\ agreed \in Modes /\ low = TRUE
    /\ mb = FALSE /\ addr = "BSR" /\ data \in Decoded("BSR")
    /\ pc = [t \in Threads |-> "idle"] /\ reg = [t \in Threads |-> "SCSR"]
    /\ val = [t \in Threads |-> data]
    /\ mac \in Modes
    /\ status = [up |-> FALSE, mode |-> mac]
    /\ link = [init |-> FALSE, up |-> FALSE, mode |-> mac]
    /\ told = "nothing"
    /\ changes = 0 /\ triggers = 0

-----------------------------------------------------------------------------
(* The PHY. Its mode is settled while the link is down; a link that was lost *)
(* keeps BSR's link bit clear until it is read (IEEE 802.3, the reason why   *)
(* the RTL8201F handler reads BSR twice).                                    *)

\* The mode a fetch under way has read before it reads BSR.
ReadBefore(t, m) ==
    \/ reg[t] = "SCSR" /\ pc[t] = "wait" /\ ~mb /\ data.of = "SCSR" /\ data.is = m
    \/ reg[t] = "SCSR" /\ pc[t] = "store" /\ val[t].is = m
    \/ reg[t] = "BSR" /\ pc[t] \in {"check", "issue", "wait"} /\ status.mode = m

Lose ==
    /\ up /\ changes < MaxChanges
    /\ up' = FALSE /\ low' = TRUE /\ changes' = changes + 1
    /\ UNCHANGED <<stack, agreed, mdioVars, taskVars, linkVars, triggers>>

Negotiate(m) ==
    /\ ~up /\ m # agreed /\ changes < MaxChanges
    /\ agreed' = m /\ changes' = changes + 1
    /\ UNCHANGED <<stack, up, low, mdioVars, taskVars, linkVars, triggers>>

\* If Settles, no fetch reads an older mode and then finds the link up.
Rise ==
    /\ ~up
    /\ Settles => \A t \in Threads, m \in Modes : ReadBefore(t, m) => m = agreed
    /\ up' = TRUE
    /\ UNCHANGED <<stack, agreed, low, mdioVars, taskVars, linkVars, changes, triggers>>

-----------------------------------------------------------------------------
(* ETHHW_ReadPHYRegister *)

Goto(t, step) == pc' = [pc EXCEPT ![t] = step]

\* Fault: what MACMDIODR held before is taken for a refused read.
MdioCheckStale(t) ==
    /\ pc[t] = "check"
    /\ IF mb THEN Goto(t, "store") /\ val' = [val EXCEPT ![t] = data]
             ELSE Goto(t, "issue") /\ UNCHANGED val
    /\ UNCHANGED <<stack, phyVars, mdioVars, reg, linkVars, changes, triggers>>

\* The busy flag is looked at once. A read that is refused leaves regVal as it
\* was, an uninitialised variable or the word of another register, and
\* phy_fetch_link_status does not look at the result.
MdioCheck(t) ==
    /\ pc[t] = "check"
    /\ IF mb THEN Goto(t, "store") /\ \E w \in Decoded(reg[t]) : val' = [val EXCEPT ![t] = w]
             ELSE Goto(t, "issue") /\ UNCHANGED val
    /\ UNCHANGED <<stack, phyVars, mdioVars, reg, linkVars, changes, triggers>>

\* A transaction another thread has started since may be the one that is done.
MdioIssue(t) ==
    /\ pc[t] = "issue"
    /\ mb' = TRUE /\ addr' \in (IF mb THEN {addr, reg[t]} ELSE {reg[t]})
    /\ Goto(t, "wait")
    /\ UNCHANGED <<stack, phyVars, data, reg, val, linkVars, changes, triggers>>

\* The PHY answers. Reading BSR lets go of the loss it remembers; while the link
\* is still down it may remember it on until the next read.
MdioDone ==
    /\ mb
    /\ mb' = FALSE
    /\ IF addr = "SCSR" THEN data' = [of |-> "SCSR", is |-> agreed] /\ UNCHANGED low
                        ELSE /\ data' = [of |-> "BSR", is |-> up /\ ~low]
                             /\ low' \in {FALSE, ~up}
    /\ UNCHANGED <<stack, up, agreed, addr, taskVars, linkVars, changes, triggers>>

MdioTake(t) ==
    /\ pc[t] = "wait" /\ ~mb
    /\ \E w \in Decoded(reg[t]) :
          /\ data.of = reg[t] => w = data
          /\ val' = [val EXCEPT ![t] = w]
    /\ Goto(t, "store")
    /\ UNCHANGED <<stack, phyVars, mdioVars, reg, linkVars, changes, triggers>>

-----------------------------------------------------------------------------
(* fetch_link_properties, with phy_get_link_status of the LAN8742A *)

\* The phy thread's round, or the stack's trigger.
Fetch(t) ==
    /\ pc[t] = "idle"
    /\ \/ t = "phy" /\ UNCHANGED triggers
       \/ t = "stack" /\ stack = "EtherLib" /\ triggers < MaxTriggers /\ triggers' = triggers + 1
    /\ Goto(t, "check") /\ reg' = [reg EXCEPT ![t] = "SCSR"]
    /\ UNCHANGED <<stack, phyVars, mdioVars, val, linkVars, changes>>

StoreMode(t) ==
    /\ pc[t] = "store" /\ reg[t] = "SCSR"
    /\ status' = [status EXCEPT !.mode = val[t].is]
    /\ Goto(t, "check") /\ reg' = [reg EXCEPT ![t] = "BSR"]
    /\ UNCHANGED <<stack, phyVars, mdioVars, val, link, mac, told, changes, triggers>>

StoreUp(t) ==
    /\ pc[t] = "store" /\ reg[t] = "BSR"
    /\ status' = [status EXCEPT !.up = val[t].is]
    /\ Goto(t, "compare")
    /\ UNCHANGED <<stack, phyVars, mdioVars, reg, val, link, mac, told, changes, triggers>>

\* Fault: every round counts as a change.
DiffersAlways == TRUE

\* Fault: only a link that has come up counts.
DiffersRisen == (status.up /\ ~link.up) \/ ~link.init

\* "linkState.up != status->up || !linkState.init"
Differs == link.up # status.up \/ ~link.init

Compare(t) ==
    /\ pc[t] = "compare"
    /\ link' = IF Differs THEN [link EXCEPT !.up = status.up] ELSE [link EXCEPT !.init = TRUE]
    /\ Goto(t, IF ~Differs THEN "idle" ELSE IF status.up THEN "mac" ELSE "tell")
    /\ UNCHANGED <<stack, phyVars, mdioVars, reg, val, status, mac, told, changes, triggers>>

\* Fault: the MAC keeps the properties of the first link.
SetMacOnce(t) ==
    /\ pc[t] = "mac"
    /\ mac' = IF link.init THEN mac ELSE status.mode
    /\ link' = [link EXCEPT !.mode = status.mode]
    /\ Goto(t, "tell")
    /\ UNCHANGED <<stack, phyVars, mdioVars, reg, val, status, told, changes, triggers>>

\* ETHHW_SetLinkProperties, and speed and duplex kept in linkState.
SetMac(t) ==
    /\ pc[t] = "mac"
    /\ mac' = status.mode
    /\ link' = [link EXCEPT !.mode = status.mode]
    /\ Goto(t, "tell")
    /\ UNCHANGED <<stack, phyVars, mdioVars, reg, val, status, told, changes, triggers>>

\* llLinkChg with status->up, or netif_set_link_up/down by linkState.up.
Tell(t) ==
    /\ pc[t] = "tell"
    /\ told' = IF (IF stack = "lwIP" THEN link.up ELSE status.up) THEN "up" ELSE "down"
    /\ link' = [link EXCEPT !.init = TRUE]
    /\ Goto(t, "idle")
    /\ UNCHANGED <<stack, phyVars, mdioVars, reg, val, status, mac, changes, triggers>>

-----------------------------------------------------------------------------
Step(t) == \/ Fetch(t) \/ MdioCheck(t) \/ MdioIssue(t) \/ MdioTake(t)
           \/ StoreMode(t) \/ StoreUp(t) \/ Compare(t) \/ SetMac(t) \/ Tell(t)

Phy == Lose \/ Rise \/ \E m \in Modes : Negotiate(m)

Next == Phy \/ MdioDone \/ \E t \in Threads : Step(t)

Spec == Init /\ [][Next]_vars

\* Threads are scheduled and the PHY answers. The cable owes nobody anything.
FairSpec == Spec /\ WF_vars(MdioDone) /\ \A t \in Threads : WF_vars(Step(t))

-----------------------------------------------------------------------------
(* Properties *)

PCs == {"idle", "check", "issue", "wait", "store", "compare", "mac", "tell"}

\* Every variable has its type; a thread decodes only words it asked for.
TypeOK ==
    /\ stack \in Stacks
    /\ up \in BOOLEAN /\ agreed \in Modes /\ low \in BOOLEAN
    /\ mb \in BOOLEAN /\ addr \in Regs /\ data \in Words
    /\ pc \in [Threads -> PCs] /\ reg \in [Threads -> Regs] /\ val \in [Threads -> Words]
    /\ \A t \in Threads : pc[t] = "store" => val[t].of = reg[t]
    /\ status \in [up : BOOLEAN, mode : Modes]
    /\ link \in [init : BOOLEAN, up : BOOLEAN, mode : Modes]
    /\ mac \in Modes /\ told \in {"nothing", "up", "down"}
    /\ changes \in 0..MaxChanges /\ triggers \in 0..MaxTriggers

\* With one thread the MAC runs at the link's speed and duplex whenever the
\* monitor holds a link to be up that has not been lost since: the mode is
\* only set on a rising edge, and a loss too short to be seen by polling may
\* bring another mode. BSR remembering the loss is what makes it work.
MacMatchesPhy ==
    stack = "lwIP" /\ pc["phy"] \in {"idle", "check"} /\ link.up /\ up /\ ~low => mac = agreed

\* With one thread the stack is told of changes only, never of the same state
\* twice in a row.
ToldAlternates ==
    [][stack = "lwIP" => \A t \in Threads : Tell(t) => told' # told]_vars

\* With one thread no loss of the link is missed, however short: the stack is
\* told of it.
LossTold == (stack = "lwIP" /\ told = "up" /\ ~up) ~> told = "down"

\* In both builds linkState follows the link in the end, also after two
\* threads have mixed their MDIO transactions and read the other's register:
\* the phy thread's next rounds set it right.
LinkFollowed == <>[](link.init /\ link.up = up)
=============================================================================
