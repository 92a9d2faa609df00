---------------------------- MODULE CliLineProofs ----------------------------
(***************************************************************************)
(* Proofs about CliLine, for lines and a history of any length: types and   *)
(* the history's index, the history's content, and what the terminal shows. *)
(***************************************************************************)
EXTENDS CliLine, FiniteSetTheorems, TLAPS

(***************************************************************************)
(* Operators                                                                *)
(***************************************************************************)

LEMMA CountInside ==
    ASSUME NEW n \in Nat, NEW S \in SUBSET (1..n) PROVE Cardinality(S) \in 0..n
<1>1. IsFiniteSet(1..n) /\ Cardinality(1..n) = n
  BY FS_Interval
<1>2. IsFiniteSet(S) /\ Cardinality(S) <= n
  BY <1>1, FS_Subset
<1>3. QED
  BY <1>2, FS_CardinalityType

LEMMA BlanksType ==
    ASSUME NEW l \in Text PROVE LeftBlanks(l) \in 0..Len(l) /\ RightBlanks(l) \in 0..Len(l)
<1>1. Len(l) \in Nat
  BY DEF Text
<1>2. {k \in 1..Len(l) : \A m \in 1..k : l[m] = " "} \in SUBSET (1..Len(l))
  OBVIOUS
<1>3. {k \in 1..Len(l) : \A m \in k..Len(l) : l[m] = " "} \in SUBSET (1..Len(l))
  OBVIOUS
<1>4. QED
  BY <1>1, <1>2, <1>3, CountInside DEF LeftBlanks, RightBlanks

LEMMA TrimType == ASSUME NEW l \in Text PROVE Trim(l) \in Text /\ Len(Trim(l)) <= Len(l)
<1> DEFINE a == LeftBlanks(l) + 1
           b == Len(l) - RightBlanks(l)
<1>1. a \in Nat \ {0} /\ b \in Int /\ b <= Len(l)
  BY BlanksType DEF Text
<1>2. SubSeq(l, a, b) \in Seq(Typed)
  BY <1>1 DEF Text
<1>3. Len(SubSeq(l, a, b)) <= Len(l)
  BY <1>1, BlanksType DEF Text
<1>4. QED
  BY <1>2, <1>3 DEF Trim, Text

LEMMA FrontType ==
    ASSUME NEW l \in Text PROVE Front(l) \in Text /\ Len(Front(l)) <= Len(l)
  BY DEF Front, Text

LEMMA FullType ==
    ASSUME NEW l \in Text PROVE Full(l) \in BOOLEAN /\ (~Full(l) => Len(l) < LineLen)
  BY LengthAssumption DEF Full, Text

LEMMA EmptyType == <<>> \in Text /\ Len(<<>>) < LineLen
  BY LengthAssumption DEF Text

LEMMA TargetType ==
    ASSUME level \in Nat, histIdx \in -1..level - 1, NEW up \in BOOLEAN
    PROVE  Target(up) \in -1..level - 1
  BY DEF Target, Least, Greatest

(***************************************************************************)
(* Types                                                                    *)
(***************************************************************************)

EditType ==
    /\ line \in Text /\ Len(line) <= LineLen /\ shown \in Text
    /\ pos \in 0..ParamLen + 2 /\ param \in Garbage \cup {"["}
    /\ histIdx \in -1..level - 1

FlagType ==
    /\ esc \in BOOLEAN /\ noMod \in BOOLEAN /\ ends \in BOOLEAN /\ overrun \in BOOLEAN
    /\ edited \in BOOLEAN /\ blanked \in BOOLEAN /\ marred \in BOOLEAN

StackType ==
    /\ lead \in 0..LineLen /\ level \in 0..Depth
    /\ hist \in [Entries -> Text] /\ past \in Seq(Text)
    /\ lines \in 0..MaxLines

\* Until a buffer is written behind, the next character has its place in it; it
\* is written behind by a line that has moved up or a long sequence only.
RoomInv ==
    /\ ~overrun => lead + Len(line) <= LineLen + 1
    /\ esc /\ ~overrun => pos <= ParamLen + 1
    /\ BufferKept

\* A line short enough to be read on has room for one more character; an entry
\* of the history fits the buffer.
TypeInv ==
    /\ EditType /\ FlagType /\ StackType /\ RoomInv
    /\ ~ends => Len(line) < LineLen
    /\ \A k \in Entries : Len(hist[k]) <= LineLen
    /\ ends => lines < MaxLines

LEMMA TypeInit == Init => TypeInv
<1> SUFFICES ASSUME Init PROVE TypeInv
  OBVIOUS
<1>1. EditType
  <2>1. line \in Text /\ shown \in Text /\ Len(line) <= LineLen
    BY EmptyType, LengthAssumption DEF Init
  <2>2. histIdx \in -1..level - 1
    BY DEF Init
  <2>3. QED
    BY <2>1, <2>2, LengthAssumption DEF Init, EditType
<1>2. FlagType
  BY Zenon DEF Init, FlagType
<1>3. StackType
  BY LengthAssumption, BoundAssumption DEF Init, StackType, Text
<1>4. (~ends => Len(line) < LineLen) /\ RoomInv
  BY LengthAssumption DEF Init, RoomInv, BufferKept
<1>5. \A k \in Entries : Len(hist[k]) <= LineLen
  BY LengthAssumption DEF Init
<1>6. ends => lines < MaxLines
  BY DEF Init
<1>7. QED
  BY <1>1, <1>2, <1>3, <1>4, <1>5, <1>6 DEF TypeInv

LEMMA RecallType ==
    ASSUME TypeInv, NEW k \in -1..level - 1, Recall(k), UNCHANGED <<level, hist>>
    PROVE  /\ line' \in Text /\ Len(line') <= LineLen /\ shown' \in Text
           /\ histIdx' \in -1..level' - 1
           /\ ends' \in BOOLEAN /\ edited' \in BOOLEAN /\ blanked' \in BOOLEAN
           /\ marred' \in BOOLEAN
           /\ ~ends' => Len(line') < LineLen
<1>1. k # -1 => k \in Entries
  BY LengthAssumption DEF TypeInv, StackType, Entries
<1>2. k # -1 => hist[k] \in Text /\ Len(hist[k]) <= LineLen
  BY <1>1 DEF TypeInv, StackType
<1>3. <<>> \in Text
  BY DEF Text
<1>4. line' \in Text /\ Len(line') <= LineLen /\ shown' \in Text
  BY <1>2, <1>3 DEF Recall, Shows, TypeInv, EditType
<1>5. edited' \in BOOLEAN /\ blanked' \in BOOLEAN /\ marred' \in BOOLEAN
  BY Zenon DEF Recall, Prefixed
<1>6. ends' \in BOOLEAN /\ (~ends' => Len(line') < LineLen)
  <2>1. ends' = Full(line')
    BY DEF Recall
  <2>2. QED
    BY <2>1, <1>4, FullType, Zenon
<1>7. histIdx' \in -1..level' - 1
  BY DEF Recall
<1>8. QED
  BY <1>4, <1>5, <1>6, <1>7

LEMMA TargetInRange == TypeInv => Target(param = "A") \in -1..level - 1
<1>1. TypeInv => level \in Nat /\ histIdx \in -1..level - 1
  BY LengthAssumption DEF TypeInv, EditType, StackType
<1>2. (param = "A") \in BOOLEAN
  OBVIOUS
<1>3. QED
  BY <1>1, <1>2, TargetType

LEMMA FinishType ==
    ASSUME TypeInv, Finish PROVE TypeInv'
<1> DEFINE t == Trim(line)
<1>1. t \in Text /\ Len(t) <= LineLen
  <2>1. line \in Text /\ Len(line) <= LineLen
    BY DEF TypeInv, EditType
  <2>2. Len(line) \in Nat /\ Len(t) \in Nat /\ Len(t) <= Len(line) /\ t \in Text
    BY <2>1, TrimType DEF Text
  <2>3. QED
    BY <2>1, <2>2, LengthAssumption
<1>2. Fresh /\ lines' = lines + 1 /\ lines < MaxLines
  BY DEF Finish, TypeInv
<1>3. lead' \in 0..LineLen
  <2>1. lead + Len(line) <= LineLen /\ Len(line) \in Nat /\ LeftBlanks(line) \in 0..Len(line)
    BY BlanksType, LengthAssumption DEF Finish, Behind, TypeInv, EditType, StackType, Text
  <2>2. QED
    BY <2>1, LengthAssumption DEF Finish, TypeInv, StackType
<1>4. level' \in 0..Depth /\ hist' \in [Entries -> Text] /\ past' \in Seq(Text)
      /\ \A k \in Entries : Len(hist'[k]) <= LineLen
  <2>1. CASE UNCHANGED stkVars
    BY <2>1 DEF stkVars, TypeInv, StackType
  <2>2. CASE Put(t)
    <3>1. past' \in Seq(Text)
      BY <2>2, <1>1 DEF Put, TypeInv, StackType
    <3>2. CASE UNCHANGED <<hist, level>>
      BY <3>1, <3>2 DEF TypeInv, StackType
    <3>3. CASE hist' = Shifted(t) /\ level' = Least(level + 1, Depth)
      <4>1. level' \in 0..Depth
        BY <3>3, LengthAssumption DEF Least, TypeInv, StackType
      <4>2. \A k \in Entries : k # 0 => k - 1 \in Entries
        BY LengthAssumption DEF Entries
      <4>3. hist' = [k \in Entries |-> IF k = 0 THEN t ELSE hist[k - 1]]
        BY <3>3 DEF Shifted
      <4>4. hist' \in [Entries -> Text] /\ \A k \in Entries : Len(hist'[k]) <= LineLen
        BY <4>2, <4>3, <1>1 DEF TypeInv, StackType
      <4>5. QED
        BY <3>1, <4>1, <4>4
    <3>4. QED
      BY <2>2, <3>2, <3>3 DEF Put
  <2>3. QED
    BY <2>1, <2>2 DEF Finish
<1>5. EditType'
  <2>1. line' = <<>> /\ shown' = <<>> /\ pos' = 0 /\ param' \in Garbage /\ histIdx' = -1
    BY <1>2 DEF Fresh
  <2>2. line' \in Text /\ shown' \in Text /\ Len(line') <= LineLen /\ pos' \in 0..ParamLen + 2
    BY <2>1, EmptyType, LengthAssumption
  <2>3. histIdx' \in -1..level' - 1
    <3>1. level' \in 0..Depth
      BY <1>4, Zenon
    <3>2. \A n \in 0..Depth : -1 \in -1..n - 1
      BY LengthAssumption
    <3>3. QED
      BY <2>1, <3>1, <3>2, Zenon
  <2>4. QED
    BY <2>1, <2>2, <2>3 DEF EditType
<1>6. FlagType'
  BY <1>2, Zenon DEF Finish, Fresh, FlagType, TypeInv
<1>7. StackType'
  BY <1>2, <1>3, <1>4, BoundAssumption DEF StackType, TypeInv
<1>8. (~ends => Len(line) < LineLen)' /\ RoomInv'
  <2>1. Len(line') = 0 /\ pos' = 0
    BY <1>2 DEF Fresh
  <2>2. ~overrun'
    BY DEF Finish
  <2>3. QED
    <3>1. lead' + Len(line') <= LineLen + 1 /\ pos' <= ParamLen + 1
      <4>1. \A a \in 0..LineLen, b \in {0} : a + b <= LineLen + 1 /\ b <= ParamLen + 1
        BY LengthAssumption
      <4>2. QED
        BY <1>3, <2>1, <4>1, Zenon
    <3>2. ~ends' => Len(line') < LineLen
      BY <2>1, LengthAssumption
    <3>3. RoomInv'
      BY <2>2, <3>1, Zenon DEF RoomInv, BufferKept
    <3>4. QED
      BY <3>2, <3>3
<1>9. ~ends'
  BY <1>2 DEF Fresh
<1>10. QED
  BY <1>4, <1>5, <1>6, <1>7, <1>8, <1>9 DEF TypeInv

LEMMA EscNextType ==
    ASSUME TypeInv, NEW ch \in EscKeys, EscNext(ch) PROVE TypeInv'
<1> DEFINE k == Target(param = "A")
           acts == ch \in {"A", "B", "~"} /\ param \in {"A", "B"} /\ noMod
<1> USE DEF TypeInv
<1>1. StackType' /\ UNCHANGED <<lead, level, hist>> /\ lines' < MaxLines
  BY DEF EscNext, Reading, StackType, stkVars
<1>2. pos' = pos + 1 /\ pos \in 1..ParamLen + 1 /\ param' \in Garbage \cup {"["}
  <2>1. esc /\ ~overrun /\ pos > 0
    BY DEF EscNext, Reading
  <2>2. QED
    BY <2>1, LengthAssumption DEF EscNext, EditType, RoomInv, EscKeys, Garbage
<1>3. esc' \in BOOLEAN /\ noMod' \in BOOLEAN /\ overrun' \in BOOLEAN
  BY Zenon DEF EscNext, FlagType
<1>4. /\ line' \in Text /\ Len(line') <= LineLen /\ shown' \in Text
      /\ histIdx' \in -1..level' - 1
  <2>1. CASE acts
    BY <1>1, <2>1, TargetInRange, RecallType DEF EscNext
  <2>2. CASE ~acts
    BY <1>1, <2>2 DEF EscNext, EditType
  <2>3. QED
    BY <2>1, <2>2
<1>5. /\ ends' \in BOOLEAN /\ edited' \in BOOLEAN /\ blanked' \in BOOLEAN
      /\ marred' \in BOOLEAN /\ (~ends' => Len(line') < LineLen)
  <2>1. CASE acts
    <3>1. Recall(k) /\ k \in -1..level - 1
      BY <2>1, TargetInRange DEF EscNext
    <3>2. QED
      BY <1>1, <3>1, RecallType, Zenon
  <2>2. CASE ~acts
    <3>1. UNCHANGED <<line, ends, edited, blanked, marred>>
      BY <2>2 DEF EscNext
    <3>2. QED
      BY <3>1, Zenon DEF FlagType
  <2>3. QED
    BY <2>1, <2>2
<1>6. overrun' <=> \/ ch # "~" /\ pos > ParamLen
                   \/ acts /\ k > -1 /\ lead + Len(hist[k]) > LineLen
  BY DEF EscNext, ParamFull, Behind
<1>7. k > -1 => Len(hist[k]) \in Nat /\ Len(hist[k]) <= LineLen
  <2>1. k > -1 => k \in Entries
    BY TargetInRange, LengthAssumption DEF StackType, Entries
  <2>2. QED
    BY <2>1 DEF StackType, Text
<1>8. RoomInv'
  <2>1. ASSUME ~overrun' PROVE lead' + Len(line') <= LineLen + 1
    <3>1. CASE acts /\ k > -1
      <4>1. line' = hist[k]
        BY <3>1 DEF EscNext, Recall
      <4>2. QED
        BY <1>1, <1>6, <1>7, <2>1, <3>1, <4>1, LengthAssumption DEF StackType
    <3>2. CASE ~(acts /\ k > -1)
      <4>1. line' = line
        BY <3>2 DEF EscNext, Recall
      <4>2. ~overrun
        BY DEF EscNext, Reading
      <4>3. QED
        BY <1>1, <4>1, <4>2 DEF RoomInv
    <3>3. QED
      BY <3>1, <3>2
  <2>2. ASSUME esc', ~overrun' PROVE pos' <= ParamLen + 1
    <3>1. ch # "~"
      BY <2>2 DEF EscNext
    <3>2. QED
      BY <1>2, <1>6, <2>2, <3>1, LengthAssumption
  <2>3. ASSUME overrun' PROVE lead' > 0 \/ pos' > ParamLen
    BY <1>1, <1>2, <1>6, <1>7, <2>3, LengthAssumption DEF StackType
  <2>4. QED
    BY <2>1, <2>2, <2>3 DEF RoomInv, BufferKept
<1>9. EditType'
  BY <1>2, <1>4, LengthAssumption DEF EditType
<1>10. FlagType'
  BY <1>3, <1>5, Zenon DEF FlagType
<1>11. ends' => lines' < MaxLines
  BY <1>1
<1>12. QED
  BY <1>1, <1>5, <1>8, <1>9, <1>10

LEMMA TypeKept == TypeInv /\ [Next]_vars => TypeInv'
<1> SUFFICES ASSUME TypeInv, [Next]_vars PROVE TypeInv'
  OBVIOUS
<1> USE DEF TypeInv
<1>1. ASSUME NEW ch \in Typed, Type(ch) PROVE TypeInv'
  <2>1. line' \in Text /\ Len(line') = Len(line) + 1 /\ Len(line') <= LineLen
        /\ Len(line) \in Nat /\ shown' \in Text
    BY <1>1, EmptyType, LengthAssumption DEF Type, Shows, Reading, EditType, Text
  <2>2. ends' \in BOOLEAN /\ (~ends' => Len(line') < LineLen)
    <3>1. ends' = Full(line')
      BY <1>1 DEF Type
    <3>2. QED
      BY <3>1, <2>1, FullType, Zenon
  <2>3. EditType'
    BY <1>1, <2>1 DEF Type, EditType, stkVars
  <2>4. FlagType'
    <3>1. Behind(Len(line)) \in BOOLEAN
      BY DEF Behind
    <3>2. QED
      BY <1>1, <2>2, <3>1, Zenon DEF Type, FlagType
  <2>5. StackType' /\ UNCHANGED hist /\ lines' < MaxLines
    BY <1>1 DEF Type, Reading, StackType, stkVars
  <2>6. RoomInv'
    <3>1. overrun' <=> lead + Len(line) > LineLen
      BY <1>1 DEF Type, Behind
    <3>2. Len(line) < LineLen /\ ~esc' /\ lead' = lead
      BY <1>1, <2>1 DEF Type, Reading
    <3>3. lead \in 0..LineLen
      BY DEF StackType
    <3>4. QED
      BY <2>1, <3>1, <3>2, <3>3, LengthAssumption DEF RoomInv, BufferKept
  <2>7. QED
    BY <2>2, <2>3, <2>4, <2>5, <2>6
<1>2. ASSUME NEW del \in BOOLEAN, Erase(del) PROVE TypeInv'
  <2>1. line' \in Text /\ Len(line') <= Len(line) /\ shown' \in Text
    BY <1>2, FrontType, EmptyType DEF Erase, Shows, EditType
  <2>2. Len(line') < LineLen /\ UNCHANGED <<ends, lead, esc, pos, overrun>> /\ ~overrun
    BY <1>2, <2>1, LengthAssumption DEF Erase, Reading, EditType, Text
  <2>3. EditType'
    BY <1>2, <2>1, <2>2, LengthAssumption DEF Erase, EditType, stkVars, Text
  <2>4. FlagType'
    BY <1>2, Zenon DEF Erase, FlagType
  <2>5. StackType' /\ UNCHANGED hist /\ lines' < MaxLines
    BY <1>2 DEF Erase, Reading, StackType, stkVars
  <2>6. RoomInv'
    BY <2>1, <2>2, LengthAssumption DEF RoomInv, BufferKept, StackType, EditType, Text
  <2>7. QED
    BY <2>2, <2>3, <2>4, <2>5, <2>6
<1>3. CASE Return
  <2>1. EditType' /\ StackType' /\ UNCHANGED hist /\ lines' < MaxLines /\ ends'
    BY <1>3 DEF Return, Reading, EditType, StackType, stkVars
  <2>2. FlagType'
    BY <1>3, Zenon DEF Return, ParamFull, FlagType
  <2>3. RoomInv'
    BY <1>3 DEF Return, Reading, ParamFull, RoomInv, BufferKept
  <2>4. QED
    BY <2>1, <2>2, <2>3
<1>4. CASE Escape
  <2>1. EditType' /\ StackType' /\ UNCHANGED <<line, hist, ends, lines>>
    BY <1>4, LengthAssumption DEF Escape, EditType, StackType, stkVars
  <2>2. FlagType'
    BY <1>4, Zenon DEF Escape, FlagType
  <2>3. RoomInv'
    BY <1>4, LengthAssumption DEF Escape, Reading, RoomInv, BufferKept
  <2>4. QED
    BY <2>1, <2>2, <2>3
<1>5. ASSUME NEW ch \in EscKeys, EscFirst(ch) PROVE TypeInv'
  <2>1. EditType' /\ StackType' /\ UNCHANGED <<line, hist, ends, lines>>
    BY <1>5, LengthAssumption DEF EscFirst, EditType, StackType, stkVars
  <2>2. FlagType'
    BY <1>5, Zenon DEF EscFirst, FlagType
  <2>3. RoomInv'
    BY <1>5, LengthAssumption DEF EscFirst, Reading, RoomInv, BufferKept
  <2>4. QED
    BY <2>1, <2>2, <2>3
<1>6. ASSUME NEW ch \in EscKeys, EscNext(ch) PROVE TypeInv'
  BY <1>6, EscNextType
<1>7. CASE Finish
  BY <1>7, FinishType
<1>8. CASE Control
  <2>1. EditType' /\ StackType' /\ UNCHANGED <<line, hist, ends, lines>>
    BY <1>8, EmptyType DEF Control, Shows, EditType, StackType, stkVars
  <2>2. FlagType'
    BY <1>8, Zenon DEF Control, FlagType
  <2>3. RoomInv'
    BY <1>8 DEF Control, RoomInv, BufferKept
  <2>4. QED
    BY <2>1, <2>2, <2>3
<1>9. CASE Spill
  <2>1. EditType' /\ StackType' /\ UNCHANGED <<line, hist, ends, lines>> /\ overrun'
    BY <1>9 DEF Spill, editVars, EditType, StackType, stkVars
  <2>2. FlagType'
    BY <1>9, Zenon DEF Spill, editVars, FlagType
  <2>3. lead' > 0
    <3>1. lead' = lead /\ lead + Len(line) > LineLen
      BY <1>9 DEF Spill, Behind
    <3>2. QED
      BY <3>1, LengthAssumption DEF EditType, StackType, Text
  <2>4. RoomInv'
    BY <2>1, <2>3 DEF RoomInv, BufferKept
  <2>5. QED
    BY <2>1, <2>2, <2>4
<1>10. CASE UNCHANGED vars
  <2>1. EditType' /\ StackType' /\ UNCHANGED <<line, hist, ends, lines>>
    BY <1>10 DEF vars, editVars, stkVars, EditType, StackType
  <2>2. FlagType'
    BY <1>10, Zenon DEF vars, editVars, FlagType
  <2>3. RoomInv'
    BY <1>10 DEF vars, editVars, RoomInv, BufferKept
  <2>4. QED
    BY <2>1, <2>2, <2>3
<1>11. QED
  BY <1>1, <1>2, <1>3, <1>4, <1>5, <1>6, <1>7, <1>8, <1>9, <1>10 DEF Next

LEMMA TypeHolds == Spec => []TypeInv
  BY TypeInit, TypeKept, PTL DEF Spec

\* No character of a line lies behind sLineBuf before an overrun, and the index
\* of the history is that of an entry in use: for lines and a history of any
\* length, and any keys.
THEOREM TypeCorrect == Spec => []TypeOK
<1>1. TypeInv => TypeOK
  BY Zenon DEF TypeInv, EditType, FlagType, StackType, RoomInv, TypeOK
<1>2. QED
  BY TypeHolds, <1>1, PTL

\* The buffers are written behind only by a line read after a history command
\* with blanks before it, or by a sequence longer than escParam; the length that
\* get_line compares keeps everything else inside, whatever is recalled.
THEOREM BuffersAreKept == Spec => []BufferKept
<1>1. TypeInv => BufferKept
  BY DEF TypeInv, RoomInv
<1>2. QED
  BY TypeHolds, <1>1, PTL

(***************************************************************************)
(* The history                                                              *)
(***************************************************************************)

\* The empty entry 0 of a stack never used is told apart from every line kept.
HistInv == HistoryExact /\ (past = <<>> => hist[0] = <<>>)

LEMMA PutKeepsHistory ==
    ASSUME TypeInv, HistInv, NEW t \in Text, Put(t) PROVE HistInv'
<1>1. level \in Nat /\ Len(past) \in Nat /\ Depth \in Nat \ {0} /\ past \in Seq(Text)
  BY LengthAssumption DEF TypeInv, StackType
<1>2. past # <<>> => Len(past) > 0 /\ hist[0] = past[1]
  BY <1>1 DEF HistInv, HistoryExact, Least
<1>3. (t \in {<<>>, hist[0]}) <=> (t = <<>> \/ (past # <<>> /\ t = past[1]))
  BY <1>2 DEF HistInv
<1>4. CASE t \in {<<>>, hist[0]}
  BY <1>3, <1>4 DEF Put, HistInv, HistoryExact
<1>5. CASE t \notin {<<>>, hist[0]}
  <2>1. past' = <<t>> \o past /\ hist' = Shifted(t) /\ level' = Least(level + 1, Depth)
    BY <1>3, <1>5 DEF Put
  <2>2. Len(past') = Len(past) + 1 /\ past'[1] = t
        /\ \A k \in 1..Len(past) : past'[k + 1] = past[k]
    BY <2>1, <1>1
  <2>3. level' = Least(Len(past'), Depth)
    BY <1>1, <2>1, <2>2 DEF HistInv, HistoryExact, Least
  <2>4. ASSUME NEW k \in 0..level' - 1 PROVE hist'[k] = past'[k + 1]
    <3>1. k \in Entries /\ k \in 0..Len(past)
      BY <1>1, <2>2, <2>3 DEF Entries, Least
    <3>2. hist'[k] = IF k = 0 THEN t ELSE hist[k - 1]
      BY <2>1, <3>1 DEF Shifted
    <3>3. CASE k = 0
      BY <2>2, <3>2, <3>3
    <3>4. CASE k # 0
      <4>1. k - 1 \in 0..level - 1
        BY <1>1, <2>1, <2>2, <2>3, <3>1, <3>4 DEF HistInv, HistoryExact, Least, Entries
      <4>2. hist[k - 1] = past[k - 1 + 1]
        BY <4>1 DEF HistInv, HistoryExact
      <4>3. k - 1 + 1 = k /\ k \in 1..Len(past)
        BY <3>1, <3>4, <1>1
      <4>4. past'[k + 1] = past[k]
        BY <2>2, <4>3
      <4>5. QED
        BY <3>2, <3>4, <4>2, <4>3, <4>4
    <3>5. QED
      BY <3>3, <3>4
  <2>5. past' # <<>>
    BY <1>1, <2>2
  <2>6. QED
    BY <2>3, <2>4, <2>5 DEF HistInv, HistoryExact
<1>6. QED
  BY <1>4, <1>5

LEMMA OnlyFinishStores ==
    ASSUME [Next]_vars PROVE Finish \/ UNCHANGED stkVars
  BY DEF Next, Type, Erase, Control, Return, Escape, EscFirst, EscNext, Spill, vars

\* Whatever is typed and recalled, the stack holds the newest lines kept, each
\* once in a row, and as many as have room.
THEOREM HistoryIsExact == Spec => []HistoryExact
<1>1. Init => HistInv
  BY LengthAssumption DEF Init, HistInv, HistoryExact, Least, Entries
<1>2. TypeInv /\ HistInv /\ [Next]_vars => HistInv'
  <2> SUFFICES ASSUME TypeInv, HistInv, [Next]_vars PROVE HistInv'
    OBVIOUS
  <2>1. CASE UNCHANGED stkVars
    BY <2>1 DEF stkVars, HistInv, HistoryExact
  <2>2. CASE Finish
    <3>1. Trim(line) \in Text
      BY TrimType DEF TypeInv, EditType
    <3>2. Put(Trim(line)) \/ UNCHANGED stkVars
      BY <2>2 DEF Finish
    <3>3. QED
      BY <2>1, <3>1, <3>2, PutKeepsHistory
  <2>3. QED
    BY <2>1, <2>2, OnlyFinishStores
<1>3. HistInv => HistoryExact
  BY DEF HistInv
<1>4. QED
  BY TypeHolds, <1>1, <1>2, <1>3, PTL DEF Spec

(***************************************************************************)
(* The terminal                                                             *)
(***************************************************************************)

\* Return enters what the terminal shows, unless an arrow has found no entry, or
\* something else was sent to the terminal that stays beside the line.
THEOREM LineIsRight == Spec => []LineRight
<1>1. Init => LineRight
  BY DEF Init, LineRight
<1>2. TypeInv /\ LineRight /\ [Next]_vars => LineRight'
  <2> SUFFICES ASSUME TypeInv, LineRight, [Next]_vars PROVE LineRight'
    OBVIOUS
  <2> USE DEF LineRight
  <2>1. ASSUME NEW ch \in Typed, Type(ch) PROVE LineRight'
    BY <2>1 DEF Type, Shows, stkVars
  <2>2. ASSUME NEW del \in BOOLEAN, Erase(del) PROVE LineRight'
    <3>1. ~marred' => ~marred /\ (del => line = <<>>)
      BY <2>2, Zenon DEF Erase
    <3>2. UNCHANGED blanked /\ edited' = TRUE
      BY <2>2 DEF Erase
    <3>3. ~marred' => line' = Front(line) /\ shown' = IF del THEN shown ELSE Front(shown)
      BY <2>2 DEF Erase, Shows
    <3>4. Front(<<>>) = <<>>
      BY DEF Front
    <3>5. QED
      BY <3>1, <3>2, <3>3, <3>4
  <2>3. CASE Return
    BY <2>3 DEF Return, stkVars
  <2>4. CASE Escape
    BY <2>4 DEF Escape, stkVars
  <2>5. ASSUME NEW ch \in EscKeys, EscFirst(ch) PROVE LineRight'
    BY <2>5 DEF EscFirst, stkVars
  <2>6. ASSUME NEW ch \in EscKeys, EscNext(ch) PROVE LineRight'
    <3>1. UNCHANGED hist
      BY <2>6 DEF EscNext, stkVars
    <3>2. CASE UNCHANGED <<line, histIdx, ends, shown, edited, blanked, marred>>
      BY <3>1, <3>2
    <3>3. ASSUME NEW k \in -1..level - 1, Recall(k) PROVE LineRight'
      <4>1. CASE k # -1
        BY <3>1, <3>3, <4>1 DEF Recall, Shows
      <4>2. CASE k = -1
        <5>1. histIdx' = -1 /\ blanked'
          BY <3>3, <4>2, Zenon DEF Recall
        <5>2. QED
          BY <5>1
      <4>3. QED
        BY <4>1, <4>2
    <3>4. QED
      BY <2>6, <3>2, <3>3, TargetInRange DEF EscNext
  <2>7. CASE Finish
    BY <2>7 DEF Finish, Fresh
  <2>8. CASE Control
    <3>1. marred' /\ UNCHANGED <<line, hist, histIdx, edited>>
      BY <2>8, Zenon DEF Control, stkVars
    <3>2. QED
      BY <3>1
  <2>9. CASE Spill
    BY <2>9 DEF Spill, editVars, stkVars
  <2>10. CASE UNCHANGED vars
    BY <2>10 DEF vars, editVars, stkVars
  <2>11. QED
    BY <2>1, <2>2, <2>3, <2>4, <2>5, <2>6, <2>7, <2>8, <2>9, <2>10 DEF Next
<1>3. QED
  BY TypeHolds, <1>1, <1>2, PTL DEF Spec
=============================================================================
