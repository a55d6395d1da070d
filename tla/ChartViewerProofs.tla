-------------------------- MODULE ChartViewerProofs --------------------------
(***************************************************************************)
(* Proofs about ChartViewer, for samples of any number, any terminal and   *)
(* any sequence of keys.                                                   *)
(***************************************************************************)
EXTENDS ChartViewer, FiniteSetTheorems, WellFoundedInduction, TLAPS

Viewports == [startIdx : Nat, count : Nat, total : Nat]

\* WindowInside, of a viewport over at least one sample
Inside(v) ==
  /\ v \in Viewports
  /\ v.total > 0
  /\ v.startIdx + v.count <= v.total
  /\ Smaller(2, v.total) <= v.count

AtEdge(v) == v.startIdx = 0 \/ v.startIdx + v.count = v.total

-----------------------------------------------------------------------------
LEMMA Halves == \A n \in Nat : n \div 2 \in Nat /\ n - 2 * (n \div 2) \in {0, 1}
OBVIOUS

LEMMA StepPositive ==
  ASSUME NEW v \in Viewports
  PROVE  Step(v) \in Nat /\ Step(v) >= 1
BY DEF Viewports, Step, Larger

\* Left moves left until the window is at the left edge.
LEMMA PanLeftMoves ==
  ASSUME NEW v, Inside(v)
  PROVE  /\ Inside(PanLeft(v))
         /\ PanLeft(v).total = v.total
         /\ PanLeft(v).count = v.count
         /\ PanLeft(v).startIdx < v.startIdx \/ v.startIdx = 0
BY StepPositive DEF Inside, Viewports, PanLeft, Larger

LEMMA PanRightMoves ==
  ASSUME NEW v, Inside(v)
  PROVE  /\ Inside(PanRight(v))
         /\ PanRight(v).total = v.total
         /\ PanRight(v).count = v.count
         /\ PanRight(v).startIdx > v.startIdx \/ v.startIdx + v.count = v.total
BY StepPositive DEF Inside, Viewports, PanRight, Smaller

LEMMA ZoomOutGrows ==
  ASSUME NEW v, Inside(v)
  PROVE  /\ Inside(ZoomOut(v))
         /\ ZoomOut(v).total = v.total
         /\ ZoomOut(v).count > v.count \/ v.count = v.total
         /\ Middle(ZoomOut(v)) - Middle(v) \in -1 .. 1 \/ AtEdge(ZoomOut(v))
<1> DEFINE newCount == Smaller(v.count + Step(v), v.total)
           grown == newCount - v.count
           left == Larger(v.startIdx - grown \div 2, 0)
           start == Larger(IF left + newCount > v.total THEN v.total - newCount ELSE left, 0)
<1>1. /\ newCount \in Nat /\ grown \in Nat /\ newCount = v.count + grown
      /\ newCount <= v.total
      /\ newCount > v.count \/ v.count = v.total
  BY StepPositive DEF Inside, Viewports, Smaller
<1>2. grown \div 2 \in Nat /\ grown - 2 * (grown \div 2) \in {0, 1}
  BY <1>1, Halves
<1>3. ZoomOut(v) = [v EXCEPT !.startIdx = start, !.count = newCount]
  BY DEF Inside, Viewports, ZoomOut, Clamp
<1> HIDE DEF newCount, grown
<1>4. /\ start \in Nat /\ start + newCount <= v.total
      /\ (start = 0 \/ start + newCount = v.total \/ start = v.startIdx - grown \div 2)
  BY <1>1, <1>2 DEF Inside, Viewports, Larger
<1> HIDE DEF start
<1>5. /\ ZoomOut(v) \in Viewports /\ ZoomOut(v).total = v.total
      /\ ZoomOut(v).count = newCount /\ ZoomOut(v).startIdx = start
  BY <1>1, <1>3, <1>4 DEF Inside, Viewports
<1>6. QED
  BY <1>1, <1>2, <1>4, <1>5 DEF Inside, Viewports, Middle, AtEdge, Smaller

LEMMA ZoomInShrinks ==
  ASSUME NEW v, Inside(v)
  PROVE  /\ Inside(ZoomIn(v))
         /\ ZoomIn(v).total = v.total
         /\ ZoomIn(v).count < v.count \/ v.count <= 2
         /\ Middle(ZoomIn(v)) - Middle(v) \in -1 .. 1 \/ AtEdge(ZoomIn(v))
<1> DEFINE newCount == Larger(v.count - Step(v), Smaller(2, v.total))
           shrunk == v.count - newCount
           left == v.startIdx + shrunk \div 2
           start == Larger(IF left + newCount > v.total THEN v.total - newCount ELSE left, 0)
<1>1. /\ newCount \in Nat /\ shrunk \in Nat /\ v.count = newCount + shrunk
      /\ newCount >= Smaller(2, v.total)
      /\ newCount < v.count \/ v.count <= 2
  BY StepPositive DEF Inside, Viewports, Smaller, Larger
<1>2. shrunk \div 2 \in Nat /\ shrunk - 2 * (shrunk \div 2) \in {0, 1}
  BY <1>1, Halves
<1>3. ZoomIn(v) = [v EXCEPT !.startIdx = start, !.count = newCount]
  BY DEF Inside, Viewports, ZoomIn, Clamp
<1> HIDE DEF newCount, shrunk
<1>4. /\ start \in Nat /\ start = v.startIdx + shrunk \div 2 /\ start + newCount <= v.total
  BY <1>1, <1>2 DEF Inside, Viewports, Larger
<1> HIDE DEF start
<1>5. /\ ZoomIn(v) \in Viewports /\ ZoomIn(v).total = v.total
      /\ ZoomIn(v).count = newCount /\ ZoomIn(v).startIdx = start
  BY <1>1, <1>3, <1>4 DEF Inside, Viewports
<1>6. QED
  BY <1>1, <1>2, <1>4, <1>5 DEF Inside, Viewports, Middle, AtEdge

\* What the two bytes after an Esc do, whatever they are
LEMMA MovedInside ==
  ASSUME NEW v, Inside(v), NEW bytes
  PROVE  Inside(Moved(v, bytes)) /\ Moved(v, bytes).total = v.total
BY PanLeftMoves, PanRightMoves, ZoomInShrinks, ZoomOutGrows DEF Moved

LEMMA FourArrows ==
  /\ <<"[", "A">> # <<"[", "B">> /\ <<"[", "A">> # <<"[", "C">> /\ <<"[", "A">> # <<"[", "D">>
  /\ <<"[", "B">> # <<"[", "C">> /\ <<"[", "B">> # <<"[", "D">> /\ <<"[", "C">> # <<"[", "D">>
OBVIOUS

LEMMA MovedByArrow ==
  ASSUME NEW v
  PROVE  /\ Moved(v, <<"[", "A">>) = ZoomIn(v)
         /\ Moved(v, <<"[", "B">>) = ZoomOut(v)
         /\ Moved(v, <<"[", "C">>) = PanRight(v)
         /\ Moved(v, <<"[", "D">>) = PanLeft(v)
BY FourArrows DEF Moved

-----------------------------------------------------------------------------
\* Sorted, the samples are those there were, from the oldest to the newest: the
\* place of a sample, how many do not belong after it, is found once.
LEMMA ByTimeSorts ==
  ASSUME NEW r \in Seq(Record)
  PROVE  /\ ByTime(r) \in Seq(Record) /\ Len(ByTime(r)) = Len(r)
         /\ \A j \in DOMAIN r : \E k \in DOMAIN r : ByTime(r)[k] = r[j]
         /\ \A k, m \in DOMAIN r : k < m => ByTime(r)[k].time <= ByTime(r)[m].time
<1> DEFINE n == Len(r)
           upTo(j) == {i \in DOMAIN r : NotAfter(r, i, j)}
           place == [j \in DOMAIN r |-> Cardinality(upTo(j))]
           from(k) == CHOOSE j \in DOMAIN r : place[j] = k
<1>1. n \in Nat /\ DOMAIN r = 1 .. n /\ \A i \in 1 .. n : r[i] \in Record /\ r[i].time \in Int
  <2>1. n \in Nat /\ DOMAIN r = 1 .. n /\ \A i \in 1 .. n : r[i] \in Record
    OBVIOUS
  <2>2. \A x \in Record : x.time \in Int
    BY DEF Record
  <2>3. QED
    BY <2>1, <2>2
<1> HIDE DEF n
<1>2. IsFiniteSet(1 .. n) /\ Cardinality(1 .. n) = n
  BY <1>1, FS_Interval
<1>3. \A j \in 1 .. n : upTo(j) \in SUBSET (1 .. n) /\ j \in upTo(j)
  BY <1>1 DEF NotAfter
<1> HIDE DEF upTo
<1>4. \A j \in 1 .. n : /\ IsFiniteSet(upTo(j)) /\ Cardinality(upTo(j)) \in Nat
                        /\ Cardinality(upTo(j)) <= n /\ Cardinality(upTo(j)) # 0
  BY <1>2, <1>3, FS_Subset, FS_CardinalityType, FS_EmptySet
<1>5. place \in [1 .. n -> 1 .. n]
  BY <1>1, <1>4
<1>6. ASSUME NEW i \in 1 .. n, NEW j \in 1 .. n, i # j, NotAfter(r, i, j)
      PROVE  place[i] < place[j]
  <2>1. upTo(i) \in SUBSET upTo(j) /\ j \notin upTo(i)
    BY <1>1, <1>6 DEF upTo, NotAfter
  <2>2. upTo(i) # upTo(j)
    BY <1>3, <2>1
  <2>3. Cardinality(upTo(i)) <= Cardinality(upTo(j)) /\ Cardinality(upTo(i)) # Cardinality(upTo(j))
    BY <1>4, <2>1, <2>2, FS_Subset
  <2>4. QED
    BY <1>1, <1>4, <2>3
<1> HIDE DEF place
<1>7. \A i, j \in 1 .. n : NotAfter(r, i, j) \/ NotAfter(r, j, i)
  BY <1>1 DEF NotAfter
<1>8. ASSUME NEW i \in 1 .. n, NEW j \in 1 .. n, place[i] = place[j]
      PROVE  i = j
  <2>1. place[i] \in Nat /\ place[j] \in Nat
    BY <1>5
  <2>2. QED
    BY <1>6, <1>7, <1>8, <2>1
<1>9. place \in Surjection(1 .. n, 1 .. n)
  <2>1. place \in Injection(1 .. n, 1 .. n)
    BY <1>5, <1>8 DEF Injection, IsInjective
  <2>2. QED
    BY <1>2, <2>1, FS_Injection
<1>10. \A k \in 1 .. n : from(k) \in 1 .. n /\ place[from(k)] = k
  BY <1>1, <1>9 DEF Surjection
<1>11. \A j \in 1 .. n : place[j] \in 1 .. n /\ from(place[j]) = j
  BY <1>5, <1>8, <1>10
<1> HIDE DEF from
<1>12. ByTime(r) = [k \in 1 .. n |-> r[from(k)]]
  BY <1>1, Zenon DEF ByTime, place, upTo, from
<1>13. ByTime(r) \in Seq(Record) /\ Len(ByTime(r)) = Len(r)
  BY <1>1, <1>10, <1>12 DEF n
<1>14. \A j \in DOMAIN r : \E k \in DOMAIN r : ByTime(r)[k] = r[j]
  BY <1>1, <1>11, <1>12
<1>15. ASSUME NEW k \in 1 .. n, NEW m \in 1 .. n, k < m
       PROVE  r[from(k)].time <= r[from(m)].time
  <2>1. ~(place[from(m)] < place[from(k)]) /\ from(m) # from(k)
    BY <1>10, <1>15
  <2>2. NotAfter(r, from(k), from(m))
    BY <1>6, <1>7, <1>10, <2>1
  <2>3. QED
    BY <1>1, <1>10, <2>2 DEF NotAfter
<1>16. \A k, m \in DOMAIN r : k < m => ByTime(r)[k].time <= ByTime(r)[m].time
  BY <1>1, <1>12, <1>15
<1>17. QED
  BY <1>13, <1>14, <1>16

-----------------------------------------------------------------------------
\* TypeOK, with what is known of the viewport, which is one over all the samples
ViewInv ==
  /\ TypeOK
  /\ Inside(vp)
  /\ vp.total = Len(records)

LEMMA ViewInit == Init => ViewInv
<1> SUFFICES ASSUME Init PROVE ViewInv
  OBVIOUS
<1>1. records \in Seq(Record) /\ Len(records) \in Nat /\ Len(records) > 0
  <2>1. records \in Seq(Record) /\ records # <<>>
    BY ViewerAssumption DEF Init
  <2>2. \A s \in Seq(Record) : s # <<>> => Len(s) \in Nat /\ Len(s) > 0
    OBVIOUS
  <2>3. QED
    BY <2>1, <2>2
<1>2. vp \in Viewports /\ Inside(vp)
  BY <1>1 DEF Init, Inside, Viewports, Smaller
<1>3. raw \in BOOLEAN /\ closed \in BOOLEAN
  BY Zenon DEF Init
<1>4. pending \in Seq(Bytes)
  BY DEF Init
<1>5. QED
  BY <1>1, <1>2, <1>3, <1>4 DEF Init, ViewInv, TypeOK, Viewports

LEMMA TailsTyped ==
  ASSUME NEW s \in Seq(Bytes)
  PROVE  /\ s # <<>> => Tail(s) \in Seq(Bytes)
         /\ Len(s) >= 2 => Tail(Tail(s)) \in Seq(Bytes)
<1>1. s # <<>> => Tail(s) \in Seq(Bytes) /\ Len(Tail(s)) = Len(s) - 1
  OBVIOUS
<1>2. ASSUME Len(s) >= 2
      PROVE  s # <<>> /\ Tail(s) # <<>>
  <2>1. s # <<>>
    BY <1>2
  <2>2. \A q \in Seq(Bytes) : q = <<>> => Len(q) = 0
    OBVIOUS
  <2>3. Len(s) \in Nat
    OBVIOUS
  <2>4. Tail(s) \in Seq(Bytes) /\ Len(Tail(s)) = Len(s) - 1
    BY <1>1, <2>1
  <2>5. Len(Tail(s)) # 0
    BY <1>2, <2>3, <2>4
  <2>6. QED
    BY <2>1, <2>2, <2>4, <2>5
<1>3. Len(s) >= 2 => Tail(Tail(s)) \in Seq(Bytes)
  BY <1>1, <1>2
<1>4. QED
  BY <1>1, <1>3

LEMMA ViewStep ==
  ASSUME ViewInv, [Next]_vars
  PROVE  ViewInv'
<1> USE DEF ViewInv, TypeOK, viewVars, userVars
<1>1. CASE Start
  <2>1. records' \in Seq(Record) /\ Len(records') = Len(records)
    BY <1>1, ByTimeSorts DEF Start
  <2>2. pc' \in {"draw", "done"} /\ raw' \in BOOLEAN
    BY <1>1, Zenon DEF Start, Return
  <2>3. UNCHANGED <<vp, userVars>>
    BY <1>1 DEF Start
  <2>4. QED
    BY <2>1, <2>2, <2>3 DEF Inside
<1>2. CASE RenderFrame
  <2>1. pc' \in {"read", "done"} /\ raw' \in BOOLEAN
    BY <1>2, Zenon DEF RenderFrame, Return
  <2>2. UNCHANGED <<records, vp, userVars>>
    BY <1>2 DEF RenderFrame
  <2>3. QED
    BY <2>1, <2>2 DEF Inside
<1>3. CASE ReadKey
  <2>1. pending' \in Seq(Bytes)
    BY <1>3, TailsTyped DEF ReadKey
  <2>2. pc' \in {"draw", "escape", "done"} /\ raw' \in BOOLEAN
    BY <1>3 DEF ReadKey, Return
  <2>3. UNCHANGED <<records, vp, tty, closed>>
    BY <1>3 DEF ReadKey
  <2>4. QED
    BY <2>1, <2>2, <2>3 DEF Inside
<1>4. CASE ReadEscapeSeq
  <2>1. pending' \in Seq(Bytes)
    <3>1. CASE Len(pending) >= 2 /\ pending' = Tail(Tail(pending))
      BY <3>1, TailsTyped
    <3>2. CASE pending' = <<>>
      BY <3>2
    <3>3. QED
      BY <1>4, <3>1, <3>2 DEF ReadEscapeSeq
  <2>2. Inside(vp') /\ vp'.total = vp.total
    BY <1>4, MovedInside DEF ReadEscapeSeq
  <2>3. pc' = "draw" /\ UNCHANGED <<records, raw, tty, closed>>
    BY <1>4 DEF ReadEscapeSeq
  <2>4. QED
    BY <2>1, <2>2, <2>3 DEF Inside, Viewports
<1>5. ASSUME NEW key \in Keys, Press(key)
      PROVE  ViewInv'
  <2>1. key \in Seq(Bytes)
    <3>1. {"esc", "[", "A", "B", "C", "D", "q", "x"} = Bytes
      BY DEF Bytes
    <3>2. \A a, b, c \in Bytes : <<a>> \in Seq(Bytes) /\ <<a, b, c>> \in Seq(Bytes)
      OBVIOUS
    <3>3. QED
      BY <3>1, <3>2, Zenon DEF Keys
  <2>2. pending' \in Seq(Bytes)
    BY <1>5, <2>1 DEF Press
  <2>3. QED
    BY <1>5, <2>2 DEF Press, Inside
<1>6. CASE CloseInput
  BY <1>6 DEF CloseInput, Inside
<1>7. ASSUME NEW size \in Terminals, Resize(size)
      PROVE  ViewInv'
  BY <1>7 DEF Resize, Inside
<1>8. CASE Terminated \/ UNCHANGED vars
  BY <1>8 DEF Terminated, vars, Inside
<1>9. QED
  BY <1>1, <1>2, <1>3, <1>4, <1>5, <1>6, <1>7, <1>8 DEF Next, ViewerStep

THEOREM ViewInvariant == Spec => []ViewInv
BY ViewInit, ViewStep, PTL DEF Spec

\* Type correctness of the viewer: the viewport's numbers never go below zero.
THEOREM TypeCorrect == Spec => []TypeOK
<1>1. ViewInv => TypeOK
  BY DEF ViewInv
<1>2. QED
  BY <1>1, ViewInvariant, PTL

\* The slice of samples drawn is never out of range, however many samples there
\* are and whatever keys are pressed.
THEOREM WindowAlwaysInside == Spec => []WindowInside
<1>1. ViewInv => WindowInside
  BY DEF ViewInv, Inside, Viewports, WindowInside
<1>2. QED
  BY <1>1, ViewInvariant, PTL

-----------------------------------------------------------------------------
\* Every arrow key does its work, for windows of any size.
THEOREM ArrowKeysWork == Spec => ArrowKeys
<1> DEFINE bytes == IF pc = "escape" /\ pc' = "draw" /\ Len(pending) >= 2
                    THEN SubSeq(pending, 1, 2) ELSE <<>>
           Works ==
             /\ bytes = <<"[", "D">> => vp'.count = vp.count /\ (vp'.startIdx < vp.startIdx \/ AtLeft)
             /\ bytes = <<"[", "C">> => vp'.count = vp.count /\ (vp'.startIdx > vp.startIdx \/ AtRight)
             /\ bytes = <<"[", "A">> => vp'.count < vp.count \/ vp.count <= 2
             /\ bytes = <<"[", "B">> => vp'.count > vp.count \/ vp.count = vp.total
             /\ bytes \in {<<"[", "A">>, <<"[", "B">>} =>
                  Middle(vp') - Middle(vp) \in -1 .. 1 \/ AtLeft' \/ AtRight'
             /\ vp' # vp =>
                  /\ bytes \in {<<"[", "A">>, <<"[", "B">>} \/ bytes \in {<<"[", "C">>, <<"[", "D">>}
                  /\ vp'.total = vp.total
<1>1. ASSUME ViewInv, [Next]_vars
      PROVE  Works
  <2> USE <1>1 DEF ViewInv
  <2>1. <<>> # <<"[", "A">> /\ <<>> # <<"[", "B">> /\ <<>> # <<"[", "C">> /\ <<>> # <<"[", "D">>
    OBVIOUS
  <2>2. CASE ReadEscapeSeq /\ Len(pending) >= 2
    <3>1. bytes = SubSeq(pending, 1, 2) /\ vp' = Moved(vp, bytes)
      BY <2>2, <1>1 DEF ReadEscapeSeq, TypeOK
    <3> HIDE DEF bytes
    <3>3. vp'.total = vp.total
      BY <3>1, MovedInside
    <3>4. bytes = <<"[", "D">> => vp' = PanLeft(vp)
      BY <3>1, MovedByArrow
    <3>5. bytes = <<"[", "C">> => vp' = PanRight(vp)
      BY <3>1, MovedByArrow
    <3>6. bytes = <<"[", "A">> => vp' = ZoomIn(vp)
      BY <3>1, MovedByArrow
    <3>7. bytes = <<"[", "B">> => vp' = ZoomOut(vp)
      BY <3>1, MovedByArrow
    <3>8. AtEdge(vp') => AtLeft' \/ AtRight'
      BY DEF AtEdge, AtLeft, AtRight
    <3>9. vp' # vp => bytes \in {<<"[", "A">>, <<"[", "B">>, <<"[", "C">>, <<"[", "D">>}
      BY <3>1, Zenon DEF Moved
    <3>10. QED
      BY <3>3, <3>4, <3>5, <3>6, <3>7, <3>8, <3>9, PanLeftMoves, PanRightMoves, ZoomInShrinks,
         ZoomOutGrows DEF AtLeft, AtRight
  <2>3. CASE ~(ReadEscapeSeq /\ Len(pending) >= 2)
    <3>1. vp' = vp
      BY <2>3, <1>1 DEF Next, ViewerStep, Start, RenderFrame, ReadKey, ReadEscapeSeq, Press,
                        CloseInput, Resize, Terminated, viewVars, userVars, vars
    <3>2. ~(pc = "escape" /\ pc' = "draw" /\ Len(pending) >= 2)
      BY <2>3, <1>1 DEF Next, ViewerStep, Start, RenderFrame, ReadKey, Press,
                        CloseInput, Resize, Terminated, viewVars, userVars, vars
    <3>3. bytes = <<>>
      BY <3>2
    <3>4. QED
      BY <2>1, <3>1, <3>3
  <2>4. QED
    BY <2>2, <2>3
<1>2. ViewInv /\ [Next]_vars => [Works]_vars
  BY <1>1
<1>3. QED
  BY <1>2, ViewInvariant, PTL DEF Spec, ArrowKeys

-----------------------------------------------------------------------------
(***************************************************************************)
(* The frame.                                                              *)
(***************************************************************************)
LEMMA MaxOfTwo ==
  ASSUME NEW a \in Int, NEW b \in Int
  PROVE  Max({a, b}) \in {a, b} /\ a <= Max({a, b}) /\ b <= Max({a, b})
<1>1. \E x \in {a, b} : \A y \in {a, b} : x >= y
  OBVIOUS
<1>2. QED
  BY <1>1 DEF Max

LEMMA MaxOfThree ==
  ASSUME NEW a \in Int, NEW b \in Int, NEW c \in Int
  PROVE  Max({a, b, c}) \in {a, b, c}
<1>1. \E x \in {a, b, c} : \A y \in {a, b, c} : x >= y
  OBVIOUS
<1>2. QED
  BY <1>1 DEF Max

LEMMA Smallest ==
  ASSUME NEW S \in SUBSET Nat, S # {}
  PROVE  \E n \in S : \A m \in S : n <= m
<1>1. PICK n \in S : \A m \in S : <<m, n>> \notin OpToRel(<, Nat)
  BY WFMin, NatLessThanWellFounded, Zenon
<1>2. \A m \in S : ~(m < n)
  <2>1. \A m \in S : <<m, n>> \in Nat \X Nat
    OBVIOUS
  <2>2. \A m \in S : m < n => <<m, n>> \in OpToRel(<, Nat)
    BY <2>1, Zenon DEF OpToRel
  <2>3. QED
    BY <1>1, <2>2
<1>3. QED
  BY <1>2

Values == [exp : Nat, carry : {0, 3, 6, 9, 12, NoCarry}, neg : BOOLEAN]

\* As long as values stay below some power of ten, there are a least and a
\* greatest one among any of them.
LEMMA Extremes ==
  ASSUME NEW values \in SUBSET Values, values # {}, NEW b \in Nat, \A v \in values : v.exp <= b
  PROVE  Least(values) \in values /\ Greatest(values) \in values
<1> DEFINE most == 16 * (b + 1)
           above == {most + Rank(v) : v \in values}
           below == {most - Rank(v) : v \in values}
<1>1. \A v \in values : Rank(v) \in Int /\ -most <= Rank(v) /\ Rank(v) <= most
  BY DEF Values, Rank, Magnitude, NoCarry
<1>2. above \in SUBSET Nat /\ above # {} /\ below \in SUBSET Nat /\ below # {}
  BY <1>1
<1>3. \E v \in values : \A w \in values : Rank(v) <= Rank(w)
  <2>1. PICK n \in above : \A m \in above : n <= m
    BY <1>2, Smallest
  <2>2. PICK v \in values : n = most + Rank(v)
    OBVIOUS
  <2>3. \A w \in values : most + Rank(v) <= most + Rank(w)
    BY <2>1, <2>2
  <2>4. QED
    BY <1>1, <2>3
<1>4. \E v \in values : \A w \in values : Rank(w) <= Rank(v)
  <2>1. PICK n \in below : \A m \in below : n <= m
    BY <1>2, Smallest
  <2>2. PICK v \in values : n = most - Rank(v)
    OBVIOUS
  <2>3. \A w \in values : most - Rank(v) <= most - Rank(w)
    BY <2>1, <2>2
  <2>4. QED
    BY <1>1, <2>3
<1>5. QED
  BY <1>3, <1>4 DEF Least, Greatest

\* The scale leaves at most four digits before the point, or five where trillions
\* are not enough.
LEMMA ScaleFits ==
  ASSUME NEW peak \in 0 .. 16
  PROVE  /\ ChooseYLabelScale(peak) \in {0, 3, 6, 9, 12}
         /\ peak <= 15 => peak - ChooseYLabelScale(peak) <= 3
         /\ peak = 16 => ChooseYLabelScale(peak) = 12
<1> DEFINE scales == {scale \in {3, 6, 9, 12} : scale <= peak}
<1>1. CASE peak < 4
  BY <1>1 DEF ChooseYLabelScale
<1>2. CASE peak >= 4
  <2>1. \E x \in scales : \A y \in scales : x >= y
    <3>1. CASE peak < 6
      <4>1. scales = {3}
        BY <1>2, <3>1
      <4>2. QED
        BY <4>1
    <3>2. CASE 6 <= peak /\ peak < 9
      <4>1. scales = {3, 6}
        BY <3>2
      <4>2. QED
        BY <4>1
    <3>3. CASE 9 <= peak /\ peak < 12
      <4>1. scales = {3, 6, 9}
        BY <3>3
      <4>2. QED
        BY <4>1
    <3>4. CASE 12 <= peak
      <4>1. scales = {3, 6, 9, 12}
        BY <3>4
      <4>2. QED
        BY <4>1
    <3>5. QED
      BY <3>1, <3>2, <3>3, <3>4
  <2>2. Max(scales) \in scales /\ \A y \in scales : Max(scales) >= y
    BY <2>1 DEF Max
  <2>3. ChooseYLabelScale(peak) = Max(scales)
    <3>1. ~(peak < 4)
      BY <1>2
    <3>2. QED
      BY <3>1, Zenon DEF ChooseYLabelScale
  <2> DEFINE top == Max(scales)
  <2>4. /\ top \in {3, 6, 9, 12} /\ top <= peak
        /\ \A y \in {3, 6, 9, 12} : y <= peak => y <= top
    BY <2>2
  <2> HIDE DEF top
  <2>5. (peak <= 15 => peak - top <= 3) /\ (peak = 16 => top = 12)
    BY <1>2, <2>4
  <2>6. QED
    BY <2>3, <2>4, <2>5 DEF top
<1>3. QED
  BY <1>1, <1>2

\* A label of a value that is rounded to five digits has eleven characters at most:
\* sign, digits, point, three decimals and suffix.
LEMMA LabelFits ==
  ASSUME NEW v \in Values, NEW scale \in {0, 3, 6, 9, 12}, Rounded(v, scale) - scale <= 4
  PROVE  LabelLength(v, scale) \in 0 .. 11
<1> DEFINE digits == Max({Rounded(v, scale) - scale, 0})
<1>1. Rounded(v, scale) - scale \in Int /\ Rounded(v, scale) - scale <= 4 /\ v.neg \in BOOLEAN
  BY DEF Values, Rounded
<1>2. digits \in 0 .. 4
  <2> DEFINE d == Rounded(v, scale) - scale
  <2>1. d \in Int /\ 0 \in Int /\ d <= 4
    BY <1>1
  <2> HIDE DEF d
  <2>2. Max({d, 0}) \in {d, 0} /\ 0 <= Max({d, 0})
    BY <2>1, MaxOfTwo, Zenon
  <2>3. digits = Max({d, 0})
    BY Zenon DEF d
  <2> HIDE DEF digits
  <2>4. QED
    BY <2>1, <2>2, <2>3
<1> HIDE DEF digits
<1>3. LabelLength(v, scale) = (IF v.neg THEN 1 ELSE 0) + digits + 1 + 1 + 3 + (IF scale > 0 THEN 1 ELSE 0)
  BY DEF LabelLength, digits
<1>4. QED
  BY <1>1, <1>2, <1>3

\* Rounding adds a digit, but not the one that is too many.
LEMMA RoundedFits ==
  ASSUME NEW v \in Values, NEW peak \in 0 .. 16, v.exp <= peak, Rounded(v, 12) <= 16,
         NEW scale \in {0, 3, 6, 9, 12}, peak <= 15 => peak - scale <= 3, peak = 16 => scale = 12
  PROVE  Rounded(v, scale) - scale <= 4
BY DEF Values, Rounded, NoCarry

LEMMA LabelsFit ==
  ASSUME NEW values \in SUBSET Values, values # {}, \A v \in values : Rounded(v, 12) <= 16
  PROVE  YAxisLabelWidth(values) \in 0 .. 11
<1> DEFINE low == Least(values)
           high == Greatest(values)
           peak == Max({low.exp, high.exp})
<1>1. /\ low \in Values /\ high \in Values
      /\ Rounded(low, 12) <= 16 /\ Rounded(high, 12) <= 16
  <2>1. \A v \in values : v.exp <= 16
    BY DEF Values, Rounded
  <2>2. QED
    BY <2>1, Extremes
<1> HIDE DEF low, high
<1>2. low.exp \in 0 .. 16 /\ high.exp \in 0 .. 16
  BY <1>1 DEF Values, Rounded
<1>3. peak \in 0 .. 16 /\ low.exp <= peak /\ high.exp <= peak
  <2> DEFINE l == low.exp
             h == high.exp
  <2>1. l \in 0 .. 16 /\ h \in 0 .. 16 /\ l \in Int /\ h \in Int
    BY <1>2
  <2> HIDE DEF l, h
  <2>2. Max({l, h}) \in {l, h} /\ l <= Max({l, h}) /\ h <= Max({l, h})
    BY <2>1, MaxOfTwo, Zenon
  <2>3. peak = Max({l, h})
    BY Zenon DEF l, h
  <2> HIDE DEF peak
  <2>4. QED
    BY <2>1, <2>2, <2>3 DEF l, h
<1> HIDE DEF peak
<1> DEFINE scale == ChooseYLabelScale(peak)
<1>4. /\ scale \in {0, 3, 6, 9, 12}
      /\ peak <= 15 => peak - scale <= 3
      /\ peak = 16 => scale = 12
  BY <1>3, ScaleFits
<1> HIDE DEF scale
<1>5. LabelLength(low, scale) \in 0 .. 11 /\ LabelLength(high, scale) \in 0 .. 11
  <2>1. Rounded(low, scale) - scale <= 4 /\ Rounded(high, scale) - scale <= 4
    BY <1>1, <1>3, <1>4, RoundedFits
  <2>2. QED
    BY <1>1, <1>4, <2>1, LabelFits
<1>6. YAxisLabelWidth(values) = Max({LabelLength(low, scale), LabelLength(high, scale), 4})
  BY DEF YAxisLabelWidth, Scale, scale, peak, low, high
<1> DEFINE a == LabelLength(low, scale)
           c == LabelLength(high, scale)
<1> HIDE DEF a, c
<1>7. a \in 0 .. 11 /\ c \in 0 .. 11
  BY <1>5 DEF a, c
<1>8. Max({a, c, 4}) \in {a, c, 4}
  BY <1>7, MaxOfThree
<1>9. QED
  BY <1>6, <1>7, <1>8 DEF a, c

LEMMA SliceTyped ==
  ASSUME ViewInv
  PROVE  Slice \in Seq(Record) /\ DOMAIN Slice # {}
<1>1. /\ records \in Seq(Record) /\ vp.startIdx \in Nat /\ vp.count \in Nat \ {0}
      /\ vp.startIdx + vp.count <= Len(records)
  BY DEF ViewInv, TypeOK, Inside, Viewports, Smaller
<1>2. \A s \in Seq(Record), m \in Nat, c \in Nat \ {0} :
        m + c <= Len(s) => SubSeq(s, m + 1, m + c) \in Seq(Record) /\ Len(SubSeq(s, m + 1, m + c)) = c
  OBVIOUS
<1>3. QED
  BY <1>1, <1>2 DEF Slice

\* Whatever part of whatever samples is shown, the frame keeps within the rows of any
\* terminal higher than five of them, and leaves the plot three quarters of the least
\* width on any terminal at least that wide, below 10^17 as printed.
THEOREM FrameAlwaysFits == Spec => []FrameFits
<1>1. ViewInv => FrameFits
  <2> SUFFICES ASSUME ViewInv PROVE FrameFits
    OBVIOUS
  <2> DEFINE values == {Value(Slice[i]) : i \in DOMAIN Slice}
             span == Slice[Len(Slice)].time - Slice[1].time
             canvas == ResolveChartDimensions(tty, tty.width, tty.height - 1)
             plot == Plot(Slice, tty, tty.width, tty.height - 1)
  <2>1. tty.width \in Nat /\ tty.height \in Nat /\ tty # NoTty
    BY ViewerAssumption DEF ViewInv, TypeOK, Tty
  <2>2. /\ plot.width = canvas.width - YAxisLabelWidth(values) - 3 - LabelOverhang(span)
        /\ plot.height = canvas.height - 4
    BY DEF Plot
  <2>3. /\ tty.width > 0 => canvas.width = tty.width
        /\ tty.height > 5 => canvas.height = tty.height - 1
    BY <2>1 DEF ResolveChartDimensions, Override
  <2>4. LabelOverhang(span) \in {3, 4, 6}
    BY DEF LabelOverhang
  <2>5. values \in SUBSET Values /\ values # {}
    <3>1. \A x \in Record : Value(x) \in Values
      BY DEF Record, Value, Values
    <3>2. Slice \in Seq(Record) /\ DOMAIN Slice # {}
      BY SliceTyped
    <3>3. QED
      BY <3>1, <3>2
  <2>6. (\A i \in DOMAIN Slice : Rounded(Slice[i], 12) <= 16) => YAxisLabelWidth(values) \in 0 .. 11
    <3> SUFFICES ASSUME \A i \in DOMAIN Slice : Rounded(Slice[i], 12) <= 16
                 PROVE  YAxisLabelWidth(values) \in 0 .. 11
      OBVIOUS
    <3>1. \A v \in values : Rounded(v, 12) <= 16
      BY DEF Rounded, Value
    <3> HIDE DEF values
    <3>2. QED
      BY <2>5, <3>1, LabelsFit
  <2> HIDE DEF values, span, canvas, plot
  <2>7. tty.height > 5 => plot.height > 0 /\ plot.height + 4 + 1 <= tty.height
    BY <2>1, <2>2, <2>3
  <2>8. tty.width >= MinChartWidth /\ (\A i \in DOMAIN Slice : Rounded(Slice[i], 12) <= 16)
          => 4 * plot.width >= 3 * MinChartWidth
    BY <2>1, <2>2, <2>3, <2>4, <2>6 DEF MinChartWidth
  <2>9. QED
    BY <2>7, <2>8 DEF FrameFits, plot
<1>2. QED
  BY <1>1, ViewInvariant, PTL
=============================================================================
