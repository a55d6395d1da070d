-------------------------------- MODULE Chart --------------------------------
(***************************************************************************)
(* The geometry of a chart (output/chart.go): how much of the canvas is    *)
(* left for the plot.  A record is [time, exp, carry, neg]: a moment in    *)
(* minutes, and a value known by what its label's length depends on: its   *)
(* sign, the power of ten it reaches (0 below ten), and the smallest scale *)
(* under which it is so near the next one that three decimals round it up. *)
(***************************************************************************)
EXTENDS Integers, Sequences, FiniteSets, FiniteSetsExt

DefaultChartHeight == 25
DefaultChartWidth  == 80
MinChartWidth      == 80
MinChartHeight     == 25
MaxChartDimension  == 250

Tty == [width : Nat, height : Nat]
NoTty == [width |-> 0, height |-> 0]         \* stdout is a pipe or a file

NoCarry == 15                                \* under none of the scales

Record == [time : Int, exp : Nat, carry : {0, 3, 6, 9, 12, NoCarry}, neg : BOOLEAN]

\* Record i does not belong after record j; records of one time stay as they are.
NotAfter(records, i, j) ==
  \/ records[i].time < records[j].time
  \/ records[i].time = records[j].time /\ i <= j

\* The records from the oldest to the newest
ByTime(records) ==
  LET place == [j \in DOMAIN records |->
                  Cardinality({i \in DOMAIN records : NotAfter(records, i, j)})]
  IN [k \in DOMAIN records |-> records[CHOOSE j \in DOMAIN records : place[j] = k]]

-----------------------------------------------------------------------------
(***************************************************************************)
(* The labels of the Y axis.                                               *)
(***************************************************************************)

\* yLabelScales walked from the smallest divisor up
ChooseYLabelScaleUp(peak) == IF peak < 4 THEN 0 ELSE 3

\* K, M, G and T by their power of ten; 0 is no scale.  The first of
\* yLabelScales, from the largest down, that the peak reaches.
ChooseYLabelScale(peak) ==
  IF peak < 4 THEN 0 ELSE Max({scale \in {3, 6, 9, 12} : scale <= peak})

\* The power of ten that v has once it is rounded for its label: 9999.9999 is
\* "10000.000", and 9999.8 is "9999.800" but "10.000K".
Rounded(v, scale) == IF v.carry <= scale THEN v.exp + 1 ELSE v.exp

\* len(formatYLabel(v, scale)): sign, digits, point, three decimals, suffix
LabelLength(v, scale) ==
  (IF v.neg THEN 1 ELSE 0) + Max({Rounded(v, scale) - scale, 0}) + 1
    + 1 + 3 + (IF scale > 0 THEN 1 ELSE 0)

\* What is known of |v|, in its order: of two values that reach the same power of
\* ten, the one that rounds up under a smaller scale is the larger.
Magnitude(v) == 16 * (v.exp + 1) - v.carry

Rank(v) == IF v.neg THEN -Magnitude(v) ELSE Magnitude(v)

Value(record) == [exp |-> record.exp, carry |-> record.carry, neg |-> record.neg]

Least(values)    == CHOOSE v \in values : \A w \in values : Rank(v) <= Rank(w)
Greatest(values) == CHOOSE v \in values : \A w \in values : Rank(w) <= Rank(v)

Scale(values) == ChooseYLabelScale(Max({Least(values).exp, Greatest(values).exp}))

YAxisLabelWidth(values) ==
  Max({LabelLength(Least(values), Scale(values)),
       LabelLength(Greatest(values), Scale(values)), 4})

-----------------------------------------------------------------------------
(***************************************************************************)
(* The canvas and what is left of it.                                      *)
(***************************************************************************)
Override(dimension, override) == IF override > 0 THEN override ELSE dimension

\* An override of 0 means the default: the terminal's size, or the built-in one.
ResolveChartDimensions(tty, width, height) ==
  IF tty = NoTty
  THEN [width |-> Override(DefaultChartWidth, width),
        height |-> Override(DefaultChartHeight, height)]
  ELSE [width |-> Override(tty.width, width),
        height |-> Override(Max({tty.height, DefaultChartHeight}), height)]

\* Half the length of the time format that fits the span, rounded up
LabelOverhang(span) == IF span < 60 THEN 4 ELSE IF span < 24 * 60 THEN 3 ELSE 6

\* buildChartOptions: the plot's rows and columns
Plot(records, tty, width, height) ==
  LET values == {Value(records[i]) : i \in DOMAIN records}
      canvas == ResolveChartDimensions(tty, width, height)
      span   == records[Len(records)].time - records[1].time
  IN [width  |-> canvas.width - YAxisLabelWidth(values) - 3 - LabelOverhang(span),
      height |-> canvas.height - 4]
==============================================================================
