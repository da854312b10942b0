------------------------ MODULE ArchitectureEvidence ------------------------
(***************************************************************************)
(* The capacity scans of the architecture probe and what their readers     *)
(* make of them: branch targets (architecture_frontend.h, btb_transitions),*)
(* branch layouts (architecture_btb_layout.h, read_btb_layout) and         *)
(* resource windows (architecture_resources.h, read_resources).  A scan is *)
(* measured point by point in the engine's order on a machine with hidden  *)
(* limits, while its speed may change once for good and single points may  *)
(* be disturbed; the readers see the points only.                          *)
(*                                                                         *)
(* A point's samples are reduced to their median and to whether they are   *)
(* tight.  Times are whole numbers, 100 for one branch in reach of every   *)
(* structure at full speed; ratios and speeds are percentages.             *)
(***************************************************************************)
EXTENDS Integers, Sequences, FiniteSets, FiniteSetsExt, SequencesExt

CONSTANTS
  Counts,       \* branch counts of the scans, ascending
  Strides,      \* spacings, in the order they are measured
  Fillers,      \* filler counts of the resource windows, 0 first
  CountLimits, FootprintLimits, IndexLimits, WindowLimits,   \* hidden limits
  Speeds,       \* percent of the time a step takes after the change
  MaxDisturbed  \* points that stay loose after their retry

VARIABLES
  scan,         \* "btb", "layout" or "window"
  machine,      \* its limits
  speed,        \* now, 100 until it changes
  changed,      \* index of the first point measured wholly after the change
  records,      \* points measured
  disturbed     \* loose points so far

vars == <<scan, machine, speed, changed, records, disturbed>>

None == 0
Unbounded == 1000000
Machines == [count : CountLimits, bytes : FootprintLimits, index : IndexLimits, own : WindowLimits, shared : WindowLimits,
             perDepth : WindowLimits]

(***************************************************************************)
(* The points of a scan in the engine's order.                             *)
(***************************************************************************)
Branch(s, n, o) == [stride |-> s, count |-> n, offset |-> o]
Filled(f, d, n) == [family |-> f, depth |-> d, count |-> n]
C == Len(Counts)
F == Len(Fillers)

\* Both offsets of a count are neighbours, the first alternates with the count.
OffsetAt(i, second) == IF (i % 2 = 0) = second THEN 0 ELSE 32
\* The control's fillers, then the family's; the second depth is measured in reverse.
FilledAt(d, k) == IF k < F THEN Filled("control", d, Fillers[k + 1]) ELSE Filled("family", d, Fillers[k - F + 1])

Length == CASE scan = "btb" -> Len(Strides) * C [] scan = "layout" -> 2 * Len(Strides) * C [] scan = "window" -> 4 * F
PointAt(n) ==
  LET k == n - 1
  IN  CASE scan = "btb"    -> Branch(Strides[k \div C + 1], Counts[(k % C) + 1], 0)
        [] scan = "layout" -> LET i == (k % (2 * C)) \div 2 + 1
                              IN  Branch(Strides[k \div (2 * C) + 1], Counts[i], OffsetAt(i, k % 2 = 1))
        [] scan = "window" -> IF k < 2 * F THEN FilledAt(1, k) ELSE FilledAt(2, 4 * F - 1 - k)

(***************************************************************************)
(* What the machine does at a point.                                       *)
(***************************************************************************)
Slower(p) == {l \in {"count", "bytes", "index"} :
                CASE l = "count" -> p.count > machine.count
                  [] l = "bytes" -> p.count * p.stride > machine.bytes
                  [] l = "index" -> p.offset = 0 /\ p.count > machine.index}
\* Overlap of two anchors is lost beyond the least of the windows the filler fits in.
Window(p) == Min({machine.shared, machine.perDepth \div p.depth} \cup IF p.family = "family" THEN {machine.own} ELSE {})
Time(p) == IF scan = "window" THEN 100 ELSE 100 + 60 * Cardinality(Slower(p))
Ratio(p) == IF scan # "window" THEN 100 ELSE IF p.count > Window(p) THEN 100 ELSE 60

(***************************************************************************)
(* Measuring: a loose batch is measured again as a whole and kept.         *)
(***************************************************************************)
Init ==
  /\ scan \in {"btb", "layout", "window"}
  /\ machine \in {m \in Machines :
       IF scan = "window" THEN m.count = Unbounded /\ m.bytes = Unbounded /\ m.index = Unbounded
       ELSE m.own = Unbounded /\ m.shared = Unbounded /\ m.perDepth = Unbounded /\ (scan = "btb" => m.index = Unbounded)}
  /\ speed = 100 /\ changed = None /\ records = <<>> /\ disturbed = 0

Next1 == PointAt(Len(records) + 1)
More == Len(records) < Length
At(p, s) == (Time(p) * s) \div 100

Tight(p, s, previous) == [point |-> p, median |-> At(p, s), previous |-> previous, tight |-> TRUE, ratio |-> Ratio(p)]

Measure ==
  /\ More
  /\ records' = Append(records, Tight(Next1, speed, <<>>))
  /\ UNCHANGED <<scan, machine, speed, changed, disturbed>>

\* The first batch was loose, the second is not; or it is loose as well and means nothing.
Disturb ==
  /\ More /\ disturbed < MaxDisturbed /\ changed = None
  /\ disturbed' = disturbed + 1
  /\ LET loose == Tight(Next1, speed, <<At(Next1, speed)>>)
     IN  \E r \in {loose} \cup {[loose EXCEPT !.tight = FALSE, !.median = k * @, !.ratio = (k * @) \div 2] : k \in {1, 2}} :
           records' = Append(records, r)
  /\ UNCHANGED <<scan, machine, speed, changed>>

\* One disturbing cause at a time: two that meet in one bracket can pass for a third.
OneCause == disturbed = 0 /\ changed = None /\ (scan = "btb" => machine.bytes = Unbounded)

\* The lasting change: between two points, or within a point, whose first batch it makes loose.

ChangeBetween ==
  /\ More /\ OneCause
  /\ speed' \in Speeds
  /\ changed' = Len(records) + 1
  /\ UNCHANGED <<scan, machine, records, disturbed>>

ChangeWithin ==
  /\ More /\ OneCause
  /\ speed' \in Speeds
  /\ changed' = Len(records) + 2
  /\ records' = Append(records, Tight(Next1, speed', <<At(Next1, speed)>>))
  /\ UNCHANGED <<scan, machine, disturbed>>

Next == Measure \/ Disturb \/ ChangeBetween \/ ChangeWithin

Spec == Init /\ [][Next]_vars

(***************************************************************************)
(* Reading.                                                                *)
(***************************************************************************)
\* No more than 10% between a batch and the one that replaced it.
BatchConsistent(r) ==
  \A i \in DOMAIN r.previous : LET b == {r.previous[i], r.median} IN 10 * Max(b) <= 11 * Min(b)
Stable(r) == r.tight /\ BatchConsistent(r)

\* What was measured at some of the points, in the order of their counts.
Points == {records[i].point : i \in DOMAIN records}
Curve(chosen) ==
  SortSeq(SelectSeq(records, LAMBDA r : r.point \in chosen), LAMBDA a, b : a.point.count < b.point.count)
AllStable(points) == \A i \in DOMAIN points : Stable(points[i])
Medians(points) == {points[i].median : i \in DOMAIN points}
Ratios(points)  == {points[i].ratio : i \in DOMAIN points}
Middle(values) ==
  LET s == SortSeq(values, <)
      n == Len(s)
  IN  IF n % 2 = 1 THEN s[(n + 1) \div 2] ELSE (s[n \div 2] + s[n \div 2 + 1]) \div 2
MiddleTime(points)  == Middle([i \in DOMAIN points |-> points[i].median])
MiddleRatio(points) == Middle([i \in DOMAIN points |-> points[i].ratio])

\* The brackets of a curve where the time steps up by 30% from a plateau of k points, and stays up.
StepsUp(curve, k) ==
  {<<curve[i - 1].point.count, curve[i].point.count>> : i \in {j \in k + 1..Len(curve) - 1 :
     LET before == SubSeq(curve, j - k, j - 1)
         after  == SubSeq(curve, j, j + 1)
     IN  /\ AllStable(before) /\ AllStable(after)
         /\ 100 * Max(Medians(before)) <= 115 * Min(Medians(before))
         /\ 100 * Min(Medians(after)) >= 130 * MiddleTime(before)}}

Spacings(bracket) ==
  {s \in Range(Strides) : bracket \in StepsUp(Curve({p \in Points : p.stride = s}), 3)}
Brackets == {<<Counts[i - 1], Counts[i]>> : i \in DOMAIN Counts \ {1}}

\* Mutant: one spacing is enough.
TransitionsOfAny == {b \in Brackets : Spacings(b) # {}}
BtbTransitions == {b \in Brackets : Cardinality(Spacings(b)) >= 2}

\* A step at both offsets.
LayoutTransitions ==
  {t \in [stride : Range(Strides), bracket : Brackets] : \A o \in {0, 32} :
     t.bracket \in StepsUp(Curve({p \in Points : p.stride = t.stride /\ p.offset = o}), 2)}

\* The brackets where overlap is lost at a depth, abruptly and for good.
Lost(f, d) ==
  LET curve == Curve({p \in Points : p.family = f /\ p.depth = d})
  IN  IF ~Stable(curve[1]) \/ curve[1].ratio >= 78 THEN {}
      ELSE {<<curve[i - 1].point.count, curve[i].point.count>> : i \in {j \in 4..Len(curve) - 1 :
              LET before == SubSeq(curve, j - 3, j - 1)
                  after  == SubSeq(curve, j, j + 1)
              IN  /\ AllStable(before) /\ AllStable(after)
                  /\ Max(Ratios(before)) - Min(Ratios(before)) <= 12
                  /\ Min(Ratios(after)) >= Max({85, MiddleRatio(before) + 15})}}

WindowCandidates(f) == IF Lost(f, 1) = Lost(f, 2) /\ Cardinality(Lost(f, 1)) = 1 THEN Lost(f, 1) ELSE {}

\* The control must still overlap at the next two counts, at both depths.
Controls(upper) ==
  UNION {LET above == SelectSeq(Curve({p \in Points : p.family = "control" /\ p.depth = d}), LAMBDA r : r.point.count >= upper)
         IN  {<<d, i, above[i]>> : i \in 1..Min({2, Len(above)})} : d \in {1, 2}}
OwnWindow(b) ==
  /\ b \in WindowCandidates("family")
  /\ Cardinality(Controls(b[2])) = 4
  /\ \A c \in Controls(b[2]) : Stable(c[3]) /\ c[3].ratio < 80

(***************************************************************************)
(* Properties.                                                             *)
(***************************************************************************)
Holds(b, limit) == b[1] <= limit /\ limit < b[2]
\* The speed changed between the bracket's points at this spacing.
ChangedIn(t) ==
  changed # None /\ changed <= Length /\
    LET p == PointAt(changed) IN p.stride = t.stride /\ p.count = t.bracket[2]

\* A capacity that is reported is the machine's own: a transition reported for branch targets
\* brackets the limit on targets and neither a footprint nor a change of speed; a layout
\* transition brackets a limit both offsets have, or the change of speed; a window reported for a
\* family brackets the family's own limit, not one it shares with its control or one that scales
\* with the depth (btb_transitions, read_btb_layout, window_candidate, read_resources).
KneeIsItsCause ==
  ~More =>
    CASE scan = "btb"    -> \A b \in BtbTransitions : Holds(b, machine.count)
      [] scan = "layout" -> \A t \in LayoutTransitions :
           \/ Holds(t.bracket, machine.count) \/ Holds(t.bracket, machine.bytes \div t.stride)
           \/ ChangedIn(t)
      [] scan = "window" -> \A b \in Brackets \cup {<<Fillers[i - 1], Fillers[i]>> : i \in DOMAIN Fillers \ {1}} :
           OwnWindow(b) => Holds(b, machine.own) /\ b[2] <= machine.shared
=============================================================================
