------------------------ MODULE BlockRangeScanProofs ------------------------
(***************************************************************************)
(* Theorems about BlockRangeScan for every range, limit and index.         *)
(***************************************************************************)
EXTENDS BlockRangeScan, SequenceTheorems, TLAPS

-----------------------------------------------------------------------------
(* Sequences of windows that tile a range *)

\* One nonempty window tiles itself.
LEMMA SpansOne ==
  ASSUME NEW w \in Window, w.start <= w.end
  PROVE  <<w>> \in Seq(Window) /\ Spans(<<w>>, w.start, w.end + 1)
BY DEF Spans, Window

\* The bounds of the windows of a sequence are numbers.
LEMMA WindowBounds ==
  ASSUME NEW ws \in Seq(Window)
  PROVE  \A i \in 1..Len(ws) : ws[i].start \in Int /\ ws[i].end \in Int
<1>1. \A i \in 1..Len(ws) : ws[i] \in Window
  BY ElementOfSeq
<1> QED BY <1>1 DEF Window

\* Every window of a tiling lies within the range.
LEMMA SpansWithin ==
  ASSUME NEW ws \in Seq(Window), NEW s \in Int, NEW e \in Int, Spans(ws, s, e),
         NEW i \in 1..Len(ws)
  PROVE  s <= ws[i].start /\ ws[i].start <= ws[i].end /\ ws[i].end < e
<1>1. Len(ws) \in Nat \ {0} /\ ws # <<>>
  <2>1. Len(ws) \in Nat
    BY LenProperties
  <2> QED BY <2>1, EmptySeq
<1>2. \A j \in 1..Len(ws) : ws[j].start \in Int /\ ws[j].end \in Int
  BY WindowBounds
<1>3. 1 \in 1..Len(ws) /\ Len(ws) \in 1..Len(ws)
  BY <1>1
<1>4. ws[1].start = s /\ ws[Len(ws)].end + 1 = e
  BY <1>1 DEF Spans
<1>5. \A j \in 1..Len(ws) : ws[j].start <= ws[j].end
  BY <1>1 DEF Spans
<1>6. \A j, k \in 1..Len(ws) : j < k => ws[j].end < ws[k].start
  BY <1>1 DEF Spans
<1>7. i = 1 \/ 1 < i
  BY <1>1
<1>8. i = Len(ws) \/ i < Len(ws)
  BY <1>1
<1> QED BY <1>1, <1>2, <1>3, <1>4, <1>5, <1>6, <1>7, <1>8

\* Tilings of adjacent ranges concatenate.
LEMMA SpansConcat ==
  ASSUME NEW a \in Seq(Window), NEW b \in Seq(Window),
         NEW s \in Int, NEW m \in Int, NEW e \in Int,
         Spans(a, s, m), Spans(b, m, e)
  PROVE  a \o b \in Seq(Window) /\ Spans(a \o b, s, e)
<1> DEFINE c == a \o b
<1>1. CASE a = <<>>
  BY <1>1, ConcatEmptySeq DEF Spans
<1>2. CASE b = <<>>
  BY <1>2, ConcatEmptySeq DEF Spans
<1>3. CASE a # <<>> /\ b # <<>>
  <2>1. /\ c \in Seq(Window) /\ Len(c) = Len(a) + Len(b)
        /\ \A i \in 1..(Len(a) + Len(b)) : c[i] = IF i <= Len(a) THEN a[i] ELSE b[i - Len(a)]
    BY ConcatProperties
  <2> HIDE DEF c
  <2>2. Len(a) \in Nat \ {0} /\ Len(b) \in Nat \ {0}
    BY <1>3, EmptySeq
  <2>3. c # <<>>
    BY <2>1, <2>2, EmptySeq
  <2>4. /\ \A i \in 1..Len(a) : a[i].start \in Int /\ a[i].end \in Int
        /\ \A i \in 1..Len(b) : b[i].start \in Int /\ b[i].end \in Int
    BY WindowBounds
  <2>5. \A i \in 1..Len(a) : i \in 1..Len(c) /\ c[i] = a[i] /\ c[i].end < m
    BY <2>1, <2>2, SpansWithin
  <2>6. \A i \in 1..Len(c) : i > Len(a) =>
          /\ i - Len(a) \in 1..Len(b) /\ c[i] = b[i - Len(a)] /\ m <= c[i].start
    BY <2>1, <2>2, SpansWithin
  <2>7. c[1].start = s
    BY <1>3, <2>2, <2>5 DEF Spans
  <2>8. c[Len(c)].end + 1 = e
    <3>1. Len(c) \in 1..Len(c) /\ Len(c) > Len(a) /\ Len(c) - Len(a) = Len(b)
      BY <2>1, <2>2
    <3> QED BY <1>3, <2>6, <3>1 DEF Spans
  <2>9. \A i \in 1..Len(c) : c[i].start <= c[i].end
    <3> TAKE i \in 1..Len(c)
    <3>1. CASE i \in 1..Len(a)
      BY <1>3, <2>5, <3>1 DEF Spans
    <3>2. CASE i > Len(a)
      BY <1>3, <2>6, <3>2 DEF Spans
    <3> QED BY <2>1, <2>2, <3>1, <3>2
  <2>10. \A i, j \in 1..Len(c) : i < j => c[i].end < c[j].start
    <3> SUFFICES ASSUME NEW i \in 1..Len(c), NEW j \in 1..Len(c), i < j
                 PROVE  c[i].end < c[j].start
      OBVIOUS
    <3>1. CASE i \in 1..Len(a) /\ j \in 1..Len(a)
      BY <1>3, <2>5, <3>1 DEF Spans
    <3>2. CASE i \in 1..Len(a) /\ j > Len(a)
      <4>1. c[i].end \in Int /\ c[j].start \in Int
        BY <2>4, <2>5, <2>6, <3>2
      <4> QED BY <2>5, <2>6, <3>2, <4>1
    <3>3. CASE i > Len(a) /\ j > Len(a)
      <4>1. i - Len(a) < j - Len(a)
        BY <2>2, <3>3
      <4> QED BY <1>3, <2>6, <3>3, <4>1 DEF Spans
    <3> QED BY <2>1, <2>2, <3>1, <3>2, <3>3
  <2>11. \A i \in 1..(Len(c) - 1) : c[i + 1].start = c[i].end + 1
    <3> TAKE i \in 1..(Len(c) - 1)
    <3>1. CASE i < Len(a)
      <4>1. i \in 1..(Len(a) - 1) /\ i \in 1..Len(a) /\ i + 1 \in 1..Len(a)
        BY <2>2, <3>1
      <4> QED BY <1>3, <2>5, <4>1 DEF Spans
    <3>2. CASE i = Len(a)
      <4>1. /\ i \in 1..Len(a) /\ i + 1 \in 1..Len(c) /\ i + 1 > Len(a)
            /\ (i + 1) - Len(a) = 1
        BY <2>1, <2>2, <3>2
      <4>2. c[i] = a[Len(a)] /\ c[i + 1] = b[1]
        BY <2>5, <2>6, <3>2, <4>1
      <4> QED BY <1>3, <4>2 DEF Spans
    <3>3. CASE i > Len(a)
      <4>1. /\ i \in 1..Len(c) /\ i + 1 \in 1..Len(c) /\ i + 1 > Len(a)
            /\ (i + 1) - Len(a) = (i - Len(a)) + 1
            /\ i - Len(a) \in 1..(Len(b) - 1)
        BY <2>1, <2>2, <3>3
      <4>2. c[i] = b[i - Len(a)] /\ c[i + 1] = b[(i - Len(a)) + 1]
        BY <2>6, <3>3, <4>1
      <4> QED BY <1>3, <4>1, <4>2 DEF Spans
    <3> QED BY <2>1, <2>2, <3>1, <3>2, <3>3
  <2> QED BY <2>1, <2>3, <2>7, <2>8, <2>9, <2>10, <2>11 DEF Spans, c
<1> QED BY <1>1, <1>2, <1>3

\* The first window of a tiling starts it, and the others tile the rest.
LEMMA SpansTail ==
  ASSUME NEW ws \in Seq(Window), ws # <<>>, NEW s \in Int, NEW e \in Int, Spans(ws, s, e)
  PROVE  /\ Head(ws) \in Window /\ Head(ws).start = s /\ Head(ws).start <= Head(ws).end
         /\ Head(ws).end < e
         /\ Tail(ws) \in Seq(Window) /\ Spans(Tail(ws), Head(ws).end + 1, e)
<1> DEFINE t == Tail(ws)
<1>1. /\ Head(ws) \in Window
      /\ t \in Seq(Window) /\ Len(t) = Len(ws) - 1
      /\ \A i \in 1..Len(t) : t[i] = ws[i + 1]
  BY HeadTailProperties
<1>2. Len(ws) \in Nat \ {0} /\ Head(ws) = ws[1]
  BY EmptySeq
<1>3. Head(ws).start = s /\ Head(ws).start <= Head(ws).end /\ Head(ws).end < e
  BY <1>2, SpansWithin DEF Spans
<1> HIDE DEF t
<1>4. CASE Len(t) = 0
  <2>1. t = <<>>
    BY <1>1, <1>4, EmptySeq
  <2>2. Len(ws) = 1
    BY <1>1, <1>2, <1>4
  <2> QED BY <1>1, <1>2, <1>3, <2>1, <2>2 DEF Spans, t
<1>5. CASE Len(t) # 0
  <2>1. Len(t) \in Nat \ {0} /\ t # <<>>
    BY <1>1, <1>2, <1>5, EmptySeq
  <2>2. t[1] = ws[2] /\ t[Len(t)] = ws[Len(ws)]
    BY <1>1, <1>2, <2>1
  <2>3. t[1].start = Head(ws).end + 1 /\ t[Len(t)].end + 1 = e
    BY <1>1, <1>2, <2>1, <2>2 DEF Spans
  <2>4. \A i \in 1..Len(t) : t[i].start <= t[i].end
    BY <1>1, <1>2, <2>1 DEF Spans
  <2>5. \A i, j \in 1..Len(t) : i < j => t[i].end < t[j].start
    <3> TAKE i, j \in 1..Len(t)
    <3>1. i + 1 \in 1..Len(ws) /\ j + 1 \in 1..Len(ws) /\ (i < j => i + 1 < j + 1)
      BY <1>1, <1>2, <2>1
    <3> QED BY <1>1, <3>1 DEF Spans
  <2>6. \A i \in 1..(Len(t) - 1) : t[i + 1].start = t[i].end + 1
    BY <1>1, <1>2, <2>1 DEF Spans
  <2> QED BY <1>1, <1>3, <2>1, <2>3, <2>4, <2>5, <2>6 DEF Spans, t
<1> QED BY <1>1, <1>2, <1>4, <1>5

-----------------------------------------------------------------------------
(* The scan *)

\* The first block that neither a completed window nor the one in hand covers.
Front == IF window = None THEN NextBlock ELSE window.end + 1

\* The strengthening of LedgerTilesRange: it splits the ledger at the window in
\* hand, which every action of the scan moves, splits or completes.
LedgerInv ==
  /\ pending \in Seq(Window)
  /\ completed \in Seq(Window)
  /\ window \in Window \cup {None}
  /\ NextBlock \in Int
  /\ Spans(completed, StartBlock, NextBlock)
  /\ Spans(pending, Front, EndBlock + 1)
  /\ window # None => window.start = NextBlock /\ window.start <= window.end
  /\ status \in {"scanning", "returned"} => window = None
  /\ status \in {"fetching", "delivering"} => window # None

\* The two halves of a window of several blocks tile it.
LEMMA SplitWindowSpans ==
  ASSUME NEW w \in Window, w.start <= w.end, w.start # w.end
  PROVE  SplitWindow(w) \in Seq(Window) /\ Spans(SplitWindow(w), w.start, w.end + 1)
<1> DEFINE m == (w.start + w.end) \div 2
           l == [start |-> w.start, end |-> m]
           r == [start |-> m + 1, end |-> w.end]
<1>1. w.start \in Int /\ w.end \in Int
  BY DEF Window
<1>2. m \in Int /\ w.start <= m /\ m < w.end
  BY <1>1
<1> HIDE DEF m
<1>3. l \in Window /\ r \in Window
  BY <1>1, <1>2 DEF Window
<1>4. SplitWindow(w) = <<l, r>>
  BY DEF SplitWindow, m
<1>5. <<l, r>> \in Seq(Window) /\ Spans(<<l, r>>, w.start, w.end + 1)
  BY <1>1, <1>2, <1>3 DEF Spans
<1> QED BY <1>4, <1>5

\* One window stands for the whole range at first.
LEMMA LedgerInvInit == Init => LedgerInv
<1> SUFFICES ASSUME Init PROVE LedgerInv
  OBVIOUS
<1> DEFINE w == [start |-> StartBlock, end |-> EndBlock]
<1>1. w \in Window /\ w.start <= w.end
  BY RangeAssumption DEF Window
<1>2. <<w>> \in Seq(Window) /\ Spans(<<w>>, w.start, w.end + 1)
  BY <1>1, SpansOne
<1>3. pending = <<w>> /\ completed = <<>> /\ window = None /\ status = "scanning"
  BY DEF Init
<1>4. NextBlock = StartBlock /\ Front = StartBlock
  BY <1>3 DEF NextBlock, Front
<1>5. Spans(completed, StartBlock, NextBlock)
  BY <1>3, <1>4 DEF Spans
<1> QED BY <1>1, <1>2, <1>3, <1>4, <1>5, RangeAssumption DEF LedgerInv

\* A step that leaves the ledger alone and stays in its phase keeps LedgerInv.
LEMMA LedgerFrame ==
  ASSUME LedgerInv, pending' = pending, completed' = completed, window' = window,
         \/ status' = status
         \/ status' = "delivering" /\ status = "fetching"
         \/ status' = "returned" /\ status = "scanning"
         \/ status' \notin {"scanning", "returned", "fetching", "delivering"}
  PROVE  LedgerInv' /\ NextBlock' = NextBlock
BY DEF LedgerInv, NextBlock, Front, Spans

\* Completing the window in hand moves it behind the completed ones.
LEMMA LedgerComplete ==
  ASSUME LedgerInv, window # None, Complete, pending' = pending
  PROVE  LedgerInv' /\ NextBlock' \in (NextBlock + 1)..(EndBlock + 1)
<1>1. /\ window \in Window /\ window.start = NextBlock /\ window.start <= window.end
      /\ window.start \in Int /\ window.end \in Int
  BY DEF LedgerInv, Window
<1>2. completed \in Seq(Window) /\ NextBlock \in Int /\ Spans(completed, StartBlock, NextBlock)
  BY DEF LedgerInv
<1>3. <<window>> \in Seq(Window) /\ Spans(<<window>>, NextBlock, window.end + 1)
  BY <1>1, SpansOne
<1>4. completed \o <<window>> \in Seq(Window) /\ Spans(completed \o <<window>>, StartBlock, window.end + 1)
  <2> DEFINE w == <<window>>
             e == window.end + 1
  <2>1. w \in Seq(Window) /\ Spans(w, NextBlock, e) /\ e \in Int /\ StartBlock \in Int
    BY <1>1, <1>3, RangeAssumption
  <2> HIDE DEF w, e
  <2>2. completed \o w \in Seq(Window) /\ Spans(completed \o w, StartBlock, e)
    BY <1>2, <2>1, SpansConcat
  <2> QED BY <2>2 DEF w, e
<1>5. completed' = completed \o <<window>> /\ window' = None /\ status' = "scanning"
  BY <1>1, <1>2 DEF Complete
<1>6. completed' # <<>> /\ completed'[Len(completed')] = window
  BY <1>1, <1>2 DEF Complete
<1>7. NextBlock' = window.end + 1 /\ Front' = window.end + 1
  BY <1>5, <1>6 DEF NextBlock, Front
<1>8. Front = window.end + 1 /\ pending \in Seq(Window) /\ Spans(pending, window.end + 1, EndBlock + 1)
  BY <1>1, ScanAssumption DEF LedgerInv, Front
<1>9. window.end + 1 <= EndBlock + 1
  <2>1. CASE pending = <<>>
    BY <1>1, <1>8, <2>1, RangeAssumption DEF Spans
  <2>2. CASE pending # <<>>
    <3>1. /\ Head(pending).start = window.end + 1 /\ Head(pending).start <= Head(pending).end
          /\ Head(pending).end < EndBlock + 1 /\ Head(pending) \in Window
      BY <1>1, <1>8, <2>2, SpansTail, RangeAssumption
    <3>2. Head(pending).start \in Int /\ Head(pending).end \in Int
      BY <3>1 DEF Window
    <3> QED BY <1>1, <3>1, <3>2, RangeAssumption
  <2> QED BY <2>1, <2>2
<1>10. Spans(completed', StartBlock, NextBlock') /\ Spans(pending', Front', EndBlock + 1)
  BY <1>4, <1>5, <1>7, <1>8
<1>11. completed' \in Seq(Window) /\ pending' \in Seq(Window)
  BY <1>4, <1>5, <1>8
<1>12. LedgerInv'
  BY <1>1, <1>5, <1>7, <1>10, <1>11 DEF LedgerInv
<1> QED BY <1>1, <1>7, <1>9, <1>12, RangeAssumption

\* Asking for a window takes it off the stack.
LEMMA LedgerRequest ==
  ASSUME LedgerInv, Request
  PROVE  LedgerInv' /\ NextBlock' = NextBlock
<1>1. /\ pending # <<>> /\ window' = Head(pending) /\ pending' = Tail(pending)
      /\ completed' = completed /\ status' = "fetching" /\ window = None
  BY DEF Request, LedgerInv
<1>2. NextBlock \in Int /\ pending \in Seq(Window) /\ Spans(pending, NextBlock, EndBlock + 1)
  BY <1>1 DEF LedgerInv, Front
<1>3. /\ window' \in Window /\ window'.start = NextBlock /\ window'.start <= window'.end
      /\ pending' \in Seq(Window) /\ Spans(pending', window'.end + 1, EndBlock + 1)
  BY <1>1, <1>2, SpansTail, RangeAssumption
<1>4. NextBlock' = NextBlock /\ window' # None
  BY <1>1, <1>3, ScanAssumption DEF NextBlock
<1>5. Front' = window'.end + 1
  BY <1>4 DEF Front
<1>6. completed \in Seq(Window) /\ Spans(completed, StartBlock, NextBlock)
  BY DEF LedgerInv
<1> QED BY <1>1, <1>2, <1>3, <1>4, <1>5, <1>6 DEF LedgerInv

\* Splitting a window puts its two halves in its place.
LEMMA LedgerSplit ==
  ASSUME LedgerInv, NEW p \in Providers, SplitOrStall(p)
  PROVE  LedgerInv' /\ NextBlock' = NextBlock
<1>1. CASE window.start = window.end
  BY <1>1, LedgerFrame DEF SplitOrStall
<1>2. CASE window.start # window.end
  <2>1. /\ window' = None /\ status' = "scanning" /\ completed' = completed
        /\ pending' = SplitWindow(window) \o pending
    BY <1>2 DEF SplitOrStall, Requeue
  <2>2. /\ window \in Window /\ window.start = NextBlock /\ window.start <= window.end
        /\ window.start \in Int /\ window.end \in Int /\ window # None
    BY DEF LedgerInv, SplitOrStall, Window
  <2>3. pending \in Seq(Window) /\ Spans(pending, window.end + 1, EndBlock + 1)
    BY <2>2 DEF LedgerInv, Front
  <2>4. SplitWindow(window) \in Seq(Window) /\ Spans(SplitWindow(window), window.start, window.end + 1)
    BY <1>2, <2>2, SplitWindowSpans
  <2>5. pending' \in Seq(Window) /\ Spans(pending', NextBlock, EndBlock + 1)
    BY <2>1, <2>2, <2>3, <2>4, SpansConcat, RangeAssumption
  <2>6. NextBlock' = NextBlock /\ Front' = NextBlock
    BY <2>1 DEF NextBlock, Front
  <2>7. NextBlock \in Int /\ completed \in Seq(Window) /\ Spans(completed, StartBlock, NextBlock)
    BY DEF LedgerInv
  <2> QED BY <2>1, <2>5, <2>6, <2>7 DEF LedgerInv
<1> QED BY <1>1, <1>2

\* Every step keeps the ledger, and moves the covered prefix forward or not at
\* all.
LEMMA LedgerStep ==
  ASSUME LedgerInv, [Next]_vars
  PROVE  /\ LedgerInv'
         /\ \/ NextBlock' = NextBlock
            \/ /\ status \in {"fetching", "delivering"} /\ status' = "scanning"
               /\ NextBlock' \in (NextBlock + 1)..(EndBlock + 1)
<1> DEFINE G == /\ LedgerInv'
                /\ \/ NextBlock' = NextBlock
                   \/ /\ status \in {"fetching", "delivering"} /\ status' = "scanning"
                      /\ NextBlock' \in (NextBlock + 1)..(EndBlock + 1)
<1>1. CASE Abort \/ ExceedWindows \/ RequestFails \/ CallbackRejects \/ Finish
  BY <1>1, LedgerFrame DEF Abort, ExceedWindows, RequestFails, CallbackRejects, Finish, Fail
<1>2. CASE Request
  BY <1>2, LedgerRequest
<1>3. ASSUME NEW p \in Providers, SplitOrStall(p) PROVE G
  BY <1>3, LedgerSplit
<1>4. ASSUME NEW p \in Providers, RejectItems(p) PROVE G
  BY <1>4, LedgerFrame DEF RejectItems
<1>5. ASSUME NEW p \in Providers, Collect(p) PROVE G
  <2>1. status = "fetching" /\ pending' = pending /\ window # None
    BY <1>5 DEF Collect, LedgerInv
  <2>2. CASE Complete
    <3>1. status' = "scanning"
      BY <2>2 DEF Complete
    <3> QED BY <2>1, <2>2, <3>1, LedgerComplete
  <2>3. CASE /\ status' \in {"RANGE_RESULT_TOO_LARGE", "delivering"}
             /\ UNCHANGED <<completed, window>>
    BY <2>1, <2>3, LedgerFrame
  <2> QED BY <1>5, <2>2, <2>3 DEF Collect
<1>6. CASE CallbackDone
  <2>1. /\ status = "delivering" /\ pending' = pending /\ window # None
        /\ Complete /\ status' = "scanning"
    BY <1>6 DEF CallbackDone, LedgerInv, Complete
  <2> QED BY <2>1, LedgerComplete
<1>7. CASE UNCHANGED vars
  BY <1>7, LedgerFrame DEF vars
<1> QED BY <1>1, <1>2, <1>3, <1>4, <1>5, <1>6, <1>7 DEF Next, Progress

\* The stack and the delivered prefix account for the range, always.
LEMMA LedgerInvariant == Spec => []LedgerInv
<1>1. Init => LedgerInv
  BY LedgerInvInit
<1>2. LedgerInv /\ [Next]_vars => LedgerInv'
  BY LedgerStep
<1> QED BY <1>1, <1>2, PTL DEF Spec

\* At every instant the completed windows, the one in hand and the pending ones
\* tile the requested range: however often windows are split, no block is
\* skipped or fetched into two completed windows.
THEOREM LedgerAlwaysTiles == Spec => []LedgerTilesRange
<1>1. LedgerInv => LedgerTilesRange
  <2> SUFFICES ASSUME LedgerInv PROVE LedgerTilesRange
    OBVIOUS
  <2> DEFINE w == IF window = None THEN <<>> ELSE <<window>>
  <2>1. w \in Seq(Window) /\ Spans(w, NextBlock, Front) /\ Front \in Int
    <3>1. CASE window = None
      BY <3>1 DEF LedgerInv, Front, Spans
    <3>2. CASE window # None
      <4>1. window \in Window /\ window.start = NextBlock /\ window.start <= window.end
        BY <3>2 DEF LedgerInv
      <4>2. window.end + 1 \in Int
        BY <4>1 DEF Window
      <4> QED BY <3>2, <4>1, <4>2, SpansOne DEF Front
    <3> QED BY <3>1, <3>2
  <2> HIDE DEF w
  <2>2. /\ completed \in Seq(Window) /\ pending \in Seq(Window) /\ NextBlock \in Int
        /\ StartBlock \in Int /\ EndBlock + 1 \in Int
        /\ Spans(completed, StartBlock, NextBlock) /\ Spans(pending, Front, EndBlock + 1)
    BY RangeAssumption DEF LedgerInv
  <2>3. w \o pending \in Seq(Window) /\ Spans(w \o pending, NextBlock, EndBlock + 1)
    BY <2>1, <2>2, SpansConcat
  <2>4. Spans(completed \o (w \o pending), StartBlock, EndBlock + 1)
    BY <2>2, <2>3, SpansConcat
  <2>5. (completed \o w) \o pending = completed \o (w \o pending)
    BY <2>1, <2>2, ConcatAssociative
  <2>6. Ledger = (completed \o w) \o pending
    BY DEF Ledger, w
  <2> QED BY <2>4, <2>5, <2>6 DEF LedgerTilesRange
<1> QED BY <1>1, LedgerInvariant, PTL

\* A scan implements the abstract coverage: it completes the range in ascending
\* order, returns only when nothing is left, and a failure at any point leaves
\* exactly the prefix before the first window it did not complete.
THEOREM ScanImplementsCoverage == Spec => ImplementsCoverage
<1> DEFINE outcome == IF status = "returned" THEN "returned"
                      ELSE IF status \in Failures THEN "failed" ELSE "running"
<1>1. Init => Coverage!Init
  BY DEF Init, Coverage!Init, NextBlock, Failures
<1>2. LedgerInv /\ [Next]_vars => [Coverage!Next]_<<NextBlock, outcome>>
  <2> SUFFICES ASSUME LedgerInv, [Next]_vars
               PROVE  [Coverage!Next]_<<NextBlock, outcome>>
    OBVIOUS
  <2>1. CASE NextBlock' # NextBlock
    <3>1. /\ status \in {"fetching", "delivering"} /\ status' = "scanning"
          /\ NextBlock' \in (NextBlock + 1)..(EndBlock + 1)
      BY <2>1, LedgerStep
    <3> QED BY <3>1 DEF Coverage!Next, Coverage!Cover, Failures
  <2>2. CASE NextBlock' = NextBlock
    <3>1. CASE status' = status
      BY <2>2, <3>1
    <3>2. CASE status \in {"returned"} \cup Failures
      BY <2>2, <3>1, <3>2 DEF Next, Progress, vars, Failures, Abort, ExceedWindows, Request,
         RequestFails, SplitOrStall, RejectItems, Collect, CallbackDone, CallbackRejects, Finish
    <3>3. CASE status \notin {"returned"} \cup Failures /\ status' # "returned"
      BY <2>2, <3>3 DEF Coverage!Next, Coverage!Fail, Failures
    <3>4. CASE status \notin {"returned"} \cup Failures /\ status' = "returned"
      <4>1. status = "scanning" /\ pending = <<>>
        BY <3>4, <3>1 DEF Next, Progress, vars, Failures, Abort, ExceedWindows, Request,
           RequestFails, SplitOrStall, RejectItems, Collect, CallbackDone, CallbackRejects,
           Finish, Fail, Complete
      <4>2. NextBlock = EndBlock + 1
        BY <4>1 DEF LedgerInv, Spans, Front
      <4> QED BY <2>2, <3>4, <4>2 DEF Coverage!Next, Coverage!Return, Failures
    <3> QED BY <3>1, <3>2, <3>3, <3>4
  <2> QED BY <2>1, <2>2
<1> QED BY <1>1, <1>2, LedgerInvariant, PTL DEF Spec, ImplementsCoverage, Coverage!Spec

-----------------------------------------------------------------------------
(* The requests *)

\* Every window that was split or completed was asked for once: the windows there
\* are say how often the executor was called.
InHand == IF window = None THEN 0 ELSE 1

CallsInv ==
  /\ LedgerInv
  /\ calls = 2 * Len(completed) + Len(pending) + 2 * InHand - 1
  /\ CallsBounded

\* Every step keeps the count.
LEMMA CallsInvKept ==
  ASSUME CallsInv, [Next]_vars
  PROVE  CallsInv'
<1>1. LedgerInv'
  BY LedgerStep DEF CallsInv
<1>2. /\ pending \in Seq(Window) /\ completed \in Seq(Window) /\ window \in Window \cup {None}
      /\ Len(pending) \in Nat /\ Len(completed) \in Nat /\ None \notin Window
  BY ScanAssumption DEF CallsInv, LedgerInv
<1>3. CASE UNCHANGED <<pending, completed, window, calls>>
  BY <1>1, <1>3 DEF CallsInv, InHand, CallsBounded
<1>4. CASE Request
  <2>1. /\ pending # <<>> /\ Len(completed) + Len(pending) <= MaxRangeWindows
        /\ window = None /\ window' = Head(pending) /\ pending' = Tail(pending)
        /\ calls' = calls + 1 /\ completed' = completed
    BY <1>2, <1>4, LimitAssumption DEF Request, CallsInv, LedgerInv, WindowLimitReached
  <2>2. Len(pending) \in Nat \ {0} /\ Len(pending') = Len(pending) - 1 /\ window' \in Window
    BY <1>2, <2>1, EmptySeq, HeadTailProperties
  <2>3. InHand = 0 /\ InHand' = 1
    BY <1>2, <2>1, <2>2 DEF InHand
  <2>4. calls' = 2 * Len(completed) + Len(pending)
    BY <1>2, <2>1, <2>3 DEF CallsInv
  <2>5. calls' <= 2 * MaxRangeWindows - 1
    BY <1>2, <2>1, <2>2, <2>4, LimitAssumption
  <2> QED BY <1>1, <1>2, <2>1, <2>2, <2>3, <2>4, <2>5 DEF CallsInv, CallsBounded
<1>5. ASSUME NEW p \in Providers, SplitOrStall(p), window.start # window.end
      PROVE  CallsInv'
  <2>1. /\ window # None /\ window' = None /\ pending' = SplitWindow(window) \o pending
        /\ completed' = completed /\ calls' = calls
    BY <1>5 DEF SplitOrStall, Requeue, CallsInv, LedgerInv
  <2>2. SplitWindow(window) \in Seq(Window) /\ Len(SplitWindow(window)) = 2
    <3>1. window \in Window /\ window.start <= window.end
      BY <2>1 DEF CallsInv, LedgerInv
    <3>2. SplitWindow(window) \in Seq(Window)
      BY <1>5, <3>1, SplitWindowSpans
    <3>3. Len(SplitWindow(window)) = 2
      BY DEF SplitWindow
    <3> QED BY <3>2, <3>3
  <2>3. Len(pending') = Len(pending) + 2
    <3> DEFINE halves == SplitWindow(window)
    <3>1. halves \in Seq(Window) /\ Len(halves) = 2
      BY <2>2
    <3> HIDE DEF halves
    <3>2. Len(halves \o pending) = Len(halves) + Len(pending)
      BY <1>2, <3>1, ConcatProperties
    <3> QED BY <1>2, <2>1, <3>1, <3>2 DEF halves
  <2>4. InHand = 1 /\ InHand' = 0
    BY <2>1 DEF InHand
  <2> QED BY <1>1, <1>2, <2>1, <2>3, <2>4 DEF CallsInv, CallsBounded
<1>6. CASE window # None /\ Complete /\ pending' = pending /\ calls' = calls
  <2>1. window \in Window /\ Len(completed') = Len(completed) + 1 /\ window' = None
    BY <1>2, <1>6, AppendProperties DEF Complete
  <2>2. InHand = 1 /\ InHand' = 0
    BY <1>6, <2>1 DEF InHand
  <2> QED BY <1>1, <1>2, <1>6, <2>1, <2>2 DEF CallsInv, CallsBounded
<1>7. CASE Abort \/ ExceedWindows \/ RequestFails \/ CallbackRejects \/ Finish
  BY <1>3, <1>7 DEF Abort, ExceedWindows, RequestFails, CallbackRejects, Finish, Fail
<1>8. ASSUME NEW p \in Providers, SplitOrStall(p) \/ RejectItems(p)
      PROVE  CallsInv'
  BY <1>3, <1>5, <1>8 DEF SplitOrStall, RejectItems
<1>9. ASSUME NEW p \in Providers, Collect(p)
      PROVE  CallsInv'
  <2>1. window # None /\ pending' = pending /\ calls' = calls
    BY <1>9 DEF Collect, CallsInv, LedgerInv
  <2>2. Complete \/ UNCHANGED <<completed, window>>
    BY <1>9 DEF Collect
  <2> QED BY <1>3, <1>6, <2>1, <2>2
<1>10. CASE CallbackDone
  BY <1>6, <1>10 DEF CallbackDone, CallsInv, LedgerInv
<1>11. CASE UNCHANGED vars
  BY <1>3, <1>11 DEF vars
<1> QED BY <1>4, <1>7, <1>8, <1>9, <1>10, <1>11 DEF Next, Progress

\* The window limit bounds the requests too: however the splits fall, a scan asks
\* the executor at most 2 * MaxRangeWindows - 1 times.
THEOREM RequestsAreBounded == Spec => []CallsBounded
<1>1. Init => CallsInv
  <2> SUFFICES ASSUME Init PROVE CallsInv
    OBVIOUS
  <2>1. Len(completed) = 0 /\ Len(pending) = 1 /\ window = None /\ calls = 0
    BY DEF Init
  <2> QED BY <2>1, LedgerInvInit, LimitAssumption DEF CallsInv, InHand, CallsBounded
<1>2. CallsInv /\ [Next]_vars => CallsInv'
  BY CallsInvKept
<1>3. CallsInv => CallsBounded
  BY DEF CallsInv
<1> QED BY <1>1, <1>2, <1>3, PTL DEF Spec

-----------------------------------------------------------------------------
(* What is collected and delivered *)

\* An index has an identity, the transaction hash and the place of a log in it,
\* in one block only.  Where a reorganisation moves a log to another block under
\* its old place, what the scan keeps depends on the windows.
OneBlockPerIdentity ==
  \A p \in Providers : \A x, y \in Index[p] : SameIdentity(x, y) => x.block = y.block

\* What a scan has gathered, one way or the other.
Gathered  == IF streaming THEN delivered ELSE records
Prefix(p) == {x \in Index[p] : x.block \in StartBlock..(NextBlock - 1)}

\* What was gathered is the pinned provider's index of the completed windows.
DataInv ==
  /\ LedgerInv
  /\ NextBlock >= StartBlock
  /\ pin \in Providers \cup {None}
  /\ pin = None => completed = <<>> /\ Gathered = {}
  /\ pin # None => Gathered = Prefix(pin)
  /\ status = "delivering" => streaming /\ pin # None /\ records = InWindow(pin, window)
  /\ status = "returned" => pending = <<>> /\ window = None

\* Nothing of a window was seen before, nor twice in its answer.
LEMMA AllOfWindowIsFresh ==
  ASSUME OneBlockPerIdentity, NEW p \in Providers, NEW w \in Window, NEW n \in Int, w.start = n,
         NEW seen \in SUBSET {x \in Index[p] : x.block \in StartBlock..(n - 1)}
  PROVE  Fresh(InWindow(p, w), seen) = InWindow(p, w)
<1>1. w.start \in Int /\ w.end \in Int
  BY DEF Window
<1>2. \A x \in Index[p] : x.block \in Nat
  BY ScanAssumption DEF Entry
<1>3. ASSUME NEW x \in InWindow(p, w), NEW y \in seen, SameIdentity(x, y)
      PROVE  FALSE
  <2>1. x \in Index[p] /\ y \in Index[p] /\ x.block >= n /\ y.block < n
    BY <1>1, <1>2, RangeAssumption DEF InWindow, Blocks
  <2> QED BY <1>2, <1>3, <2>1 DEF OneBlockPerIdentity
<1>4. ASSUME NEW x \in InWindow(p, w), NEW y \in InWindow(p, w), SameIdentity(x, y)
      PROVE  x.block <= y.block
  <2>1. x \in Index[p] /\ y \in Index[p]
    BY DEF InWindow
  <2>2. x.block = y.block
    BY <1>4, <2>1 DEF OneBlockPerIdentity
  <2> QED BY <1>2, <2>1, <2>2
<1> QED BY <1>3, <1>4 DEF Fresh

\* Completing a window puts its entries behind those of the prefix.
LEMMA PrefixGrows ==
  ASSUME LedgerInv, NextBlock >= StartBlock, NEW p \in Providers, window # None, Complete
  PROVE  NextBlock' >= StartBlock /\ Prefix(p)' = Prefix(p) \cup InWindow(p, window)
<1>1. /\ window \in Window /\ window.start = NextBlock /\ window.start <= window.end
      /\ window.start \in Int /\ window.end \in Int /\ completed \in Seq(Window)
  BY DEF LedgerInv, Window
<1>2. completed' = Append(completed, window)
  BY DEF Complete
<1>3. completed' # <<>> /\ completed'[Len(completed')] = window
  BY <1>1, <1>2
<1>4. NextBlock' = window.end + 1
  BY <1>3 DEF NextBlock
<1>5. \A x \in Index[p] : x.block \in Nat
  BY ScanAssumption DEF Entry
<1>6. \A x \in Index[p] :
        x.block \in StartBlock..(NextBlock' - 1)
          <=> x.block \in StartBlock..(NextBlock - 1) \/ x.block \in window.start..window.end
  BY <1>1, <1>4, <1>5, RangeAssumption
<1> QED BY <1>1, <1>4, <1>6, RangeAssumption DEF Prefix, InWindow, Blocks

\* A step that leaves the ledger's prefix, the pin and what was gathered.
LEMMA DataFrame ==
  ASSUME DataInv, LedgerInv', UNCHANGED <<streaming, completed, pin, records, delivered>>,
         status' # "delivering" \/ UNCHANGED <<status, window>>,
         status' = "returned" => pending' = <<>> /\ window' = None
  PROVE  DataInv'
<1>1. NextBlock' = NextBlock /\ Gathered' = Gathered /\ \A p \in Providers : Prefix(p)' = Prefix(p)
  BY DEF NextBlock, Gathered, Prefix
<1> QED BY <1>1 DEF DataInv

\* The first answer pins its provider while nothing is gathered; later ones come from it.
LEMMA PinKeeps ==
  ASSUME DataInv, LedgerInv', NEW p \in ServedBy, pin' = p,
         UNCHANGED <<streaming, completed, records, delivered>>,
         status' \notin {"delivering", "returned"}
  PROVE  DataInv'
<1>1. p \in Providers /\ p # None
  BY ScanAssumption DEF ServedBy, DataInv
<1>2. NextBlock' = NextBlock /\ Gathered' = Gathered /\ Prefix(p)' = Prefix(p)
  BY DEF NextBlock, Gathered, Prefix
<1>3. Gathered = Prefix(p)
  <2>1. CASE pin # None
    BY <2>1 DEF DataInv, ServedBy
  <2>2. CASE pin = None
    <3>1. NextBlock = StartBlock /\ Gathered = {}
      BY <2>2 DEF DataInv, NextBlock
    <3>2. StartBlock..(StartBlock - 1) = {}
      BY RangeAssumption
    <3> QED BY <3>1, <3>2 DEF Prefix
  <2> QED BY <2>1, <2>2
<1> QED BY <1>1, <1>2, <1>3 DEF DataInv

\* A complete answer.
LEMMA CollectKeeps ==
  ASSUME OneBlockPerIdentity, DataInv, LedgerInv', NEW p \in Providers, Collect(p)
  PROVE  DataInv'
<1> DEFINE seen == IF streaming THEN {} ELSE records
           kept == seen \cup Fresh(InWindow(p, window), seen)
<1>1. /\ p \in ServedBy /\ pin' = p /\ p # None /\ window # None /\ status = "fetching"
      /\ window \in Window /\ window.start = NextBlock /\ NextBlock \in Int
      /\ UNCHANGED <<streaming, pending, delivered, calls>>
  BY ScanAssumption DEF Collect, DataInv, LedgerInv
<1>2. CASE status' = "RANGE_RESULT_TOO_LARGE" /\ UNCHANGED <<completed, window, records>>
  BY <1>1, <1>2, PinKeeps
<1>3. CASE records' = kept /\ ((streaming /\ status' = "delivering" /\ UNCHANGED <<completed, window>>)
                                \/ (~streaming /\ Complete))
  <2>1. Gathered = Prefix(p)
    <3>1. CASE pin # None
      BY <1>1, <3>1 DEF DataInv, ServedBy
    <3>2. CASE pin = None
      <4>1. NextBlock = StartBlock /\ Gathered = {}
        BY <3>2 DEF DataInv, NextBlock
      <4>2. StartBlock..(StartBlock - 1) = {}
        BY RangeAssumption
      <4> QED BY <4>1, <4>2 DEF Prefix
    <3> QED BY <3>1, <3>2
  <2>2. seen \in SUBSET {x \in Index[p] : x.block \in StartBlock..(NextBlock - 1)}
    BY <2>1 DEF Gathered, Prefix
  <2>3. kept = seen \cup InWindow(p, window)
    BY <1>1, <2>2, AllOfWindowIsFresh
  <2> HIDE DEF kept
  <2>4. CASE streaming /\ status' = "delivering" /\ UNCHANGED <<completed, window>>
    <3>1. NextBlock' = NextBlock /\ Gathered' = Gathered /\ Prefix(p)' = Prefix(p)
      BY <1>1, <2>4 DEF NextBlock, Gathered, Prefix
    <3>2. records' = InWindow(p, window) /\ InWindow(p, window)' = InWindow(p, window)
      BY <1>3, <2>3, <2>4 DEF InWindow, Blocks
    <3> QED BY <1>1, <2>1, <2>4, <3>1, <3>2 DEF DataInv
  <2>5. CASE ~streaming /\ Complete
    <3>1. NextBlock' >= StartBlock /\ Prefix(p)' = Prefix(p) \cup InWindow(p, window)
      BY <1>1, <2>5, PrefixGrows DEF DataInv
    <3>2. Gathered' = Prefix(p)'
      BY <1>1, <1>3, <2>1, <2>3, <2>5, <3>1 DEF Gathered
    <3>3. status' = "scanning"
      BY <2>5 DEF Complete
    <3> QED BY <1>1, <3>1, <3>2, <3>3 DEF DataInv
  <2> QED BY <1>3, <2>4, <2>5
<1>4. \/ status' = "RANGE_RESULT_TOO_LARGE" /\ UNCHANGED <<completed, window, records>>
      \/ /\ records' = kept
         /\ \/ streaming /\ status' = "delivering" /\ UNCHANGED <<completed, window>>
            \/ ~streaming /\ Complete
  BY DEF Collect
<1> QED BY <1>2, <1>3, <1>4

\* Every step keeps what was gathered exact.
LEMMA DataInvKept ==
  ASSUME OneBlockPerIdentity, DataInv, [Next]_vars
  PROVE  DataInv'
<1>1. LedgerInv'
  BY LedgerStep DEF DataInv
<1>2. CASE Abort \/ ExceedWindows \/ RequestFails \/ CallbackRejects
  BY <1>1, <1>2, DataFrame DEF Abort, ExceedWindows, RequestFails, CallbackRejects, Fail
<1>3. CASE Request
  BY <1>1, <1>3, DataFrame DEF Request
<1>4. CASE Finish
  <2>1. pending = <<>> /\ window = None
    BY <1>4 DEF Finish, DataInv, LedgerInv
  <2>2. /\ UNCHANGED <<streaming, pending, completed, window, pin, records, delivered, calls>>
        /\ status' \in {"returned", "BLOCK_RANGE_INCOMPLETE"}
    BY <1>4 DEF Finish, Fail
  <2> QED BY <1>1, <2>1, <2>2, DataFrame
<1>5. ASSUME NEW p \in Providers, SplitOrStall(p) \/ RejectItems(p) PROVE DataInv'
  BY <1>1, <1>5, PinKeeps DEF SplitOrStall, RejectItems
<1>6. ASSUME NEW p \in Providers, Collect(p) PROVE DataInv'
  BY <1>1, <1>6, CollectKeeps
<1>7. CASE CallbackDone
  <2>1. /\ streaming /\ pin \in Providers /\ pin # None /\ window # None /\ Complete
        /\ records = InWindow(pin, window) /\ delivered = Prefix(pin) /\ status' = "scanning"
        /\ delivered' = delivered \cup records /\ UNCHANGED <<streaming, pin>>
    BY <1>7 DEF CallbackDone, DataInv, LedgerInv, Gathered, Complete
  <2>2. NextBlock' >= StartBlock /\ Prefix(pin)' = Prefix(pin) \cup InWindow(pin, window)
    <3>1. \A p \in Providers : NextBlock' >= StartBlock /\ Prefix(p)' = Prefix(p) \cup InWindow(p, window)
      BY <2>1, PrefixGrows DEF DataInv
    <3>2. Prefix(pin)' = {x \in Index[pin] : x.block \in StartBlock..(NextBlock' - 1)}
      BY <2>1 DEF Prefix
    <3> QED BY <2>1, <3>1, <3>2 DEF Prefix
  <2> QED BY <1>1, <2>1, <2>2 DEF DataInv, Gathered
<1>8. CASE UNCHANGED vars
  <2>1. DataInv /\ UNCHANGED <<streaming, completed, pin, records, delivered, status, window, pending>>
    BY <1>8 DEF vars
  <2> QED BY <1>1, <2>1, DataFrame DEF DataInv
<1> QED BY <1>2, <1>3, <1>4, <1>5, <1>6, <1>7, <1>8 DEF Next, Progress

\* The invariant holds before the first request.
LEMMA DataInvInit == Init => DataInv
<1> SUFFICES ASSUME Init PROVE DataInv
  OBVIOUS
<1>1. /\ completed = <<>> /\ pin = None /\ records = {} /\ delivered = {} /\ status = "scanning"
  BY DEF Init
<1> QED BY <1>1, LedgerInvInit, RangeAssumption DEF DataInv, NextBlock, Gathered

\* What the callback has been given is exactly one provider's entries up to the
\* last completed window, however often windows were split and however the scan
\* ends: the block behind it is a checkpoint to go on from.
THEOREM CheckpointsAreSafe == OneBlockPerIdentity => (Spec => []DeliveredIsPrefix)
<1> SUFFICES ASSUME OneBlockPerIdentity PROVE Spec => []DeliveredIsPrefix
  OBVIOUS
<1>1. DataInv /\ [Next]_vars => DataInv'
  BY DataInvKept
<1>2. DataInv => DeliveredIsPrefix
  BY DEF DataInv, DeliveredIsPrefix, Gathered, Prefix
<1> QED BY <1>1, <1>2, DataInvInit, PTL DEF Spec

\* A scan without a callback that returns has one provider's entries of the whole
\* range, each once and of a transfer indexed twice only the later.
THEOREM ResultsAreExact == OneBlockPerIdentity => (Spec => []ResultIsExact)
<1> SUFFICES ASSUME OneBlockPerIdentity PROVE Spec => []ResultIsExact
  OBVIOUS
<1>1. DataInv /\ [Next]_vars => DataInv'
  BY DataInvKept
<1>2. DataInv => ResultIsExact
  <2> SUFFICES ASSUME DataInv, status = "returned", ~streaming
               PROVE  \E p \in Providers : Items = CanonicalEntries(p)
    BY DEF ResultIsExact
  <2>1. NextBlock = EndBlock + 1
    BY DEF DataInv, LedgerInv, Spans, Front
  <2>2. pin \in Providers /\ pin # None
    BY <2>1, RangeAssumption DEF DataInv, NextBlock
  <2>3. records = {x \in Index[pin] : x.block \in StartBlock..EndBlock}
    BY <2>1, <2>2, RangeAssumption DEF DataInv, Gathered, Prefix
  <2>4. Items = CanonicalEntries(pin)
    BY <2>3 DEF Items, DeduplicateCanonicalItems, CanonicalEntries
  <2> QED BY <2>2, <2>4
<1> QED BY <1>1, <1>2, DataInvInit, PTL DEF Spec
=============================================================================
