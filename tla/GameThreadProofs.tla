-------------------------- MODULE GameThreadProofs --------------------------
(***************************************************************************)
(* What the thread of the game runs: its loop, in which simulated time      *)
(* follows real time, for every bound of a step, every size of the window   *)
(* and all times renders, updates and sleeps take; and the tables that an   *)
(* update changes, for every number of tables, of entities and of handles.  *)
(***************************************************************************)
EXTENDS GameLoop, Universe, FiniteSetTheorems, WellFoundedInduction, TLAPS

USE ConstantsAssumption

-----------------------------------------------------------------------------
(* The predictor.                                                           *)

Window == [1 .. WindowSize -> Nat]

\* A nonempty set of naturals has a smallest element.
LEMMA Smallest ==
  ASSUME NEW S \in SUBSET Nat, S # {}
  PROVE  \E m \in S : \A n \in S : m <= n
<1> DEFINE R == OpToRel(<, Nat)
<1>1. IsWellFoundedOn(R, Nat)
  BY NatLessThanWellFounded
<1>2. \A x, y \in Nat : <<x, y>> \in R <=> x < y
  BY DEF OpToRel
<1> HIDE DEF R
<1>3. PICK m \in S : \A n \in S : ~ (<<n, m>> \in R)
  BY <1>1, WFMin
<1>4. \A n \in S : ~ (n < m)
  BY <1>2, <1>3
<1> QED BY <1>4

\* A window has a least and a greatest measurement, and they are two of its
\* measurements, even if they are equal.
LEMMA Extremes ==
  ASSUME NEW w \in Window
  PROVE  \E i, j \in 1 .. WindowSize :
           /\ i # j /\ Min(Range(w)) = w[i] /\ Max(Range(w)) = w[j]
           /\ \A k \in 1 .. WindowSize : w[k] <= w[j]
<1>1. \A i \in 1 .. WindowSize : w[i] \in Nat /\ w[i] \in Range(w)
  BY DEF Window, Range
<1>2. Range(w) \subseteq Nat /\ \A x \in Range(w) : \E i \in 1 .. WindowSize : x = w[i]
  BY DEF Window, Range
<1>3. PICK i \in 1 .. WindowSize : \A k \in 1 .. WindowSize : w[i] <= w[k]
  <2>1. 1 \in 1 .. WindowSize OBVIOUS
  <2>2. Range(w) # {} BY <1>1, <2>1
  <2>3. PICK m \in Range(w) : \A x \in Range(w) : m <= x
    BY <1>2, <2>2, Smallest
  <2> QED BY <1>1, <1>2, <2>3
<1>4. PICK j \in 1 .. WindowSize : \A k \in 1 .. WindowSize : w[k] <= w[j]
  <2> DEFINE Greatest(n, l) == l \in 1 .. n /\ \A k \in 1 .. n : w[k] <= w[l]
             B == {n \in 1 .. WindowSize : \A l \in 1 .. n : ~Greatest(n, l)}
  <2>1. CASE B = {}
    <3>1. WindowSize \in 1 .. WindowSize OBVIOUS
    <3> QED BY <2>1, <3>1
  <2>2. CASE B # {}
    <3>0. B \in SUBSET Nat OBVIOUS
    <3> HIDE DEF B
    <3>1. PICK n \in B : \A m \in B : n <= m
      BY <2>2, <3>0, Smallest
    <3> USE DEF B
    <3>2. n # 1
      <4>1. Greatest(1, 1) BY <1>1
      <4> QED BY <3>1, <4>1
    <3>a. n \in 1 .. WindowSize /\ n - 1 \in 1 .. WindowSize /\ ~ (n <= n - 1)
      BY <3>1, <3>2
    <3>3. n - 1 \in 1 .. WindowSize /\ n - 1 \notin B /\ n \in 1 .. WindowSize
      BY <3>1, <3>a
    <3>4. PICK l \in 1 .. n - 1 : Greatest(n - 1, l)
      BY <3>3
    <3>5. \A k \in 1 .. n : k \in 1 .. n - 1 \/ k = n
      BY <3>3
    <3>6. l \in 1 .. WindowSize /\ l \in 1 .. n /\ n \in 1 .. n
      BY <3>3, <3>4
    <3>7. CASE w[n] <= w[l]
      <4>1. Greatest(n, l) BY <3>4, <3>5, <3>6, <3>7
      <4> QED BY <3>1, <3>6, <4>1
    <3>8. CASE ~ (w[n] <= w[l])
      <4>1. \A k \in 1 .. n - 1 : w[k] <= w[n]
        BY <1>1, <3>3, <3>4, <3>6, <3>8
      <4>2. Greatest(n, n) BY <1>1, <3>3, <3>5, <3>6, <4>1
      <4> QED BY <3>1, <3>6, <4>2
    <3> QED BY <3>7, <3>8
  <2> QED BY <2>1, <2>2
<1>5. Min(Range(w)) = w[i]
  <2>1. w[i] \in Range(w) /\ \A x \in Range(w) : w[i] <= x BY <1>1, <1>2, <1>3
  <2>2. \A y \in Range(w) : (\A x \in Range(w) : y <= x) => y = w[i] BY <1>2, <2>1
  <2> QED BY <2>1, <2>2 DEF Min
<1>6. Max(Range(w)) = w[j]
  <2>1. w[j] \in Range(w) /\ \A x \in Range(w) : w[j] >= x BY <1>1, <1>2, <1>4
  <2>2. \A y \in Range(w) : (\A x \in Range(w) : y >= x) => y = w[j] BY <1>2, <2>1
  <2> QED BY <2>1, <2>2 DEF Max
<1>7. CASE i # j BY <1>4, <1>5, <1>6, <1>7
<1>8. CASE i = j
  <2>1. PICK k \in 1 .. WindowSize : k # i
    <3>1. 1 \in 1 .. WindowSize /\ 2 \in 1 .. WindowSize OBVIOUS
    <3> QED BY <3>1
  <2>2. w[k] = w[j] BY <1>1, <1>3, <1>4, <1>8
  <2> QED BY <1>4, <1>5, <1>6, <2>1, <2>2, <1>8
<1> QED BY <1>7, <1>8

\* A prediction is a duration: the sum of the window is at least that of its
\* least and of its greatest measurement.
LEMMA PredictNat ==
  ASSUME NEW w \in Window
  PROVE  Predict(w) \in Nat
<1> DEFINE lo == Min(Range(w))
           hi == Max(Range(w))
           Column(i) == {i} \X (1 .. w[i])
           total == Cardinality(Ticks(w))
<1>1. PICK i, j \in 1 .. WindowSize : /\ i # j /\ lo = w[i] /\ hi = w[j]
                                       /\ \A k \in 1 .. WindowSize : w[k] <= w[j]
  BY Extremes
<1>2. DOMAIN w = 1 .. WindowSize /\ \A k \in 1 .. WindowSize : w[k] \in Nat
  BY DEF Window
<1>3. \A k \in 1 .. WindowSize : IsFiniteSet(Column(k)) /\ Cardinality(Column(k)) = w[k]
  <2> TAKE k \in 1 .. WindowSize
  <2>1. IsFiniteSet({k}) /\ Cardinality({k}) = 1 BY FS_Singleton
  <2>2. IsFiniteSet(1 .. w[k]) /\ Cardinality(1 .. w[k]) = w[k]
    <3>1. w[k] \in Nat /\ w[k] \in Int /\ 1 \in Int BY <1>2
    <3>2. /\ IsFiniteSet(1 .. w[k])
          /\ Cardinality(1 .. w[k]) = IF 1 > w[k] THEN 0 ELSE w[k] - 1 + 1
      BY <3>1, FS_Interval
    <3> QED BY <3>1, <3>2
  <2>3. IsFiniteSet(Column(k)) /\ Cardinality(Column(k)) = 1 * w[k]
    BY <2>1, <2>2, FS_Product
  <2> QED BY <1>2, <2>3
<1>4. IsFiniteSet(Ticks(w))
  <2>1. w[j] \in Int /\ WindowSize \in Int /\ 1 \in Int BY <1>2
  <2>2. IsFiniteSet(1 .. WindowSize) /\ IsFiniteSet(1 .. w[j])
    BY <2>1, FS_Interval
  <2>3. IsFiniteSet((1 .. WindowSize) \X (1 .. w[j])) BY <2>2, FS_Product
  <2>4. \A k \in 1 .. WindowSize : 1 .. w[k] \subseteq 1 .. w[j] BY <1>1, <1>2
  <2>5. Ticks(w) \subseteq (1 .. WindowSize) \X (1 .. w[j])
    BY <1>2, <2>4 DEF Ticks
  <2> QED BY <2>3, <2>5, FS_Subset
<1>5. Column(i) \cup Column(j) \subseteq Ticks(w) /\ Column(i) \cap Column(j) = {}
  BY <1>1, <1>2 DEF Ticks
<1> HIDE DEF Column
<1>6. Cardinality(Column(i) \cup Column(j)) = w[i] + w[j]
  <2>1. Cardinality(Column(i) \cap Column(j)) = 0 BY <1>5, FS_EmptySet
  <2>2. Cardinality(Column(i) \cup Column(j)) =
          Cardinality(Column(i)) + Cardinality(Column(j)) - Cardinality(Column(i) \cap Column(j))
    BY <1>3, FS_Union
  <2> QED BY <1>2, <1>3, <2>1, <2>2
<1>7. total \in Nat /\ total >= w[i] + w[j]
  BY <1>4, <1>5, <1>6, FS_Subset, FS_CardinalityType
<1>8. total - lo - hi \in Nat BY <1>1, <1>2, <1>7
<1> HIDE DEF lo, hi, total
<1>9. \A n, d \in Nat : d # 0 => n \div d \in Nat OBVIOUS
<1>10. WindowSize - 2 \in Nat /\ WindowSize - 2 # 0 OBVIOUS
<1>11. (total - lo - hi) \div (WindowSize - 2) \in Nat BY <1>8, <1>9, <1>10
<1> QED BY <1>11 DEF Predict, total, lo, hi

-----------------------------------------------------------------------------
(* The arithmetic of a round.                                               *)

\* The lesser and the greater of two times.
LEMMA OfTwo ==
  ASSUME NEW a \in Int, NEW b \in Int
  PROVE  /\ Min({a, b}) = IF a <= b THEN a ELSE b
         /\ Max({a, b}) = IF a <= b THEN b ELSE a
<1>1. CASE a <= b
  <2>1. \A x \in {a, b} : (\A y \in {a, b} : x <= y) <=> x = a BY <1>1
  <2>2. \A x \in {a, b} : (\A y \in {a, b} : x >= y) <=> x = b BY <1>1
  <2> QED BY <1>1, <2>1, <2>2 DEF Min, Max
<1>2. CASE ~ (a <= b)
  <2>1. \A x \in {a, b} : (\A y \in {a, b} : x <= y) <=> x = b BY <1>2
  <2>2. \A x \in {a, b} : (\A y \in {a, b} : x >= y) <=> x = a BY <1>2
  <2> QED BY <1>2, <2>1, <2>2 DEF Min, Max
<1> QED BY <1>1, <1>2

\* A step is within its bounds.
LEMMA StepBounded ==
  ASSUME NEW delta \in Nat, NEW prediction \in Nat
  PROVE  Step(delta, prediction) \in MinStep .. MaxStep
<1> DEFINE needed == delta \div (MaxStep - prediction) + 1
           ideal == IF prediction >= MaxStep \/ needed > MaxSubsteps
                      THEN MaxStep
                      ELSE (delta + prediction * needed) \div needed
<1>1. \A n, d \in Nat : d # 0 => n \div d \in Nat OBVIOUS
<1>2. \A n, d \in Nat : n * d \in Nat OBVIOUS
<1>3. ideal \in Int
  <2>1. CASE prediction >= MaxStep BY <2>1
  <2>2. CASE ~ (prediction >= MaxStep)
    <3>1. MaxStep - prediction \in Nat /\ MaxStep - prediction # 0 BY <2>2
    <3>2. delta \div (MaxStep - prediction) \in Nat BY <1>1, <3>1
    <3>3. needed \in Nat /\ needed # 0 BY <3>2
    <3> HIDE DEF needed
    <3>4. delta + prediction * needed \in Nat BY <1>2, <3>3
    <3>5. (delta + prediction * needed) \div needed \in Nat BY <1>1, <3>3, <3>4
    <3> QED BY <3>5
  <2> QED BY <2>1, <2>2
<1>4. Step(delta, prediction) = Max({MinStep, Min({MaxStep, ideal})}) BY DEF Step
<1> HIDE DEF ideal
<1>5. Min({MaxStep, ideal}) = IF MaxStep <= ideal THEN MaxStep ELSE ideal
  BY <1>3, OfTwo
<1>6. Min({MaxStep, ideal}) \in Int /\ Min({MaxStep, ideal}) <= MaxStep BY <1>3, <1>5
<1>7. \A m \in Int : Max({MinStep, m}) = IF MinStep <= m THEN m ELSE MinStep
  BY OfTwo
<1> QED BY <1>4, <1>6, <1>7

\* A frame is late by a and the next one would be late by b >= a (seen from
\* the predicted end of rendering, so that a < 0 is early). Sleeping for half
\* of the difference between the errors leaves the next frame no later than
\* the prediction says and the errors even, up to a tick and the oversleeping.
LEMMA HalfTheDifference ==
  ASSUME NEW a \in Int, NEW b \in Int, NEW late \in Nat,
         a <= b, a = b \/ b >= 0, Abs(a) > Abs(b)
  PROVE  LET t == (Abs(a) - Abs(b)) \div 2 IN
         /\ t \in Nat /\ a + t < 0
         /\ Abs(Abs(a + t + late) - Abs(b + t + late)) <= 1 + 2 * late
<1> DEFINE t == (Abs(a) - Abs(b)) \div 2
<1>1. a < 0 /\ b >= 0 /\ Abs(a) = -a /\ Abs(b) = b BY DEF Abs
<1>2. t \in Int /\ 2 * t <= -a - b /\ -a - b <= 2 * t + 1 /\ t >= 0
  <2>1. \A n \in Nat : n \div 2 \in Nat /\ 2 * (n \div 2) <= n /\ n <= 2 * (n \div 2) + 1
    OBVIOUS
  <2>2. -a - b \in Nat /\ t = (-a - b) \div 2 BY <1>1
  <2> HIDE DEF t
  <2> QED BY <2>1, <2>2
<1> HIDE DEF t
<1>3. a + t < 0 BY <1>1, <1>2
<1>4. Abs(b + t + late) = b + t + late BY <1>1, <1>2 DEF Abs
<1>5. CASE a + t + late < 0
  <2>1. Abs(a + t + late) = -(a + t + late) BY <1>2, <1>5 DEF Abs
  <2>2. Abs(a + t + late) - Abs(b + t + late) = -a - b - 2 * t - 2 * late
    BY <1>2, <1>4, <2>1
  <2> QED BY <1>2, <1>3, <2>2 DEF t, Abs
<1>6. CASE ~ (a + t + late < 0)
  <2>1. Abs(a + t + late) = a + t + late BY <1>2, <1>6 DEF Abs
  <2>2. Abs(a + t + late) - Abs(b + t + late) = a - b
    BY <1>2, <1>4, <2>1
  <2>3. b - a <= 1 + 2 * late BY <1>1, <1>2, <1>6
  <2> QED BY <1>1, <1>2, <1>3, <2>2, <2>3 DEF t, Abs
<1> QED BY <1>5, <1>6

-----------------------------------------------------------------------------
(* The invariant.                                                           *)

\* Once a frame is rendered, the game is not further behind than the frame is,
\* and whenever the game has been updated since, or slowed down, the frame
\* is behind.
SinceRender == pc # "render" => /\ lag <= renderLag
                                /\ lag = renderLag \/ renderLag > 0

\* The game has been slowed down before it sleeps.
Slowed == pc = "sleep" => lag <= MaxStep

LoopInv == TypeOK /\ Follows /\ SinceRender /\ Slowed

\* A measurement takes the place of the oldest one.
LEMMA MeasuredType ==
  ASSUME NEW S, NEW w \in [1 .. WindowSize -> S], NEW d \in S
  PROVE  Measured(w, d) \in [1 .. WindowSize -> S]
<1>1. w \in Seq(S) /\ Len(w) = WindowSize /\ w # <<>>
  <2>1. w \in Seq(S) OBVIOUS
  <2> QED BY <2>1
<1>2. Tail(w) \in Seq(S) /\ Len(Tail(w)) = WindowSize - 1 BY <1>1
<1>3. Measured(w, d) \in Seq(S) /\ Len(Measured(w, d)) = WindowSize
  BY <1>2 DEF Measured
<1> HIDE DEF Measured
<1> QED BY <1>3

\* The windows hold durations.
LEMMA WindowsTyped ==
  ASSUME TypeOK
  PROVE  updateWindow \in Window /\ renderWindow \in Window
<1>1. UpdateTimes \cup {0} \subseteq Nat /\ RenderTimes \cup {0} \subseteq Nat
  OBVIOUS
<1>2. \A S \in SUBSET Nat : [1 .. WindowSize -> S] \subseteq Window BY DEF Window
<1> QED BY <1>1, <1>2 DEF TypeOK

\* The initial state satisfies the invariant.
LEMMA InitLoopInv == Init => LoopInv
BY DEF Init, LoopInv, TypeOK, Follows, SinceRender, Slowed

\* What a sleep does to the errors, and to the lag: it is asked for only when
\* the next frame would be early, and ends before it would be late.
LEMMA SleepLoopInv ==
  ASSUME LoopInv, NEW late \in 0 .. MaxOversleep, Sleep(late), newRenderError > lastRenderError
  PROVE  /\ lag' \in Int /\ lag' <= MaxOversleep /\ lag' >= lag /\ renderLag' \in Int
         /\ Abs(newRenderError' - lastRenderError') <= 1 + 2 * MaxOversleep
<1> DEFINE p == Predict(renderWindow)
           a == lag + p
           b == renderLag + p
           t == (Abs(a) - Abs(b)) \div 2
<1>1. p \in Nat BY WindowsTyped, PredictNat DEF LoopInv
<1>2. lag \in Int /\ renderLag \in Int /\ pc = "sleep" /\ late \in Nat /\ late <= MaxOversleep
  BY DEF LoopInv, TypeOK, Sleep
<1>3. lag <= renderLag /\ (lag = renderLag \/ renderLag > 0)
  BY <1>2 DEF LoopInv, SinceRender
<1>4. newRenderError = Abs(a) /\ lastRenderError = Abs(b) /\ SleepTime = t
  BY DEF newRenderError, lastRenderError, SleepTime
<1>5. lag' = lag + t + late /\ renderLag' = renderLag + t + late /\ p' = p
  BY <1>4 DEF Sleep
<1>6. newRenderError' = Abs(lag' + p) /\ lastRenderError' = Abs(renderLag' + p)
  BY <1>5 DEF newRenderError, lastRenderError
<1> HIDE DEF p
<1>7. a \in Int /\ b \in Int /\ a <= b /\ (a = b \/ b >= 0)
  BY <1>1, <1>2, <1>3
<1>8. /\ t \in Nat /\ a + t < 0
      /\ Abs(Abs(a + t + late) - Abs(b + t + late)) <= 1 + 2 * late
  BY <1>2, <1>4, <1>7, HalfTheDifference
<1>9. lag' + p = a + t + late /\ renderLag' + p = b + t + late
  <2> HIDE DEF t
  <2>1. t \in Nat BY <1>8
  <2> QED BY <1>1, <1>2, <1>5, <2>1
<1>10. Abs(newRenderError' - lastRenderError') <= 1 + 2 * late
  BY <1>6, <1>8, <1>9
<1>11. lag' <= MaxOversleep /\ lag' >= lag /\ lag' \in Int /\ renderLag' \in Int
  <2> HIDE DEF t
  <2> QED BY <1>1, <1>2, <1>5, <1>8
<1>12. \A e \in Int : e <= 1 + 2 * late => e <= 1 + 2 * MaxOversleep BY <1>2
<1>13. Abs(newRenderError' - lastRenderError') \in Int
  <2>1. \A e \in Int : Abs(e) \in Int BY DEF Abs
  <2>2. lag' + p \in Int /\ renderLag' + p \in Int BY <1>1, <1>11
  <2> QED BY <1>6, <2>1, <2>2
<1> QED BY <1>10, <1>11, <1>12, <1>13

\* The errors of the two frames after a sleep.
EvenAfterSleep ==
  pc = "sleep" /\ lag' # lag => Abs(newRenderError' - lastRenderError') <= 1 + 2 * MaxOversleep

\* The invariant is inductive, and every sleep breaks even.
LEMMA NextLoopInv == LoopInv /\ [Next]_vars => LoopInv' /\ [EvenAfterSleep]_vars
<1> SUFFICES ASSUME LoopInv, [Next]_vars PROVE LoopInv' /\ [EvenAfterSleep]_vars
  OBVIOUS
<1>1. CASE UNCHANGED vars
  BY <1>1 DEF vars, LoopInv, TypeOK, Follows, SinceRender, Slowed
<1>2. ASSUME NEW d \in RenderTimes, Render(d) PROVE LoopInv' /\ EvenAfterSleep
  <2>1. /\ pc = "render" /\ pc' = "update" /\ lag' = lag + d /\ renderLag' = lag + d
        /\ substeps' = 0 /\ updateWindow' = updateWindow
        /\ renderWindow' = Measured(renderWindow, d)
    BY <1>2 DEF Render
  <2>2. renderWindow' \in [1 .. WindowSize -> RenderTimes \cup {0}]
    BY <2>1, MeasuredType DEF LoopInv, TypeOK
  <2>3. d \in Nat BY ConstantsAssumption
  <2>4. TypeOK' BY <2>1, <2>2, <2>3 DEF LoopInv, TypeOK
  <2>5. Follows' /\ SinceRender' /\ Slowed'
    BY <2>1, <2>3 DEF LoopInv, TypeOK, Follows, SinceRender, Slowed
  <2> QED BY <2>1, <2>4, <2>5 DEF LoopInv, EvenAfterSleep
<1>3. ASSUME NEW d \in UpdateTimes, NEW error \in -Rounding .. Rounding, Update(d, error)
      PROVE  LoopInv' /\ EvenAfterSleep
  <2> DEFINE step == Step(lag, Predict(updateWindow))
  <2>1. /\ pc = "update" /\ pc' = pc /\ substeps < MaxSubsteps /\ lag > MinStep
        /\ lag' = lag + d - (step + error) /\ renderLag' = renderLag + d
        /\ substeps' = substeps + 1 /\ renderWindow' = renderWindow
        /\ updateWindow' = Measured(updateWindow, d)
    BY <1>3 DEF Update, Behind
  <2>2. updateWindow' \in [1 .. WindowSize -> UpdateTimes \cup {0}]
    BY <2>1, MeasuredType DEF LoopInv, TypeOK
  <2>3. d \in Nat /\ lag \in Nat /\ renderLag \in Int /\ substeps \in 0 .. MaxSubsteps
    BY <2>1 DEF LoopInv, TypeOK
  <2>4. step \in MinStep .. MaxStep
    BY <2>3, WindowsTyped, PredictNat, StepBounded DEF LoopInv
  <2> HIDE DEF step
  <2>5. lag' \in Int /\ renderLag' \in Int /\ substeps' \in 0 .. MaxSubsteps
    BY <2>1, <2>3, <2>4
  <2>6. TypeOK' BY <2>1, <2>2, <2>5 DEF LoopInv, TypeOK
  <2>7. lag' > MinStep - MaxStep - Rounding BY <2>1, <2>3, <2>4
  <2>8. lag' <= renderLag' /\ renderLag' > 0
    BY <2>1, <2>3, <2>4 DEF LoopInv, SinceRender
  <2>9. Follows' /\ SinceRender' /\ Slowed'
    BY <2>1, <2>7, <2>8 DEF Follows, SinceRender, Slowed
  <2> QED BY <2>1, <2>6, <2>9 DEF LoopInv, EvenAfterSleep
<1>4. CASE SlowDown
  <2>1. /\ pc = "update" /\ pc' = "sleep" /\ lag' = IF lag <= MaxStep THEN lag ELSE MaxStep
        /\ UNCHANGED <<renderLag, substeps, updateWindow, renderWindow>>
    BY <1>4, OfTwo DEF SlowDown, LoopInv, TypeOK
  <2>2. TypeOK' BY <2>1 DEF LoopInv, TypeOK
  <2>3. Follows' /\ SinceRender' /\ Slowed'
    BY <2>1 DEF LoopInv, TypeOK, Follows, SinceRender, Slowed
  <2> QED BY <2>1, <2>2, <2>3 DEF LoopInv, EvenAfterSleep
<1>5. ASSUME NEW late \in 0 .. MaxOversleep, Sleep(late) PROVE LoopInv' /\ EvenAfterSleep
  <2>1. pc = "sleep" /\ pc' = "render" /\ UNCHANGED <<substeps, updateWindow, renderWindow>>
    BY <1>5 DEF Sleep
  <2>2. CASE newRenderError > lastRenderError
    <3>1. /\ lag' \in Int /\ lag' <= MaxOversleep /\ lag' >= lag /\ renderLag' \in Int
          /\ Abs(newRenderError' - lastRenderError') <= 1 + 2 * MaxOversleep
      BY <1>5, <2>2, SleepLoopInv
    <3>2. TypeOK' BY <2>1, <3>1 DEF LoopInv, TypeOK
    <3>3. Follows' /\ SinceRender' /\ Slowed'
      BY <2>1, <3>1 DEF LoopInv, TypeOK, Follows, SinceRender, Slowed
    <3> QED BY <3>1, <3>2, <3>3 DEF LoopInv, EvenAfterSleep
  <2>3. CASE ~ (newRenderError > lastRenderError)
    <3>1. UNCHANGED <<lag, renderLag>> BY <1>5, <2>3 DEF Sleep
    <3>2. TypeOK' BY <2>1, <3>1 DEF LoopInv, TypeOK
    <3>3. Follows' /\ SinceRender' /\ Slowed'
      BY <2>1, <3>1 DEF LoopInv, TypeOK, Follows, SinceRender, Slowed
    <3> QED BY <3>1, <3>2, <3>3 DEF LoopInv, EvenAfterSleep
  <2> QED BY <2>2, <2>3
<1> QED BY <1>1, <1>2, <1>3, <1>4, <1>5 DEF Next

-----------------------------------------------------------------------------
\* Simulated time is never ahead by as much as a step, and never behind by more
\* than a step, or what a sleep lasted too long, when a frame is begun.
THEOREM TimeFollows == Spec => []Follows
<1>1. LoopInv => Follows BY DEF LoopInv
<1> QED BY <1>1, InitLoopInv, NextLoopInv, PTL DEF Spec

\* A sleep ends when the errors of showing the frame and the next one break
\* even, up to a tick and what the sleep lasts longer than asked for.
THEOREM SleepBreaksEven == Spec => BreakEven
<1>1. [EvenAfterSleep]_vars =>
        [pc = "sleep" /\ lag' # lag =>
           Abs(newRenderError' - lastRenderError') <= 1 + 2 * MaxOversleep]_vars
  BY DEF EvenAfterSleep
<1> QED BY <1>1, InitLoopInv, NextLoopInv, PTL DEF Spec, BreakEven

-----------------------------------------------------------------------------
(* The tables.                                                              *)

USE UniverseAssumption

Lists(X) == {l \in Seq(X) : IsInjective(l)}

-----------------------------------------------------------------------------
(* Sequences without duplicates, by their sets of elements.                 *)

LEMMA AppendList ==
  ASSUME NEW X, NEW l \in Lists(X), NEW x \in X, x \notin ToSet(l)
  PROVE  Append(l, x) \in Lists(X) /\ ToSet(Append(l, x)) = ToSet(l) \cup {x}
<1> DEFINE m == Append(l, x)
<1>1. l \in Seq(X) /\ Len(l) \in Nat /\ DOMAIN l = 1 .. Len(l)
  BY DEF Lists
<1>2. /\ m \in Seq(X) /\ DOMAIN m = 1 .. Len(l) + 1 /\ m[Len(l) + 1] = x
      /\ \A i \in DOMAIN l : m[i] = l[i] /\ l[i] \in ToSet(l)
  BY <1>1 DEF ToSet
<1> HIDE DEF m
<1>3. \A i \in DOMAIN m : i \in DOMAIN l \/ i = Len(l) + 1
  BY <1>1, <1>2
<1>4. IsInjective(m)
  <2> SUFFICES ASSUME NEW i \in DOMAIN m, NEW j \in DOMAIN m, m[i] = m[j] PROVE i = j
    BY DEF IsInjective
  <2>1. \A a, b \in DOMAIN l : l[a] = l[b] => a = b BY DEF Lists, IsInjective
  <2> QED BY <1>2, <1>3, <2>1
<1>5. ToSet(m) = ToSet(l) \cup {x}
  <2>1. Len(l) + 1 \in DOMAIN m /\ DOMAIN l \subseteq DOMAIN m BY <1>1, <1>2
  <2> QED BY <1>2, <1>3, <2>1 DEF ToSet
<1> QED BY <1>2, <1>4, <1>5 DEF m, Lists

LEMMA ConcatList ==
  ASSUME NEW X, NEW l \in Lists(X), NEW m \in Lists(X), ToSet(l) \cap ToSet(m) = {}
  PROVE  l \o m \in Lists(X) /\ ToSet(l \o m) = ToSet(l) \cup ToSet(m)
<1> DEFINE c == l \o m
           a == Len(l)
           b == Len(m)
<1>1. /\ l \in Seq(X) /\ a \in Nat /\ DOMAIN l = 1 .. a
      /\ m \in Seq(X) /\ b \in Nat /\ DOMAIN m = 1 .. b
  BY DEF Lists
<1>2. /\ c \in Seq(X) /\ DOMAIN c = 1 .. a + b
      /\ \A i \in 1 .. a + b : c[i] = IF i <= a THEN l[i] ELSE m[i - a]
  BY <1>1
<1> HIDE DEF c, a, b
<1>3. \A i \in DOMAIN c : \/ i \in DOMAIN l /\ c[i] = l[i] /\ c[i] \in ToSet(l)
                          \/ /\ i - a \in DOMAIN m /\ i \notin DOMAIN l
                             /\ c[i] = m[i - a] /\ c[i] \in ToSet(m)
  <2> TAKE i \in DOMAIN c
  <2>1. CASE i <= a
    <3>1. i \in DOMAIN l BY <1>1, <1>2, <2>1
    <3> QED BY <1>2, <2>1, <3>1 DEF ToSet
  <2>2. CASE ~ (i <= a)
    <3>1. i - a \in DOMAIN m /\ i \notin DOMAIN l BY <1>1, <1>2, <2>2
    <3> QED BY <1>2, <2>2, <3>1 DEF ToSet
  <2> QED BY <2>1, <2>2
<1>4. /\ \A i \in DOMAIN l : i \in DOMAIN c /\ c[i] = l[i]
      /\ \A i \in DOMAIN m : i + a \in DOMAIN c /\ c[i + a] = m[i]
  <2>1. \A i \in DOMAIN l : i \in DOMAIN c /\ i <= a BY <1>1, <1>2
  <2>2. \A i \in DOMAIN m : i + a \in DOMAIN c /\ ~ (i + a <= a) /\ (i + a) - a = i
    BY <1>1, <1>2
  <2> QED BY <1>2, <2>1, <2>2
<1>5. IsInjective(c)
  <2> SUFFICES ASSUME NEW i \in DOMAIN c, NEW j \in DOMAIN c, c[i] = c[j] PROVE i = j
    BY DEF IsInjective
  <2>1. /\ \A x, y \in DOMAIN l : l[x] = l[y] => x = y
        /\ \A x, y \in DOMAIN m : m[x] = m[y] => x = y
    BY DEF Lists, IsInjective
  <2>2. i \in Nat /\ j \in Nat BY <1>1, <1>2
  <2>3. i - a = j - a => i = j BY <1>1, <2>2
  <2> QED BY <1>3, <2>1, <2>3
<1>6. ToSet(c) = ToSet(l) \cup ToSet(m)
  <2>1. ToSet(c) \subseteq ToSet(l) \cup ToSet(m) BY <1>3 DEF ToSet
  <2>2. ToSet(l) \subseteq ToSet(c) /\ ToSet(m) \subseteq ToSet(c) BY <1>4 DEF ToSet
  <2> QED BY <2>1, <2>2
<1> QED BY <1>2, <1>5, <1>6 DEF c, Lists

\* The last row moves into the gap, and no other.
LEMMA EraseKeyList ==
  ASSUME NEW X, NEW s \in Lists(X), NEW key
  PROVE  EraseKey(s, key) \in Lists(X) /\ ToSet(EraseKey(s, key)) = ToSet(s) \ {key}
<1>1. s \in Seq(X) /\ Len(s) \in Nat /\ DOMAIN s = 1 .. Len(s) /\ IsInjective(s)
  BY DEF Lists
<1>2. CASE key \notin ToSet(s)
  BY <1>2 DEF EraseKey
<1>3. CASE key \in ToSet(s)
  <2>1. PICK k \in DOMAIN s : s[k] = key BY <1>3 DEF ToSet
  <2>2. \A i, j \in DOMAIN s : s[i] = s[j] => i = j BY <1>1 DEF IsInjective
  <2>3. {i \in DOMAIN s : s[i] = key} = {k} BY <2>1, <2>2
  <2>4. k \in Nat BY <1>1, <2>1
  <2>5. Min({k}) = k BY <2>4 DEF Min
  <2> DEFINE n == Len(s)
             g == [s EXCEPT ![k] = s[n]]
             m == Front(g)
  <2>6. EraseKey(s, key) = m BY <1>3, <2>3, <2>5 DEF EraseKey, Last
  <2>7. n \in DOMAIN s /\ n \in Nat BY <1>1, <2>1
  <2>8. g \in Seq(X) /\ Len(g) = n /\ DOMAIN g = DOMAIN s
    <3>1. s[n] \in X BY <1>1, <2>7
    <3> QED BY <1>1, <2>1, <3>1
  <2>9. g[k] = s[n] /\ \A i \in DOMAIN s : i # k => g[i] = s[i] BY <2>1
  <2> HIDE DEF g
  <2>10. m \in Seq(X) /\ DOMAIN m = 1 .. n - 1 /\ \A i \in DOMAIN m : m[i] = g[i]
    BY <2>7, <2>8 DEF Front
  <2> HIDE DEF m
  <2>11. \A i \in DOMAIN m : i \in DOMAIN s /\ i # n BY <1>1, <2>7, <2>10
  <2>12. \A i \in DOMAIN s : i \in DOMAIN m \/ i = n BY <1>1, <2>7, <2>10
  <2> HIDE DEF n
  <2>13. \A i \in DOMAIN m : m[i] = IF i = k THEN s[n] ELSE s[i]
    BY <2>9, <2>10, <2>11
  <2>14. IsInjective(m)
    BY <2>2, <2>7, <2>11, <2>13 DEF IsInjective
  <2>15. ToSet(m) = ToSet(s) \ {key}
    <3>1. \A i \in DOMAIN m : m[i] \in ToSet(s) /\ m[i] # key
      <4> TAKE i \in DOMAIN m
      <4>1. i \in DOMAIN s /\ n \in DOMAIN s /\ i # n BY <2>7, <2>11
      <4>2. s[n] \in ToSet(s) /\ s[i] \in ToSet(s) BY <4>1 DEF ToSet
      <4>3. i = k => s[n] # key BY <2>1, <2>2, <4>1
      <4>4. i # k => s[i] # key BY <2>1, <2>2, <4>1
      <4> QED BY <2>13, <4>2, <4>3, <4>4
    <3>2. \A i \in DOMAIN s : s[i] # key => s[i] \in ToSet(m)
      <4> SUFFICES ASSUME NEW i \in DOMAIN s, s[i] # key PROVE s[i] \in ToSet(m)
        OBVIOUS
      <4>1. i # k BY <2>1
      <4>2. CASE i \in DOMAIN m
        <5>1. m[i] = s[i] BY <2>13, <4>1, <4>2
        <5> QED BY <4>2, <5>1 DEF ToSet
      <4>3. CASE i = n
        <5>1. k \in DOMAIN m BY <2>1, <2>12, <4>1, <4>3
        <5>2. m[k] = s[n] BY <2>13, <5>1
        <5> QED BY <4>3, <5>1, <5>2 DEF ToSet
      <4> QED BY <2>12, <4>2, <4>3
    <3> QED BY <3>1, <3>2 DEF ToSet
  <2> QED BY <2>6, <2>10, <2>14, <2>15 DEF Lists
<1> QED BY <1>2, <1>3

\* EraseAll by its intermediate results.
Erasure(s, keys, m, f) ==
  /\ f = [n \in 0 .. m |-> f[n]]
  /\ f[0] = s
  /\ \A n \in 1 .. m : f[n] = EraseKey(f[n - 1], keys[n])

LEMMA ErasureExists ==
  ASSUME NEW s, NEW keys
  PROVE  \A m \in Nat : \E f : Erasure(s, keys, m, f)
<1> DEFINE B == {m \in Nat : ~ \E f : Erasure(s, keys, m, f)}
<1>1. CASE B = {} BY <1>1
<1>2. CASE B # {}
  <2>0. B \in SUBSET Nat OBVIOUS
  <2> HIDE DEF B
  <2>1. PICK m \in B : \A n \in B : m <= n BY <1>2, <2>0, Smallest
  <2> USE DEF B
  <2>2. CASE m = 0
    <3> DEFINE f == [n \in 0 .. 0 |-> s]
    <3>1. Erasure(s, keys, 0, f) BY DEF Erasure
    <3> QED BY <2>1, <2>2, <3>1
  <2>3. CASE m # 0
    <3>1. m \in Nat /\ m - 1 \in Nat /\ ~ (m <= m - 1) BY <2>1, <2>3
    <3>2. PICK g : Erasure(s, keys, m - 1, g) BY <2>1, <3>1
    <3> DEFINE f == [n \in 0 .. m |-> IF n = m THEN EraseKey(g[m - 1], keys[m]) ELSE g[n]]
    <3>3. f = [n \in 0 .. m |-> f[n]] OBVIOUS
    <3>4. f[m] = EraseKey(g[m - 1], keys[m]) /\ \A n \in 0 .. m - 1 : f[n] = g[n]
      BY <3>1
    <3> HIDE DEF f
    <3>5. f[0] = s BY <3>1, <3>2, <3>4 DEF Erasure
    <3>6. ASSUME NEW n \in 1 .. m PROVE f[n] = EraseKey(f[n - 1], keys[n])
      <4>1. n - 1 \in 0 .. m - 1 BY <3>1
      <4>2. CASE n = m BY <3>4, <4>1, <4>2
      <4>3. CASE n # m
        <5>1. n \in 1 .. m - 1 /\ n \in 0 .. m - 1 BY <3>1, <4>3
        <5>2. g[n] = EraseKey(g[n - 1], keys[n]) BY <3>2, <5>1 DEF Erasure
        <5> QED BY <3>4, <4>1, <5>1, <5>2
      <4> QED BY <4>2, <4>3
    <3>7. Erasure(s, keys, m, f) BY <3>3, <3>5, <3>6 DEF Erasure
    <3> QED BY <2>1, <3>7
  <2> QED BY <2>2, <2>3
<1> QED BY <1>1, <1>2

LEMMA EraseAllErasure ==
  ASSUME NEW s, NEW keys, Len(keys) \in Nat
  PROVE  \E f : Erasure(s, keys, Len(keys), f) /\ EraseAll(s, keys) = f[Len(keys)]
<1> DEFINE m == Len(keys)
           E(g) == [n \in 0 .. m |-> IF n = 0 THEN s ELSE EraseKey(g[n - 1], keys[n])]
           f == CHOOSE g : g = E(g)
<1>1. PICK h : Erasure(s, keys, m, h) BY ErasureExists
<1>a. m \in Nat OBVIOUS
<1>b. EraseAll(s, keys) = f[m] BY DEF EraseAll
<1> HIDE DEF m
<1>2. h = E(h)
  <2>1. \A n \in 0 .. m : n # 0 => n \in 1 .. m BY <1>a
  <2>2. \A n \in 0 .. m : h[n] = IF n = 0 THEN s ELSE EraseKey(h[n - 1], keys[n])
    BY <1>1, <2>1 DEF Erasure
  <2> QED BY <1>1, <2>2 DEF Erasure
<1>3. f = E(f) BY <1>2
<1> HIDE DEF f
<1>4. Erasure(s, keys, m, f)
  <2>1. f = [n \in 0 .. m |-> f[n]] BY <1>3
  <2>2. \A n \in 0 .. m : f[n] = IF n = 0 THEN s ELSE EraseKey(f[n - 1], keys[n])
    BY <1>3
  <2>3. 0 \in 0 .. m /\ \A n \in 1 .. m : n \in 0 .. m /\ n # 0 BY <1>a
  <2> QED BY <2>1, <2>2, <2>3 DEF Erasure
<1> QED BY <1>4, <1>b DEF m

\* What is left are the rows whose keys are not in the range.
LEMMA EraseAllList ==
  ASSUME NEW X, NEW s \in Lists(X), NEW K, NEW keys \in Seq(K)
  PROVE  EraseAll(s, keys) \in Lists(X) /\ ToSet(EraseAll(s, keys)) = ToSet(s) \ ToSet(keys)
<1> DEFINE m == Len(keys)
           Gone(n) == {keys[i] : i \in 1 .. n}
           Right(g, n) == g \in Lists(X) /\ ToSet(g) = ToSet(s) \ Gone(n)
<1>1. m \in Nat /\ DOMAIN keys = 1 .. m OBVIOUS
<1>2. PICK f : Erasure(s, keys, m, f) /\ EraseAll(s, keys) = f[m] BY <1>1, EraseAllErasure
<1> HIDE DEF m
<1> DEFINE B == {n \in 0 .. m : ~Right(f[n], n)}
<1>3. CASE B # {}
  <2>0. B \in SUBSET Nat BY <1>1
  <2> HIDE DEF B
  <2>1. PICK n \in B : \A k \in B : n <= k BY <1>3, <2>0, Smallest
  <2> USE DEF B
  <2>2. CASE n = 0
    <3>1. Gone(0) = {} OBVIOUS
    <3>2. f[0] = s BY <1>2 DEF Erasure
    <3> QED BY <2>1, <2>2, <3>1, <3>2
  <2>3. CASE n # 0
    <3>1. n \in 1 .. m /\ n - 1 \in 0 .. m /\ ~ (n <= n - 1) BY <1>1, <2>1, <2>3
    <3>2. Right(f[n - 1], n - 1) BY <2>1, <3>1
    <3>3. f[n] = EraseKey(f[n - 1], keys[n]) BY <1>2, <3>1 DEF Erasure
    <3>4. Gone(n) = Gone(n - 1) \cup {keys[n]}
      <4>1. \A i \in 1 .. n : i = n \/ i \in 1 .. n - 1 BY <1>1, <3>1
      <4>2. n \in 1 .. n /\ \A i \in 1 .. n - 1 : i \in 1 .. n BY <1>1, <3>1
      <4> QED BY <4>1, <4>2
    <3> HIDE DEF Gone
    <3>5. f[n] \in Lists(X) /\ ToSet(f[n]) = ToSet(f[n - 1]) \ {keys[n]}
      BY <3>2, <3>3, EraseKeyList
    <3>6. Right(f[n], n) BY <3>2, <3>4, <3>5
    <3> QED BY <2>1, <3>6
  <2> QED BY <2>2, <2>3
<1>4. CASE B = {}
  <2>1. Right(f[m], m) BY <1>1, <1>4
  <2>2. Gone(m) = ToSet(keys) BY <1>1 DEF ToSet
  <2> QED BY <1>2, <2>1, <2>2
<1> QED BY <1>3, <1>4

\* A set of numbers below a bound can be enumerated in its order.
Increasing(f) == \A i, j \in DOMAIN f : i < j => f[i] < f[j]
Enumerated(K) == \E f \in [1 .. Cardinality(K) -> K] : Increasing(f)

LEMMA BelowFinite ==
  \A n \in Nat : \A K \in SUBSET (0 .. n - 1) : IsFiniteSet(K) /\ Cardinality(K) \in Nat
<1> TAKE n \in Nat
<1> TAKE K \in SUBSET (0 .. n - 1)
<1>1. n - 1 \in Int /\ 0 \in Int OBVIOUS
<1>2. IsFiniteSet(0 .. n - 1) BY <1>1, FS_Interval
<1> QED BY <1>2, FS_Subset, FS_CardinalityType

LEMMA OrderExists == \A n \in Nat : \A K \in SUBSET (0 .. n - 1) : Enumerated(K)
<1> DEFINE B == {n \in Nat : \E K \in SUBSET (0 .. n - 1) : ~Enumerated(K)}
<1>1. CASE B = {} BY <1>1
<1>2. CASE B # {}
  <2>0. B \in SUBSET Nat OBVIOUS
  <2> HIDE DEF B
  <2>1. PICK n \in B : \A m \in B : n <= m BY <1>2, <2>0, Smallest
  <2> USE DEF B
  <2>2. PICK K \in SUBSET (0 .. n - 1) : ~Enumerated(K) BY <2>1
  <2>3. n \in Nat /\ IsFiniteSet(K) /\ Cardinality(K) \in Nat BY <2>1, BelowFinite
  <2>4. CASE K = {}
    <3>1. Cardinality(K) = 0 BY <2>4, FS_EmptySet
    <3>2. <<>> \in [1 .. Cardinality(K) -> K] /\ Increasing(<<>>)
      BY <2>4, <3>1 DEF Increasing
    <3> QED BY <2>2, <3>2 DEF Enumerated
  <2>5. CASE K # {}
    <3>1. n # 0
      <4>1. 0 .. 0 - 1 = {} OBVIOUS
      <4> QED BY <2>2, <2>5, <4>1
    <3> DEFINE l == n - 1
    <3>2. l \in Nat /\ ~ (n <= l) BY <2>3, <3>1
    <3>3. l \notin B BY <2>1, <3>2
    <3>4. \A x \in 0 .. l : x = l \/ x \in 0 .. l - 1 BY <3>2
    <3> HIDE DEF l
    <3>5. K \in SUBSET (0 .. l) BY <2>2 DEF l
    <3>6. CASE l \notin K
      <4>1. K \in SUBSET (0 .. l - 1) BY <3>4, <3>5, <3>6
      <4> QED BY <2>2, <3>2, <3>3, <4>1
    <3>7. CASE l \in K
      <4> DEFINE rest == K \ {l}
                 k == Cardinality(rest)
      <4>1. rest \in SUBSET (0 .. l - 1) BY <3>4, <3>5
      <4>2. PICK g \in [1 .. k -> rest] : Increasing(g)
        BY <3>2, <3>3, <4>1 DEF Enumerated
      <4>3. k \in Nat /\ Cardinality(K) = k + 1
        <5>1. k \in Nat BY <3>2, <4>1, BelowFinite
        <5>2. k = Cardinality(K) - 1 BY <2>3, <3>7, FS_RemoveElement
        <5> HIDE DEF k
        <5> QED BY <2>3, <5>1, <5>2
      <4> HIDE DEF k
      <4> DEFINE f == [i \in 1 .. k + 1 |-> IF i <= k THEN g[i] ELSE l]
      <4>4. \A i \in 1 .. k + 1 : i <= k => i \in 1 .. k /\ g[i] \in 0 .. l - 1 /\ g[i] \in K
        <5>1. \A i \in 1 .. k + 1 : i <= k => i \in 1 .. k BY <4>3
        <5>2. \A i \in 1 .. k : g[i] \in rest BY <4>2
        <5> QED BY <4>1, <5>1, <5>2
      <4>5. f \in [1 .. Cardinality(K) -> K] BY <3>7, <4>3, <4>4
      <4>6. Increasing(f)
        <5> SUFFICES ASSUME NEW i \in 1 .. k + 1, NEW j \in 1 .. k + 1, i < j
                     PROVE  f[i] < f[j]
          BY DEF Increasing
        <5>1. i <= k /\ g[i] \in 0 .. l - 1 /\ f[i] = g[i] BY <4>3, <4>4
        <5>2. CASE j <= k BY <4>2, <4>4, <5>1, <5>2 DEF Increasing
        <5>3. CASE ~ (j <= k) BY <3>2, <5>1, <5>3
        <5> QED BY <5>2, <5>3
      <4> QED BY <2>2, <4>5, <4>6 DEF Enumerated
    <3> QED BY <3>6, <3>7
  <2> QED BY <2>4, <2>5
<1> QED BY <1>1, <1>2

\* A sorted sequence has the ids it was made of, each once.
LEMMA SortedList ==
  ASSUME NEW S \in SUBSET Ids
  PROVE  Sorted(S) \in Lists(Ids) /\ ToSet(Sorted(S)) = S
<1> DEFINE n == Cardinality(S)
           f == Sorted(S)
<1>1. S \in SUBSET (0 .. MaxId - 1) /\ MaxId \in Nat BY UniverseAssumption DEF Ids
<1>2. IsFiniteSet(S) /\ n \in Nat /\ Enumerated(S) BY <1>1, BelowFinite, OrderExists
<1>3. f \in [1 .. n -> S] /\ Increasing(f) BY <1>2 DEF Sorted, Enumerated, Increasing
<1> HIDE DEF f, n
<1>4. f \in Injection(1 .. n, S)
  <2> SUFFICES ASSUME NEW i \in 1 .. n, NEW j \in 1 .. n, f[i] = f[j] PROVE i = j
    BY <1>3 DEF Injection, IsInjective
  <2>1. f[i] \in Int /\ f[j] \in Int
    <3>1. f[i] \in 0 .. MaxId - 1 /\ f[j] \in 0 .. MaxId - 1 BY <1>1, <1>3
    <3> QED BY <1>1, <3>1
  <2>2. i < j => f[i] < f[j] BY <1>3 DEF Increasing
  <2>3. j < i => f[j] < f[i] BY <1>3 DEF Increasing
  <2> QED BY <1>2, <2>1, <2>2, <2>3
<1>5. IsFiniteSet(1 .. n) /\ Cardinality(1 .. n) = n
  <2>1. n \in Int /\ 1 \in Int BY <1>2
  <2>2. IsFiniteSet(1 .. n) /\ Cardinality(1 .. n) = IF 1 > n THEN 0 ELSE n - 1 + 1
    BY <2>1, FS_Interval
  <2> QED BY <1>2, <2>2
<1>6. f \in Surjection(1 .. n, S) BY <1>2, <1>4, <1>5, FS_Injection DEF n
<1>7. ToSet(f) = S BY <1>3, <1>6 DEF ToSet, Surjection
<1>8. f \in Seq(Ids) /\ IsInjective(f) BY <1>2, <1>3, <1>4 DEF Injection
<1> QED BY <1>7, <1>8 DEF f, Lists

-----------------------------------------------------------------------------
(* The inductive invariant.                                                 *)

Typed ==
  /\ UniverseTypeOK
  /\ rows \in [Components -> Lists(Ids)]
  /\ toInsert \in [Components -> Lists(Ids)]
  /\ scope \in Lists(Handles)

\* What is to be inserted has an inserter, and by the time the inserter is
\* closed its table has no such row any more.
InsertedOnce ==
  \A c \in Components : \A id \in ToSet(toInsert[c]) :
    /\ Open(Inserter(c))
    /\ Has(c, id) => id \in toErase[c] /\ Before(Eraser(c), Inserter(c))

\* Ids that are in use are neither to be erased nor erased, nor given out again.
LiveApart ==
  /\ \A id \in live \cup ToSet(dead) \cup gone : id < nextId
  /\ live \cap (ToSet(dead) \cup gone) = {}

\* Rows are of entities in use, or of such that are to be erased; and so are
\* those to be inserted, which are then in before the entities are erased.
RowsAlive ==
  \A c \in Components :
    /\ \A id \in ToSet(rows[c]) : id \notin gone /\ (id \in live \/ id \in ToSet(dead))
    /\ \A id \in ToSet(toInsert[c]) :
         /\ id \notin gone
         /\ id \in live \/ (id \in ToSet(dead) /\ Before(Inserter(c), EntityEraser))

TablesInv == Typed /\ InsertedOnce /\ LiveApart /\ RowsAlive

LEMMA InitTablesInv == UniverseInit => TablesInv
<1> SUFFICES ASSUME UniverseInit PROVE TablesInv
  OBVIOUS
<1> USE DEF UniverseInit
<1>1. <<>> \in Lists(Ids) /\ <<>> \in Lists(Handles) /\ ToSet(<<>>) = {}
  BY DEF Lists, IsInjective, ToSet
<1>2. Typed
  <2>1. Len(<<>>) = 0 /\ nextId \in 0 .. MaxId OBVIOUS
  <2> QED BY <1>1, <2>1 DEF Typed, UniverseTypeOK, Lists
<1>3. InsertedOnce BY <1>1 DEF InsertedOnce
<1>4. LiveApart BY <1>1 DEF LiveApart
<1>5. RowsAlive BY <1>1 DEF RowsAlive
<1> QED BY <1>2, <1>3, <1>4, <1>5 DEF TablesInv

-----------------------------------------------------------------------------
(* The open handles.                                                        *)

\* A handle that is opened comes after all others.
LEMMA Opened ==
  ASSUME scope \in Lists(Handles), NEW h \in Handles, ~Open(h), scope' = Append(scope, h)
  PROVE  /\ scope' \in Lists(Handles)
         /\ \A f : Open(f) => Open(f)'
         /\ \A f, g : Before(f, g) => Before(f, g)'
<1>1. scope \in Seq(Handles) /\ Len(scope) \in Nat /\ DOMAIN scope = 1 .. Len(scope)
  BY DEF Lists
<1>2. h \notin ToSet(scope) BY DEF Open, ToSet
<1>3. scope' \in Lists(Handles) BY <1>2, AppendList
<1>4. \A i \in DOMAIN scope : i \in DOMAIN scope' /\ scope'[i] = scope[i] BY <1>1
<1> QED BY <1>3, <1>4 DEF Open, Before

\* The handle that is closed is the last one: it acted before all others.
LEMMA Closed ==
  ASSUME scope \in Lists(Handles), NEW h, scope # <<>>, Last(scope) = h,
         scope' = Front(scope)
  PROVE  /\ scope' \in Lists(Handles)
         /\ \A g : ~Before(g, h)
         /\ \A f : f # h /\ Open(f) => Open(f)'
         /\ \A f, g : f # h /\ Before(f, g) => Before(f, g)'
<1> DEFINE n == Len(scope)
<1>1. scope \in Seq(Handles) /\ n \in Nat /\ DOMAIN scope = 1 .. n /\ n # 0 BY DEF Lists
<1>2. \A i, j \in DOMAIN scope : scope[i] = scope[j] => i = j BY DEF Lists, IsInjective
<1>3. n \in DOMAIN scope /\ scope[n] = h BY <1>1 DEF Last
<1>4. scope' \in Seq(Handles) /\ DOMAIN scope' = 1 .. n - 1
      /\ \A i \in DOMAIN scope' : scope'[i] = scope[i]
  BY <1>1 DEF Front
<1> HIDE DEF n
<1>5. \A i \in DOMAIN scope : i \in DOMAIN scope' \/ i = n BY <1>1, <1>4
<1>6. DOMAIN scope' \subseteq DOMAIN scope BY <1>1, <1>4
<1>7. scope' \in Lists(Handles) BY <1>2, <1>4, <1>6 DEF Lists, IsInjective
<1>8. \A g : ~Before(g, h)
  <2> SUFFICES ASSUME NEW i \in DOMAIN scope, NEW j \in DOMAIN scope, scope[j] = h, i > j
               PROVE  FALSE
    BY DEF Before
  <2>1. j = n BY <1>2, <1>3
  <2> QED BY <1>1, <2>1
<1>9. \A f : f # h /\ Open(f) => Open(f)' BY <1>3, <1>4, <1>5 DEF Open
<1>10. \A f, g : f # h /\ Before(f, g) => Before(f, g)'
  <2> SUFFICES ASSUME NEW i \in DOMAIN scope, NEW j \in DOMAIN scope, scope[i] # h, i > j
               PROVE  i \in DOMAIN scope' /\ j \in DOMAIN scope'
    BY <1>4 DEF Before
  <2>1. i \in DOMAIN scope' BY <1>3, <1>5
  <2>2. j # n BY <1>1
  <2> QED BY <1>5, <2>1, <2>2
<1> QED BY <1>7, <1>8, <1>9, <1>10

LEMMA SameScope ==
  ASSUME UNCHANGED scope
  PROVE  /\ \A f : Open(f)' <=> Open(f)
         /\ \A f, g : Before(f, g)' <=> Before(f, g)
BY DEF Open, Before

\* Inserters, erasers and the eraser of entities are different handles.
LEMMA HandlesDiffer ==
  ASSUME NEW c \in Components, NEW d \in Components
  PROVE  /\ Inserter(c) # Eraser(d) /\ Inserter(c) # EntityEraser /\ Eraser(c) # EntityEraser
         /\ c # d => Inserter(c) # Inserter(d) /\ Eraser(c) # Eraser(d)
         /\ Inserter(c) \in Handles /\ Eraser(c) \in Handles /\ EntityEraser \in Handles
<1>1. Inserter(c).kind = "insert" /\ Eraser(d).kind = "erase" /\ Eraser(c).kind = "erase"
      /\ EntityEraser.kind = "eraseEntity"
  BY DEF Inserter, Eraser, EntityEraser
<1>2. /\ Inserter(c).of = {c} /\ Inserter(d).of = {d}
      /\ Eraser(c).of = {c} /\ Eraser(d).of = {d}
  BY DEF Inserter, Eraser
<1>3. c # d => {c} # {d} OBVIOUS
<1>4. Inserter(c) \in Handles /\ Eraser(c) \in Handles /\ EntityEraser \in Handles
  BY DEF Handles
<1> QED BY <1>1, <1>2, <1>3, <1>4

-----------------------------------------------------------------------------
(* What clients ask for while queries run.                                  *)

LEMMA NewIdTablesInv == TablesInv /\ NewId => TablesInv'
<1> SUFFICES ASSUME TablesInv, NewId PROVE TablesInv'
  OBVIOUS
<1> USE DEF TablesInv, NewId, tables, asked
<1>1. nextId \in 0 .. MaxId /\ nextId \in Ids /\ nextId' \in 0 .. MaxId
  BY UniverseAssumption DEF Typed, UniverseTypeOK, Ids
<1>2. Typed' BY <1>1 DEF Typed, UniverseTypeOK
<1>3. InsertedOnce' BY SameScope DEF InsertedOnce, Has
<1>4. LiveApart'
  <2>1. \A id : id < nextId => id # nextId BY <1>1
  <2>2. \A id \in Ids : id < nextId => id < nextId' BY <1>1 DEF Ids
  <2>3. live \cup ToSet(dead) \cup gone \subseteq Ids
    BY DEF Typed, UniverseTypeOK, ToSet
  <2>4. nextId < nextId' BY <1>1
  <2> QED BY <2>1, <2>2, <2>3, <2>4 DEF LiveApart
<1>5. RowsAlive' BY SameScope DEF RowsAlive
<1> QED BY <1>2, <1>3, <1>4, <1>5

LEMMA InsertTablesInv == \A c \in Components, id \in Ids : TablesInv /\ Insert(c, id) => TablesInv'
<1> TAKE c \in Components, id \in Ids
<1> SUFFICES ASSUME TablesInv, Insert(c, id) PROVE TablesInv'
  OBVIOUS
<1> USE DEF TablesInv, tables
<1>1. /\ Open(Inserter(c)) /\ id \in live /\ id \notin ToSet(toInsert[c])
      /\ Has(c, id) => id \in toErase[c] /\ Before(Eraser(c), Inserter(c))
      /\ toInsert' = [toInsert EXCEPT ![c] = Append(@, id)]
      /\ UNCHANGED <<rows, isUnsorted, toErase, dead, nextId, scope, live, gone>>
  BY DEF Insert, Insertable
<1>2. toInsert \in [Components -> Lists(Ids)] BY DEF Typed
<1>3. toInsert[c] \in Lists(Ids) BY <1>2
<1>4. Append(toInsert[c], id) \in Lists(Ids)
      /\ ToSet(Append(toInsert[c], id)) = ToSet(toInsert[c]) \cup {id}
  BY <1>1, <1>3, AppendList
<1>5. /\ toInsert'[c] = Append(toInsert[c], id)
      /\ \A d \in Components : d # c => toInsert'[d] = toInsert[d]
      /\ toInsert' \in [Components -> Lists(Ids)]
  BY <1>1, <1>2, <1>4
<1>6. toInsert' \in [Components -> Seq(Ids)]
  <2>1. Lists(Ids) \subseteq Seq(Ids) BY DEF Lists
  <2> QED BY <1>5, <2>1
<1>7. Typed' BY <1>1, <1>5, <1>6 DEF Typed, UniverseTypeOK
<1>8. \A d \in Components : \A k \in ToSet(toInsert'[d]) : k \in ToSet(toInsert[d]) \/ (d = c /\ k = id)
  BY <1>4, <1>5
<1>9. InsertedOnce'
  <2> SUFFICES ASSUME NEW d \in Components, NEW k \in ToSet(toInsert'[d])
               PROVE  /\ Open(Inserter(d))
                      /\ Has(d, k) => k \in toErase[d] /\ Before(Eraser(d), Inserter(d))
    BY <1>1, SameScope DEF InsertedOnce, Has
  <2> QED BY <1>1, <1>8 DEF InsertedOnce
<1>10. LiveApart' BY <1>1 DEF LiveApart
<1>11. RowsAlive'
  <2>1. id \notin gone BY <1>1 DEF LiveApart
  <2> SUFFICES ASSUME NEW d \in Components, NEW k \in ToSet(toInsert'[d])
               PROVE  /\ k \notin gone
                      /\ k \in live \/ (k \in ToSet(dead) /\ Before(Inserter(d), EntityEraser))
    BY <1>1, SameScope DEF RowsAlive
  <2> QED BY <1>1, <1>8, <2>1 DEF RowsAlive
<1> QED BY <1>7, <1>9, <1>10, <1>11

LEMMA EraseTablesInv == \A c \in Components, id \in Ids : TablesInv /\ Erase(c, id) => TablesInv'
<1> TAKE c \in Components, id \in Ids
<1> SUFFICES ASSUME TablesInv, Erase(c, id) PROVE TablesInv'
  OBVIOUS
<1> USE DEF TablesInv, tables
<1>1. /\ toErase' = [toErase EXCEPT ![c] = @ \cup {id}]
      /\ UNCHANGED <<rows, isUnsorted, toInsert, dead, nextId, scope, live, gone>>
  BY DEF Erase
<1>2. toErase \in [Components -> SUBSET Ids] BY DEF Typed, UniverseTypeOK
<1>3. toErase' \in [Components -> SUBSET Ids] BY <1>1, <1>2
<1>4. \A d \in Components : toErase[d] \subseteq toErase'[d] BY <1>1, <1>2
<1>5. Typed' BY <1>1, <1>3 DEF Typed, UniverseTypeOK
<1>6. InsertedOnce' BY <1>1, <1>4, SameScope DEF InsertedOnce, Has
<1>7. LiveApart' BY <1>1 DEF LiveApart
<1>8. RowsAlive' BY <1>1, SameScope DEF RowsAlive
<1> QED BY <1>5, <1>6, <1>7, <1>8

LEMMA EraseEntityTablesInv == \A id \in Ids : TablesInv /\ EraseEntity(id) => TablesInv'
<1> TAKE id \in Ids
<1> SUFFICES ASSUME TablesInv, EraseEntity(id) PROVE TablesInv'
  OBVIOUS
<1> USE DEF TablesInv, tables
<1>1. /\ Len(dead) < MaxDead /\ id < nextId
      /\ \A c \in Components : id \in ToSet(toInsert[c]) => Before(Inserter(c), EntityEraser)
      /\ dead' = Append(dead, id) /\ live' = live \ {id}
      /\ UNCHANGED <<rows, isUnsorted, toInsert, toErase, nextId, scope, gone>>
  BY DEF EraseEntity
<1>2. dead \in Seq(Ids) /\ Len(dead) \in Nat BY DEF Typed, UniverseTypeOK
<1>3. dead' \in Seq(Ids) /\ Len(dead') = Len(dead) + 1
      /\ DOMAIN dead = 1 .. Len(dead) /\ DOMAIN dead' = 1 .. Len(dead) + 1
      /\ dead'[Len(dead) + 1] = id /\ \A i \in DOMAIN dead : dead'[i] = dead[i]
  BY <1>1, <1>2
<1>4. ToSet(dead') = ToSet(dead) \cup {id}
  <2>1. \A i \in DOMAIN dead' : i \in DOMAIN dead \/ i = Len(dead) + 1 BY <1>2, <1>3
  <2>2. Len(dead) + 1 \in DOMAIN dead' /\ DOMAIN dead \subseteq DOMAIN dead' BY <1>2, <1>3
  <2> QED BY <1>3, <2>1, <2>2 DEF ToSet
<1>5. Len(dead') <= MaxDead BY <1>1, <1>2, <1>3, UniverseAssumption
<1>6. Typed' BY <1>1, <1>3, <1>5 DEF Typed, UniverseTypeOK
<1>7. InsertedOnce' BY <1>1, SameScope DEF InsertedOnce, Has
<1>8. LiveApart' BY <1>1, <1>4 DEF LiveApart
<1>9. RowsAlive' BY <1>1, <1>4, SameScope DEF RowsAlive
<1> QED BY <1>6, <1>7, <1>8, <1>9

-----------------------------------------------------------------------------
(* What clients do between queries.                                         *)

LEMMA OpenHandleTablesInv == \A h \in Handles : TablesInv /\ OpenHandle(h) => TablesInv'
<1> TAKE h \in Handles
<1> SUFFICES ASSUME TablesInv, OpenHandle(h) PROVE TablesInv'
  OBVIOUS
<1> USE DEF TablesInv, tables, asked
<1>1. /\ Len(scope) < MaxHandles /\ ~Open(h) /\ scope' = Append(scope, h)
      /\ UNCHANGED <<rows, isUnsorted, toInsert, toErase, dead, nextId, live, gone>>
  BY DEF OpenHandle
<1>2. scope \in Lists(Handles) BY DEF Typed
<1>3. /\ scope' \in Lists(Handles)
      /\ \A f : Open(f) => Open(f)'
      /\ \A f, g : Before(f, g) => Before(f, g)'
  BY <1>1, <1>2, Opened
<1>4. scope' \in Seq(Handles) /\ Len(scope') <= MaxHandles
  <2>1. scope \in Seq(Handles) BY <1>2 DEF Lists
  <2> QED BY <1>1, <2>1, UniverseAssumption
<1>5. Typed' BY <1>1, <1>3, <1>4 DEF Typed, UniverseTypeOK
<1>6. InsertedOnce' BY <1>1, <1>3 DEF InsertedOnce, Has
<1>7. LiveApart' BY <1>1 DEF LiveApart
<1>8. RowsAlive' BY <1>1, <1>3 DEF RowsAlive
<1> QED BY <1>5, <1>6, <1>7, <1>8

\* What closing a handle means for the handles that stay open.
LEMMA CloseScope ==
  ASSUME TablesInv, NEW h, Close(h)
  PROVE  /\ scope' \in Lists(Handles) /\ scope' \in Seq(Handles) /\ Len(scope') <= MaxHandles
         /\ nextId' = nextId
         /\ \A g : ~Before(g, h)
         /\ \A f : f # h /\ Open(f) => Open(f)'
         /\ \A f, g : f # h /\ Before(f, g) => Before(f, g)'
<1>1. scope \in Lists(Handles) /\ scope \in Seq(Handles) /\ Len(scope) <= MaxHandles
  BY DEF TablesInv, Typed, UniverseTypeOK
<1>2. scope # <<>> /\ Last(scope) = h /\ scope' = Front(scope) /\ nextId' = nextId
  BY DEF Close
<1>3. Len(scope') <= MaxHandles BY <1>1, <1>2, UniverseAssumption DEF Front
<1>4. scope' \in Lists(Handles) BY <1>1, <1>2, Closed
<1>5. /\ \A g : ~Before(g, h)
      /\ \A f : f # h /\ Open(f) => Open(f)'
      /\ \A f, g : f # h /\ Before(f, g) => Before(f, g)'
  BY <1>1, <1>2, Closed
<1> QED BY <1>2, <1>3, <1>4, <1>5 DEF Lists

LEMMA CloseInserterTablesInv == \A c \in Components : TablesInv /\ CloseInserter(c) => TablesInv'
<1> TAKE c \in Components
<1> SUFFICES ASSUME TablesInv, CloseInserter(c) PROVE TablesInv'
  OBVIOUS
<1> USE DEF TablesInv, tables
<1>1. /\ Close(Inserter(c))
      /\ rows' = [rows EXCEPT ![c] = @ \o toInsert[c]]
      /\ isUnsorted' = [isUnsorted EXCEPT ![c] = @ \/ toInsert[c] # <<>>]
      /\ toInsert' = [toInsert EXCEPT ![c] = <<>>]
      /\ UNCHANGED <<toErase, dead, live, gone>>
  BY DEF CloseInserter, InsertRange
<1>2. rows \in [Components -> Lists(Ids)] /\ toInsert \in [Components -> Lists(Ids)]
      /\ isUnsorted \in [Components -> BOOLEAN]
  BY DEF Typed, UniverseTypeOK
<1>3. /\ scope' \in Lists(Handles) /\ scope' \in Seq(Handles) /\ Len(scope') <= MaxHandles
      /\ nextId' = nextId
      /\ \A g : ~Before(g, Inserter(c))
      /\ \A f : f # Inserter(c) /\ Open(f) => Open(f)'
      /\ \A f, g : f # Inserter(c) /\ Before(f, g) => Before(f, g)'
  BY <1>1, CloseScope
<1>4. ToSet(rows[c]) \cap ToSet(toInsert[c]) = {}
  BY <1>3 DEF InsertedOnce, Has
<1>5. rows[c] \o toInsert[c] \in Lists(Ids)
      /\ ToSet(rows[c] \o toInsert[c]) = ToSet(rows[c]) \cup ToSet(toInsert[c])
  <2>1. rows[c] \in Lists(Ids) /\ toInsert[c] \in Lists(Ids) BY <1>2
  <2> QED BY <1>4, <2>1, ConcatList
<1>6. <<>> \in Lists(Ids) /\ ToSet(<<>>) = {} BY DEF Lists, IsInjective, ToSet
<1>7. /\ rows' \in [Components -> Lists(Ids)] /\ toInsert' \in [Components -> Lists(Ids)]
      /\ rows'[c] = rows[c] \o toInsert[c] /\ toInsert'[c] = <<>>
      /\ \A d \in Components : d # c => rows'[d] = rows[d] /\ toInsert'[d] = toInsert[d]
  BY <1>1, <1>2, <1>5, <1>6
<1>8. isUnsorted' \in [Components -> BOOLEAN] BY <1>1, <1>2
<1>9. Typed'
  <2>1. Lists(Ids) \subseteq Seq(Ids) BY DEF Lists
  <2>2. rows' \in [Components -> Seq(Ids)] /\ toInsert' \in [Components -> Seq(Ids)]
    BY <1>7, <2>1
  <2> QED BY <1>1, <1>3, <1>7, <1>8, <2>2 DEF Typed, UniverseTypeOK
<1>10. InsertedOnce'
  <2> SUFFICES ASSUME NEW d \in Components, NEW k \in ToSet(toInsert'[d])
               PROVE  /\ Open(Inserter(d))'
                      /\ Has(d, k)' => k \in toErase'[d] /\ Before(Eraser(d), Inserter(d))'
    BY DEF InsertedOnce, Inserter, Eraser
  <2>1. d # c BY <1>6, <1>7
  <2>2. Inserter(d) # Inserter(c) /\ Eraser(d) # Inserter(c) BY <2>1, HandlesDiffer
  <2>3. k \in ToSet(toInsert[d]) /\ (Has(d, k)' => Has(d, k)) BY <1>7, <2>1 DEF Has
  <2>4. Open(Inserter(d)) /\ (Has(d, k) => k \in toErase[d] /\ Before(Eraser(d), Inserter(d)))
    BY <2>3 DEF InsertedOnce
  <2>5. (\A f : f # Inserter(c) /\ Open(f) => Open(f)') => Open(Inserter(d))'
    BY <2>2, <2>4
  <2> QED BY <1>1, <1>3, <2>2, <2>3, <2>4
<1>11. LiveApart' BY <1>1, <1>3 DEF LiveApart
<1>12. RowsAlive'
  <2>1. \A d \in Components : \A k \in ToSet(rows'[d]) : k \in ToSet(rows[d]) \/ k \in ToSet(toInsert[d])
    BY <1>5, <1>7
  <2>2. ASSUME NEW d \in Components, NEW k \in ToSet(rows'[d])
        PROVE  k \notin gone' /\ (k \in live' \/ k \in ToSet(dead'))
    BY <1>1, <2>1, <2>2 DEF RowsAlive
  <2>3. ASSUME NEW d \in Components, NEW k \in ToSet(toInsert'[d])
        PROVE  /\ k \notin gone'
               /\ k \in live' \/ (k \in ToSet(dead') /\ Before(Inserter(d), EntityEraser)')
    <3>1. d # c BY <1>6, <1>7, <2>3
    <3>2. Inserter(d) # Inserter(c) BY <3>1, HandlesDiffer
    <3>3. k \in ToSet(toInsert[d]) BY <1>7, <2>3, <3>1
    <3> QED BY <1>1, <1>3, <3>2, <3>3 DEF RowsAlive
  <2> QED BY <2>2, <2>3 DEF RowsAlive, Inserter, EntityEraser
<1> QED BY <1>9, <1>10, <1>11, <1>12

LEMMA CloseEraserTablesInv == \A c \in Components : TablesInv /\ CloseEraser(c) => TablesInv'
<1> TAKE c \in Components
<1> SUFFICES ASSUME TablesInv, CloseEraser(c) PROVE TablesInv'
  OBVIOUS
<1> USE DEF TablesInv, tables
<1> DEFINE left == EraseAll(rows[c], Sorted(toErase[c]))
<1>1. /\ Close(Eraser(c))
      /\ rows' = [d \in Components |->
                    IF d \in {c} THEN EraseAll(rows[d], Sorted(toErase[c])) ELSE rows[d]]
      /\ isUnsorted' = [d \in Components |->
           isUnsorted[d] \/ (d \in {c} /\ \E id \in ToSet(Sorted(toErase[c])) : Has(d, id))]
      /\ toErase' = [toErase EXCEPT ![c] = {}]
      /\ UNCHANGED <<toInsert, dead, live, gone>>
  BY DEF CloseEraser, EraseRange
<1>2. rows \in [Components -> Lists(Ids)] /\ toErase \in [Components -> SUBSET Ids]
      /\ isUnsorted \in [Components -> BOOLEAN]
  BY DEF Typed, UniverseTypeOK
<1>3. /\ scope' \in Lists(Handles) /\ scope' \in Seq(Handles) /\ Len(scope') <= MaxHandles
      /\ nextId' = nextId
      /\ \A g : ~Before(g, Eraser(c))
      /\ \A f : f # Eraser(c) /\ Open(f) => Open(f)'
      /\ \A f, g : f # Eraser(c) /\ Before(f, g) => Before(f, g)'
  BY <1>1, CloseScope
<1>4. left \in Lists(Ids) /\ ToSet(left) = ToSet(rows[c]) \ toErase[c]
  <2>1. toErase[c] \in SUBSET Ids /\ rows[c] \in Lists(Ids) BY <1>2
  <2>2. Sorted(toErase[c]) \in Lists(Ids) /\ ToSet(Sorted(toErase[c])) = toErase[c]
    BY <2>1, SortedList
  <2>3. Sorted(toErase[c]) \in Seq(Ids) BY <2>2 DEF Lists
  <2> QED BY <2>1, <2>2, <2>3, EraseAllList
<1> HIDE DEF left
<1>5. /\ rows' \in [Components -> Lists(Ids)] /\ rows'[c] = left
      /\ \A d \in Components : d # c => rows'[d] = rows[d]
      /\ toErase' \in [Components -> SUBSET Ids]
      /\ \A d \in Components : d # c => toErase'[d] = toErase[d]
  BY <1>1, <1>2, <1>4 DEF left
<1>6. isUnsorted' \in [Components -> BOOLEAN]
  <2>1. \A d \in Components :
          (isUnsorted[d] \/ (d \in {c} /\ \E id \in ToSet(Sorted(toErase[c])) : Has(d, id))) \in BOOLEAN
    BY <1>2
  <2> QED BY <1>1, <2>1
<1>7. Typed'
  <2>1. Lists(Ids) \subseteq Seq(Ids) BY DEF Lists
  <2>2. rows' \in [Components -> Seq(Ids)] BY <1>5, <2>1
  <2> QED BY <1>1, <1>3, <1>5, <1>6, <2>2 DEF Typed, UniverseTypeOK
<1>8. InsertedOnce'
  <2> SUFFICES ASSUME NEW d \in Components, NEW k \in ToSet(toInsert'[d])
               PROVE  /\ Open(Inserter(d))'
                      /\ Has(d, k)' => k \in toErase'[d] /\ Before(Eraser(d), Inserter(d))'
    BY DEF InsertedOnce, Inserter, Eraser
  <2>1. Open(Inserter(d)) /\ (Has(d, k) => k \in toErase[d] /\ Before(Eraser(d), Inserter(d)))
    BY <1>1 DEF InsertedOnce
  <2>2. Inserter(d) # Eraser(c) BY HandlesDiffer
  <2>3. Open(Inserter(d))' BY <1>3, <2>1, <2>2
  <2>4. CASE d = c
    <3>1. Has(d, k)' => Has(d, k) /\ k \notin toErase[d] BY <1>4, <1>5, <2>4 DEF Has
    <3> QED BY <2>1, <2>3, <3>1
  <2>5. CASE d # c
    <3>1. Eraser(d) # Eraser(c) BY <2>5, HandlesDiffer
    <3>2. Has(d, k)' => Has(d, k) BY <1>5, <2>5 DEF Has
    <3> QED BY <1>3, <1>5, <2>1, <2>3, <2>5, <3>1, <3>2
  <2> QED BY <2>4, <2>5
<1>9. LiveApart' BY <1>1, <1>3 DEF LiveApart
<1>10. RowsAlive'
  <2>1. \A d \in Components : \A k \in ToSet(rows'[d]) : k \in ToSet(rows[d]) BY <1>4, <1>5
  <2>2. ASSUME NEW d \in Components, NEW k \in ToSet(rows'[d])
        PROVE  k \notin gone' /\ (k \in live' \/ k \in ToSet(dead'))
    BY <1>1, <2>1, <2>2 DEF RowsAlive
  <2>3. ASSUME NEW d \in Components, NEW k \in ToSet(toInsert'[d])
        PROVE  /\ k \notin gone'
               /\ k \in live' \/ (k \in ToSet(dead') /\ Before(Inserter(d), EntityEraser)')
    <3>1. Inserter(d) # Eraser(c) BY HandlesDiffer
    <3> QED BY <1>1, <1>3, <2>3, <3>1 DEF RowsAlive
  <2> QED BY <2>2, <2>3 DEF RowsAlive, Inserter, EntityEraser
<1> QED BY <1>7, <1>8, <1>9, <1>10

LEMMA CloseEntityEraserTablesInv == TablesInv /\ CloseEntityEraser => TablesInv'
<1> SUFFICES ASSUME TablesInv, CloseEntityEraser PROVE TablesInv'
  OBVIOUS
<1> USE DEF TablesInv, tables
<1>1. /\ Close(EntityEraser)
      /\ rows' = [d \in Components |-> IF d \in Components THEN EraseAll(rows[d], dead) ELSE rows[d]]
      /\ isUnsorted' = [d \in Components |->
           isUnsorted[d] \/ (d \in Components /\ \E id \in ToSet(dead) : Has(d, id))]
      /\ dead' = <<>>
      /\ gone' = gone \cup ToSet(dead)
      /\ UNCHANGED <<toInsert, toErase, live>>
  BY DEF CloseEntityEraser, EraseRange
<1>2. rows \in [Components -> Lists(Ids)] /\ dead \in Seq(Ids)
      /\ isUnsorted \in [Components -> BOOLEAN]
  BY DEF Typed, UniverseTypeOK
<1>3. /\ scope' \in Lists(Handles) /\ scope' \in Seq(Handles) /\ Len(scope') <= MaxHandles
      /\ nextId' = nextId
      /\ \A g : ~Before(g, EntityEraser)
      /\ \A f : f # EntityEraser /\ Open(f) => Open(f)'
      /\ \A f, g : f # EntityEraser /\ Before(f, g) => Before(f, g)'
  BY <1>1, CloseScope
<1>4. \A d \in Components : EraseAll(rows[d], dead) \in Lists(Ids)
                            /\ ToSet(EraseAll(rows[d], dead)) = ToSet(rows[d]) \ ToSet(dead)
  <2> TAKE d \in Components
  <2>1. rows[d] \in Lists(Ids) BY <1>2
  <2> QED BY <1>2, <2>1, EraseAllList
<1>5. /\ rows' \in [Components -> Lists(Ids)]
      /\ \A d \in Components : ToSet(rows'[d]) = ToSet(rows[d]) \ ToSet(dead)
  BY <1>1, <1>4
<1>6. isUnsorted' \in [Components -> BOOLEAN] BY <1>1, <1>2
<1>7. gone' \subseteq Ids /\ ToSet(dead') = {} /\ dead' \in Seq(Ids) /\ Len(dead') = 0
  BY <1>1, <1>2 DEF ToSet, Typed, UniverseTypeOK
<1>8. Typed'
  <2>1. Lists(Ids) \subseteq Seq(Ids) BY DEF Lists
  <2>2. rows' \in [Components -> Seq(Ids)] BY <1>5, <2>1
  <2>3. Len(dead') <= MaxDead BY <1>7, UniverseAssumption
  <2> QED BY <1>1, <1>3, <1>5, <1>6, <1>7, <2>2, <2>3 DEF Typed, UniverseTypeOK
<1>9. InsertedOnce'
  <2> SUFFICES ASSUME NEW d \in Components, NEW k \in ToSet(toInsert'[d])
               PROVE  /\ Open(Inserter(d))'
                      /\ Has(d, k)' => k \in toErase'[d] /\ Before(Eraser(d), Inserter(d))'
    BY DEF InsertedOnce, Inserter, Eraser
  <2>1. Open(Inserter(d)) /\ (Has(d, k) => k \in toErase[d] /\ Before(Eraser(d), Inserter(d)))
    BY <1>1 DEF InsertedOnce
  <2>2. Inserter(d) # EntityEraser /\ Eraser(d) # EntityEraser BY HandlesDiffer
  <2>3. Has(d, k)' => Has(d, k) BY <1>5 DEF Has
  <2> QED BY <1>1, <1>3, <2>1, <2>2, <2>3
<1>10. LiveApart' BY <1>1, <1>3, <1>7 DEF LiveApart
<1>11. RowsAlive'
  <2>1. ASSUME NEW d \in Components, NEW k \in ToSet(rows'[d])
        PROVE  k \notin gone' /\ (k \in live' \/ k \in ToSet(dead'))
    BY <1>1, <1>5, <2>1 DEF RowsAlive
  <2>2. ASSUME NEW d \in Components, NEW k \in ToSet(toInsert'[d])
        PROVE  k \notin gone' /\ k \in live'
    <3>1. k \notin gone /\ k \in live BY <1>1, <1>3, <2>2 DEF RowsAlive
    <3>2. k \notin ToSet(dead) BY <3>1 DEF LiveApart
    <3> QED BY <1>1, <3>1, <3>2
  <2> QED BY <2>1, <2>2 DEF RowsAlive
<1> QED BY <1>8, <1>9, <1>10, <1>11

LEMMA AppendRowTablesInv == \A c \in Components, id \in Ids : TablesInv /\ AppendRow(c, id) => TablesInv'
<1> TAKE c \in Components, id \in Ids
<1> SUFFICES ASSUME TablesInv, AppendRow(c, id) PROVE TablesInv'
  OBVIOUS
<1> USE DEF TablesInv, tables, asked
<1>1. /\ id \in live /\ id \notin ToSet(toInsert[c])
      /\ \A key \in ToSet(rows[c]) : key < id
      /\ rows' = [rows EXCEPT ![c] = @ \o <<id>>]
      /\ isUnsorted' = [isUnsorted EXCEPT ![c] = @ \/ <<id>> # <<>>]
      /\ UNCHANGED <<toInsert, toErase, dead, nextId, scope, live, gone>>
  BY DEF AppendRow, InsertRange
<1>2. rows \in [Components -> Lists(Ids)] /\ isUnsorted \in [Components -> BOOLEAN]
  BY DEF Typed, UniverseTypeOK
<1>3. rows[c] \o <<id>> \in Lists(Ids) /\ ToSet(rows[c] \o <<id>>) = ToSet(rows[c]) \cup {id}
  <2>1. rows[c] \in Lists(Ids) BY <1>2
  <2>2. <<id>> \in Lists(Ids) BY DEF Lists, IsInjective
  <2>3. ToSet(<<id>>) = {id} BY DEF ToSet
  <2>4. id \notin ToSet(rows[c]) BY <1>1 DEF Ids
  <2>5. ToSet(rows[c]) \cap ToSet(<<id>>) = {} BY <2>3, <2>4
  <2> QED BY <2>1, <2>2, <2>3, <2>5, ConcatList
<1>4. /\ rows' \in [Components -> Lists(Ids)]
      /\ \A d \in Components : \A k \in ToSet(rows'[d]) : k \in ToSet(rows[d]) \/ (d = c /\ k = id)
  BY <1>1, <1>2, <1>3
<1>5. isUnsorted' \in [Components -> BOOLEAN] BY <1>1, <1>2
<1>6. Typed'
  <2>1. Lists(Ids) \subseteq Seq(Ids) BY DEF Lists
  <2>2. rows' \in [Components -> Seq(Ids)] BY <1>4, <2>1
  <2> QED BY <1>1, <1>4, <1>5, <2>2 DEF Typed, UniverseTypeOK
<1>7. InsertedOnce' BY <1>1, <1>4, SameScope DEF InsertedOnce, Has
<1>8. LiveApart' BY <1>1 DEF LiveApart
<1>9. RowsAlive'
  <2>1. id \notin gone BY <1>1 DEF LiveApart
  <2> QED BY <1>1, <1>4, <2>1, SameScope DEF RowsAlive
<1> QED BY <1>6, <1>7, <1>8, <1>9

\* Rows go, or change their order, and nothing else happens.
LEMMA FewerRows ==
  ASSUME TablesInv, rows' \in [Components -> Lists(Ids)], isUnsorted' \in [Components -> BOOLEAN],
         \A c \in Components : ToSet(rows'[c]) \subseteq ToSet(rows[c]),
         UNCHANGED <<asked, nextId, scope, live, gone>>
  PROVE  TablesInv'
<1> USE DEF TablesInv, asked
<1>1. Typed'
  <2>1. Lists(Ids) \subseteq Seq(Ids) BY DEF Lists
  <2>2. rows' \in [Components -> Seq(Ids)] BY <2>1
  <2> QED BY <2>2 DEF Typed, UniverseTypeOK
<1>2. InsertedOnce' BY SameScope DEF InsertedOnce, Has
<1>3. LiveApart' BY DEF LiveApart
<1>4. RowsAlive' BY SameScope DEF RowsAlive
<1> QED BY <1>1, <1>2, <1>3, <1>4

LEMMA ClearTableTablesInv == \A c \in Components : TablesInv /\ ClearTable(c) => TablesInv'
<1> TAKE c \in Components
<1> SUFFICES ASSUME TablesInv, ClearTable(c) PROVE TablesInv'
  OBVIOUS
<1>1. rows \in [Components -> Lists(Ids)] /\ isUnsorted \in [Components -> BOOLEAN]
  BY DEF TablesInv, Typed, UniverseTypeOK
<1>2. <<>> \in Lists(Ids) /\ ToSet(<<>>) = {} BY DEF Lists, IsInjective, ToSet
<1>3. rows' \in [Components -> Lists(Ids)] /\ isUnsorted' \in [Components -> BOOLEAN]
      /\ \A d \in Components : ToSet(rows'[d]) \subseteq ToSet(rows[d])
  BY <1>1, <1>2 DEF ClearTable
<1> QED BY <1>3, FewerRows DEF ClearTable

LEMMA SortTablesInv == \A C \in SUBSET Components : TablesInv /\ Sort(C) => TablesInv'
<1> TAKE C \in SUBSET Components
<1> SUFFICES ASSUME TablesInv, Sort(C) PROVE TablesInv'
  OBVIOUS
<1>1. rows \in [Components -> Lists(Ids)] /\ isUnsorted \in [Components -> BOOLEAN]
  BY DEF TablesInv, Typed, UniverseTypeOK
<1>2. \A c \in Components : Sorted(ToSet(rows[c])) \in Lists(Ids)
                            /\ ToSet(Sorted(ToSet(rows[c]))) = ToSet(rows[c])
  <2> TAKE c \in Components
  <2>1. rows[c] \in Seq(Ids) BY <1>1 DEF Lists
  <2>2. ToSet(rows[c]) \in SUBSET Ids BY <2>1 DEF ToSet
  <2> QED BY <2>2, SortedList
<1>3. rows' \in [Components -> Lists(Ids)]
      /\ \A c \in Components : ToSet(rows'[c]) \subseteq ToSet(rows[c])
  BY <1>1, <1>2 DEF Sort
<1>4. isUnsorted' \in [Components -> BOOLEAN] BY <1>1 DEF Sort
<1> QED BY <1>3, <1>4, FewerRows DEF Sort

LEMMA NextTablesInv == TablesInv /\ [UniverseNext]_universeVars => TablesInv'
<1> SUFFICES ASSUME TablesInv, [UniverseNext]_universeVars PROVE TablesInv'
  OBVIOUS
<1>1. CASE Ask BY <1>1, NewIdTablesInv, InsertTablesInv, EraseTablesInv, EraseEntityTablesInv DEF Ask
<1>2. CASE Commit
  BY <1>2, OpenHandleTablesInv, CloseInserterTablesInv, CloseEraserTablesInv, ClearTableTablesInv,
     CloseEntityEraserTablesInv, AppendRowTablesInv DEF Commit
<1>3. CASE \E C \in SUBSET Components : Sort(C) BY <1>3, SortTablesInv
<1>4. CASE UNCHANGED universeVars
  <2>1. rows' \in [Components -> Lists(Ids)] /\ isUnsorted' \in [Components -> BOOLEAN]
        /\ \A c \in Components : ToSet(rows'[c]) \subseteq ToSet(rows[c])
    BY <1>4 DEF universeVars, tables, TablesInv, Typed, UniverseTypeOK
  <2>2. UNCHANGED <<asked, nextId, scope, live, gone>> BY <1>4 DEF universeVars
  <2> QED BY <2>1, <2>2, FewerRows
<1> QED BY <1>1, <1>2, <1>3, <1>4 DEF UniverseNext

-----------------------------------------------------------------------------
(* The theorems.                                                            *)

LEMMA Invariance == UniverseSpec => []TablesInv
BY InitTablesInv, NextTablesInv, PTL DEF UniverseSpec

\* No table ever has two rows of one entity, whatever is inserted, erased,
\* appended and sorted in whatever order (Table.h:12-33, MergeJoin.h:47-50).
THEOREM RowsUnique == UniverseSpec => []UniqueKeys
<1>1. TablesInv => UniqueKeys BY DEF TablesInv, Typed, UniqueKeys, Lists
<1> QED BY Invariance, <1>1, PTL

\* An entity that was erased has no row, and none is to be inserted, in any
\* table, from when its eraser is gone on (Universe.h:106-126).
THEOREM ErasedForGood == UniverseSpec => []DeadStayDead
<1>1. TablesInv => DeadStayDead BY DEF TablesInv, RowsAlive, DeadStayDead
<1> QED BY Invariance, <1>1, PTL
=============================================================================
