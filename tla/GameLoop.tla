------------------------------ MODULE GameLoop ------------------------------
(***************************************************************************)
(* Game/Core/GameLoop: simulated time against real time. A round renders,   *)
(* then updates the game in steps until it has caught up or has made        *)
(* MaxSubsteps of them, slows the game down if it is still behind, and      *)
(* sleeps if it is ahead. Times are ticks of the clock, and only their      *)
(* differences matter: lag is now - gameTime. How long rendering, an update *)
(* and a sleep take is the environment's choice.                            *)
(***************************************************************************)
EXTENDS Integers, Sequences, FiniteSets, Functions, FiniteSetsExt

CONSTANTS MaxStep, MinStep,  \* bounds of a step (10 ms and 2 ms in the code)
          MaxSubsteps,       \* updates in a round (10)
          WindowSize,        \* measurements a prediction is made from (7)
          Rounding,          \* error of a step's way through float
          RenderTimes, UpdateTimes,  \* how long a render, an update may take
          MaxOversleep       \* how much longer a sleep may last than asked for

ASSUME ConstantsAssumption ==
  /\ MinStep \in Nat \ {0} /\ MaxStep \in Nat /\ MinStep < MaxStep
  /\ MaxSubsteps \in Nat \ {0}
  /\ WindowSize \in Nat /\ WindowSize > 2
  /\ Rounding \in Nat /\ Rounding < MinStep
  /\ RenderTimes \subseteq Nat \ {0}
  /\ UpdateTimes \subseteq Nat
  /\ MaxOversleep \in Nat

VARIABLES pc,         \* the next step of the round
          lag,        \* now - gameTime
          renderLag,  \* now - renderedGameTime
          substeps,   \* updates made in this round
          updateWindow, renderWindow   \* the latest durations, oldest first

vars == <<pc, lag, renderLag, substeps, updateWindow, renderWindow>>

Init ==
  /\ pc = "render"
  /\ lag = 0 /\ renderLag = 0
  /\ substeps = 0
  /\ updateWindow = [i \in 1 .. WindowSize |-> 0]
  /\ renderWindow = updateWindow

-----------------------------------------------------------------------------
(* FilteredMovingAveragePredictor.                                          *)

\* The ticks of all measurements of the window, each with its measurement.
Ticks(window) == UNION {{i} \X (1 .. window[i]) : i \in DOMAIN window}

\* The average of the window without its least and its greatest value.
Predict(window) ==
  LET durations == Range(window) IN
  (Cardinality(Ticks(window)) - Min(durations) - Max(durations)) \div (WindowSize - 2)

\* The oldest measurement is overwritten.
Measured(window, duration) == Append(Tail(window), duration)

-----------------------------------------------------------------------------
Abs(d) == IF d < 0 THEN -d ELSE d

\* The step that, made as often as needed while each update takes as long as
\* predicted, brings the game up to date, within the bounds of a step.
Step(delta, prediction) ==
  LET needed == delta \div (MaxStep - prediction) + 1
      ideal == IF prediction >= MaxStep \/ needed > MaxSubsteps
                 THEN MaxStep
                 ELSE (delta + prediction * needed) \div needed
  IN Max({MinStep, Min({MaxStep, ideal})})

\* Bug: substeps is not reset.
RenderKeepsSubsteps(d) ==
  /\ pc = "render"
  /\ lag' = lag + d /\ renderLag' = lag + d
  /\ renderWindow' = Measured(renderWindow, d)
  /\ pc' = "update"
  /\ UNCHANGED <<updateWindow, substeps>>

\* render(); renderedGameTime = gameTime
Render(d) ==
  /\ pc = "render"
  /\ lag' = lag + d /\ renderLag' = lag + d
  /\ renderWindow' = Measured(renderWindow, d)
  /\ substeps' = 0
  /\ pc' = "update"
  /\ UNCHANGED updateWindow

\* Bug: a step is made for any lag, though it may be much longer than the lag.
BehindAtAll == substeps < MaxSubsteps /\ lag > 0

\* The condition of the inner loop.
Behind == substeps < MaxSubsteps /\ lag > MinStep

\* One turn of the inner loop: the update takes d, and the step it makes goes
\* through a float and back.
Update(d, error) ==
  /\ pc = "update" /\ Behind
  /\ LET step == Step(lag, Predict(updateWindow)) + error IN lag' = lag + d - step
  /\ renderLag' = renderLag + d
  /\ updateWindow' = Measured(updateWindow, d)
  /\ substeps' = substeps + 1
  /\ UNCHANGED <<pc, renderWindow>>

\* Slow down if the game falls behind: gameTime = now - maxStep.
SlowDown ==
  /\ pc = "update" /\ ~Behind
  /\ lag' = Min({lag, MaxStep})
  /\ pc' = "sleep"
  /\ UNCHANGED <<renderLag, substeps, updateWindow, renderWindow>>

lastRenderError == Abs(renderLag + Predict(renderWindow))
newRenderError == Abs(lag + Predict(renderWindow))

\* Bug: all of the difference is slept away.
SleepTimeWhole == newRenderError - lastRenderError

SleepTime == (newRenderError - lastRenderError) \div 2

\* Sleep if rendering now would increase the timing error.
Sleep(late) ==
  /\ pc = "sleep"
  /\ IF newRenderError > lastRenderError
       THEN /\ lag' = lag + SleepTime + late
            /\ renderLag' = renderLag + SleepTime + late
       ELSE UNCHANGED <<lag, renderLag>>
  /\ pc' = "render"
  /\ UNCHANGED <<substeps, updateWindow, renderWindow>>

Next ==
  \/ \E d \in RenderTimes : Render(d)
  \/ \E d \in UpdateTimes, error \in -Rounding .. Rounding : Update(d, error)
  \/ SlowDown
  \/ \E late \in 0 .. MaxOversleep : Sleep(late)

Spec == Init /\ [][Next]_vars /\ WF_vars(Next)

-----------------------------------------------------------------------------
(* Properties.                                                              *)

TypeOK ==
  /\ pc \in {"render", "update", "sleep"}
  /\ lag \in Int /\ renderLag \in Int
  /\ substeps \in 0 .. MaxSubsteps
  /\ updateWindow \in [1 .. WindowSize -> UpdateTimes \cup {0}]
  /\ renderWindow \in [1 .. WindowSize -> RenderTimes \cup {0}]

\* Simulated time follows real time, however long renders, updates and sleeps
\* take: it is never ahead by as much as a step, and never behind by more than
\* a step, or what a sleep lasted too long, when a frame is begun (GameLoop.cpp:68-98).
Follows ==
  /\ lag > MinStep - MaxStep - Rounding
  /\ pc = "render" => lag <= MaxStep \/ lag <= MaxOversleep

\* Sleeping ends when the errors break even, as the comment above it says, up
\* to one tick and what the sleep lasts longer than asked for: the next frame
\* is not shown too late (GameLoop.cpp:100-108).
BreakEven ==
  [][pc = "sleep" /\ lag' # lag =>
       Abs(newRenderError' - lastRenderError') <= 1 + 2 * MaxOversleep]_vars

\* The game goes on: updates never stop, in spite of the limit on substeps,
\* clamped steps and sleeps.
GameAdvances == []<>(pc = "update" /\ Behind)
=============================================================================
