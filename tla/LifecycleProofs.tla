-------------------------- MODULE LifecycleProofs --------------------------
(* Proofs about Lifecycle. *)
EXTENDS Lifecycle, TLAPS

\* Of the types only these are needed.
PlaceInv ==
    /\ main \in {"init", "load", "start", "loop", "sleep", "clean", "join clock",
                 "join joypad", "exited"}
    /\ step \in Nat /\ step # 0
    /\ clock \in {"none", "top", "walk", "prompt", "failed", "quit", "ended"}

\* What main has done, by where it is.
StartInv ==
    /\ main = "init" => clock = "none" /\ \A i \in 1 .. Len(InitOrder) : i < step => InitOrder[i] \in up
    /\ main \in {"load", "start"} => clock = "none" /\ Component \subseteq up

RunInv ==
    /\ main \in {"loop", "sleep", "join clock"} => Component \subseteq up
    /\ main = "clean" /\ step = 1 => Component \subseteq up
    /\ main = "join clock" => step = 1

\* Past the join, the clock thread has ended.
EndInv ==
    /\ main = "clean" /\ step # 1 => clock = "ended"
    /\ main = "join joypad" => clock = "ended" /\ step # 1
    /\ main = "exited" => clock \in {"none", "ended"}

LifeInv == PlaceInv /\ StartInv /\ RunInv /\ EndInv

LEMMA Orders ==
    /\ Len(InitOrder) = 11 /\ Len(CleanOrder) = 10
    /\ Component = {"mapper", "clock", "bus", "rom", "ram", "ppu", "joypad", "apu", "dma",
                    "cpu", "debug"}
    /\ \A i \in 1 .. 11 : InitOrder[i] \in Component
    /\ \A c \in Component : \E i \in 1 .. 11 : InitOrder[i] = c
    /\ CleanOrder[1] = "clock"
    /\ \A i \in 2 .. 10 : CleanOrder[i] # "clock"
<1>1. Len(InitOrder) = 11 /\ Len(CleanOrder) = 10 /\ CleanOrder[1] = "clock"
  BY DEF InitOrder, CleanOrder
<1>2. \A i \in 1 .. 11 : InitOrder[i] \in Component
  BY <1>1 DEF Component
<1>3. \A c \in Component : \E i \in 1 .. 11 : InitOrder[i] = c
  BY <1>1 DEF Component
<1>4. /\ InitOrder[1] = "mapper" /\ InitOrder[2] = "clock" /\ InitOrder[3] = "bus"
      /\ InitOrder[4] = "rom" /\ InitOrder[5] = "ram" /\ InitOrder[6] = "ppu"
      /\ InitOrder[7] = "joypad" /\ InitOrder[8] = "apu" /\ InitOrder[9] = "dma"
      /\ InitOrder[10] = "cpu" /\ InitOrder[11] = "debug"
  BY DEF InitOrder
<1>5. \A i \in 1 .. 11 : \/ i = 1 \/ i = 2 \/ i = 3 \/ i = 4 \/ i = 5 \/ i = 6
                         \/ i = 7 \/ i = 8 \/ i = 9 \/ i = 10 \/ i = 11
  OBVIOUS
<1>6. Component = {"mapper", "clock", "bus", "rom", "ram", "ppu", "joypad", "apu", "dma",
                   "cpu", "debug"}
  BY <1>1, <1>4, <1>5 DEF Component
<1>7. /\ CleanOrder[2] # "clock" /\ CleanOrder[3] # "clock" /\ CleanOrder[4] # "clock"
      /\ CleanOrder[5] # "clock" /\ CleanOrder[6] # "clock" /\ CleanOrder[7] # "clock"
      /\ CleanOrder[8] # "clock" /\ CleanOrder[9] # "clock" /\ CleanOrder[10] # "clock"
  BY DEF CleanOrder
<1>8. \A i \in 2 .. 10 : CleanOrder[i] # "clock"
  BY <1>5, <1>7
<1> QED
  BY <1>1, <1>2, <1>3, <1>6, <1>8

LEMMA NextStep == \A s \in Nat : s # 0 => s + 1 \in Nat /\ s + 1 # 0 /\ s + 1 # 1
OBVIOUS

LEMMA FirstStep == 1 \in Nat /\ 1 # 0
OBVIOUS

LEMMA ClockIsFirst ==
    \A s \in Nat : s # 0 /\ s <= Len(CleanOrder) /\ CleanOrder[s] = "clock" => s = 1
BY Orders

LEMMA InitLife == Init => LifeInv
<1> SUFFICES ASSUME Init PROVE LifeInv
  OBVIOUS
<1>1. PlaceInv
  BY Orders DEF Init, PlaceInv
<1>2. StartInv
  BY Orders DEF Init, StartInv
<1>3. RunInv /\ EndInv
  BY DEF Init, RunInv, EndInv
<1> QED
  BY <1>1, <1>2, <1>3 DEF LifeInv

LEMMA NextLife == LifeInv /\ [Next]_vars => LifeInv'
<1> SUFFICES ASSUME LifeInv, [Next]_vars PROVE LifeInv'
  OBVIOUS
<1> USE DEF LifeInv
<1>1. CASE InitComponent
  <2> USE <1>1, Orders DEF InitComponent
  <2>1. PlaceInv'
    BY DEF PlaceInv
  <2>2. StartInv'
    BY DEF StartInv, PlaceInv
  <2>3. RunInv' /\ EndInv'
    BY DEF RunInv, EndInv, PlaceInv
  <2> QED
    BY <2>1, <2>2, <2>3
<1>2. CASE PrepareSig
  <2> USE <1>2, Orders DEF PrepareSig
  <2>1. PlaceInv'
    BY DEF PlaceInv
  <2>2. StartInv'
    <3>1. \A i \in 1 .. 11 : i < step
      BY DEF PlaceInv
    <3>2. Component \subseteq up
      BY <3>1 DEF StartInv
    <3> QED
      BY <3>2 DEF StartInv
  <2>3. RunInv' /\ EndInv'
    BY DEF RunInv, EndInv
  <2> QED
    BY <2>1, <2>2, <2>3
<1>3. CASE LoadCartridge
  BY <1>3 DEF LoadCartridge, PlaceInv, StartInv, RunInv, EndInv
<1>4. CASE StartClock
  BY <1>4 DEF StartClock, PlaceInv, StartInv, RunInv, EndInv
<1>5. CASE MainLoop
  <2>1. /\ up' = up /\ clock' = clock
        /\ \/ main \in {"loop", "sleep"} /\ main' \in {"loop", "sleep"} /\ step' = step
           \/ main \in {"loop", "sleep"} /\ main' = "clean" /\ step' = 1
    BY <1>5 DEF MainLoop
  <2>2. PlaceInv'
    BY <2>1, FirstStep, Zenon DEF PlaceInv
  <2>3. StartInv'
    BY <2>1 DEF StartInv
  <2>4. RunInv'
    BY <2>1 DEF RunInv
  <2>5. EndInv'
    BY <2>1 DEF EndInv
  <2> QED
    BY <2>2, <2>3, <2>4, <2>5
<1>6. CASE CleanComponent
  <2> USE <1>6 DEF CleanComponent, At, Cleaned
  <2>1. step # 1
    BY Orders
  <2>2. PlaceInv'
    BY DEF PlaceInv
  <2>3. StartInv' /\ RunInv' /\ EndInv'
    BY <2>1 DEF StartInv, RunInv, EndInv, PlaceInv
  <2> QED
    BY <2>2, <2>3
<1>7. CASE EndLoop
  <2>1. /\ main = "clean" /\ main' = "join clock"
        /\ step' = step /\ up' = up /\ clock' = clock
        /\ step <= Len(CleanOrder) /\ CleanOrder[step] = "clock"
    BY <1>7 DEF EndLoop, At
  <2>2. step = 1
    BY <2>1, ClockIsFirst, Zenon DEF PlaceInv
  <2>3. PlaceInv' /\ StartInv'
    BY <2>1, Zenon DEF PlaceInv, StartInv
  <2>4. RunInv' /\ EndInv'
    BY <2>1, <2>2, Zenon DEF RunInv, EndInv
  <2> QED
    BY <2>3, <2>4
<1>8. CASE JoinClock
  <2>1. main = "join clock" /\ main' = "clean" /\ step' = step + 1 /\ clock' = clock
    BY <1>8 DEF JoinClock, Cleaned
  <2>2. step' \in Nat /\ step' # 0 /\ step' # 1
    BY <2>1, NextStep, Zenon DEF PlaceInv
  <2>3. clock' = "ended"
    BY <1>8, <2>1 DEF JoinClock, EndInv
  <2>4. PlaceInv'
    BY <2>1, <2>2, <2>3, Zenon DEF PlaceInv
  <2>5. StartInv' /\ RunInv' /\ EndInv'
    BY <2>1, <2>2, <2>3, Zenon DEF StartInv, RunInv, EndInv
  <2> QED
    BY <2>4, <2>5
<1>9. CASE CloseJoypadWnd
  <2> USE <1>9 DEF CloseJoypadWnd, At, GtkMainQuit
  <2>1. PlaceInv' /\ StartInv'
    BY DEF PlaceInv, StartInv
  <2>2. step # 1
    BY Orders
  <2>3. RunInv' /\ EndInv'
    BY <2>2 DEF RunInv, EndInv, PlaceInv
  <2> QED
    BY <2>1, <2>3
<1>10. CASE JoinJoypad
  <2>1. main = "join joypad" /\ main' = "clean" /\ step' = step + 1 /\ clock' = clock
    BY <1>10 DEF JoinJoypad, Cleaned
  <2>2. step' \in Nat /\ step' # 0 /\ step' # 1
    BY <2>1, NextStep, Zenon DEF PlaceInv
  <2>3. clock' = "ended"
    BY <1>10, <2>1 DEF JoinJoypad, EndInv
  <2>4. PlaceInv'
    BY <2>1, <2>2, <2>3, Zenon DEF PlaceInv
  <2>5. StartInv' /\ RunInv' /\ EndInv'
    BY <2>1, <2>2, <2>3, Zenon DEF StartInv, RunInv, EndInv
  <2> QED
    BY <2>4, <2>5
<1>11. CASE CleanDone \/ StartFails
  BY <1>11 DEF CleanDone, StartFails, Exit, PlaceInv, StartInv, RunInv, EndInv
<1>12. CASE SigHandler \/ SigSets
  BY <1>12 DEF SigHandler, SigSets, mainVars, PlaceInv, StartInv, RunInv, EndInv
<1>13. CASE Walk
  BY <1>13 DEF Walk, WalkTop, WalkOn, Prompt, BreakHit, Fail, QuitSets, mainVars,
               PlaceInv, StartInv, RunInv, EndInv
<1>14. CASE Answer \/ AnswerQuit
  BY <1>14 DEF Answer, AnswerQuit, mainVars, PlaceInv, StartInv, RunInv, EndInv
<1>15. CASE Window \/ Destroy
  BY <1>15 DEF Window, WindowStart, NoWindow, GtkMain, GtkMainReturns, Destroy, GtkMainQuit,
               mainVars, PlaceInv, StartInv, RunInv, EndInv
<1>16. CASE UNCHANGED vars
  BY <1>16 DEF vars, mainVars, PlaceInv, StartInv, RunInv, EndInv
<1> QED
  BY <1>1, <1>2, <1>3, <1>4, <1>5, <1>6, <1>7, <1>8, <1>9, <1>10, <1>11, <1>12, <1>13, <1>14,
     <1>15, <1>16 DEF Next, Main

\* Nothing the clock thread may call is freed while it lives.
THEOREM SafeCleanup == Spec => []NothingFreedInUse
<1>1. Called \subseteq Component
  BY DEF Called
<1>2. ASSUME LifeInv, clock \in {"top", "walk", "prompt", "failed", "quit"}
      PROVE  Component \subseteq up
  <2>1. main \in {"loop", "sleep", "clean", "join clock"}
    BY <1>2 DEF LifeInv, PlaceInv, StartInv, EndInv
  <2>2. main = "clean" => step = 1
    BY <1>2 DEF LifeInv, PlaceInv, EndInv
  <2> QED
    BY <1>2, <2>1, <2>2 DEF LifeInv, RunInv
<1>3. LifeInv => NothingFreedInUse
  BY <1>1, <1>2 DEF NothingFreedInUse
<1> QED
  BY InitLife, NextLife, <1>3, PTL DEF Spec

\* With -d, the handler decides to set main_loop_done, and sets it, only after
\* critical_error, which is never reset.
FlagInv ==
    param_debug /\ (sig = "main_loop_done" \/ main_loop_done \/ main \in {"clean", "join clock", "join joypad"})
      => critical_error

LEMMA NextFlag == FlagInv /\ [Next]_vars => FlagInv'
<1> SUFFICES ASSUME FlagInv, [Next]_vars PROVE FlagInv'
  OBVIOUS
<1>1. CASE InitComponent \/ PrepareSig \/ LoadCartridge \/ StartClock
  BY <1>1, Zenon DEF FlagInv, InitComponent, PrepareSig, LoadCartridge, StartClock, options, flags
<1>2. CASE MainLoop
  BY <1>2, Zenon DEF FlagInv, MainLoop, options, flags
<1>3. CASE CleanComponent \/ EndLoop \/ JoinClock \/ CloseJoypadWnd \/ JoinJoypad
  <2>1. /\ main \in {"clean", "join clock", "join joypad"}
        /\ param_debug' = param_debug /\ critical_error' = critical_error
    BY <1>3, Zenon DEF CleanComponent, EndLoop, JoinClock, CloseJoypadWnd, JoinJoypad, At,
                       options, flags
  <2> QED
    BY <2>1, Zenon DEF FlagInv
<1>4. CASE CleanDone \/ StartFails
  <2>1. /\ main' = "exited"
        /\ param_debug' = param_debug /\ main_loop_done' = main_loop_done
        /\ critical_error' = critical_error /\ sig' = sig
    BY <1>4, Zenon DEF CleanDone, StartFails, Exit, options, flags
  <2>2. main = "clean" \/ main' \notin {"clean", "join clock", "join joypad"}
    BY <2>1
  <2> QED
    BY <2>1, <2>2, Zenon DEF FlagInv
<1>5. CASE SigHandler
  <2>1. /\ param_debug' = param_debug /\ main' = main /\ critical_error' = critical_error
        /\ main_loop_done' = main_loop_done
        /\ critical_error \/ ~param_debug \/ sig' # "main_loop_done"
    BY <1>5 DEF SigHandler, options, mainVars
  <2> QED
    BY <2>1, Zenon DEF FlagInv
<1>10. CASE SigSets
  <2>1. /\ param_debug' = param_debug /\ main' = main /\ critical_error' = critical_error
        /\ sig' # "main_loop_done"
        /\ main_loop_done' => main_loop_done \/ sig = "main_loop_done"
    BY <1>10 DEF SigSets, options, mainVars
  <2> QED
    BY <2>1, Zenon DEF FlagInv
<1>6. CASE Walk
  <2>1. /\ param_debug' = param_debug /\ main' = main /\ main_loop_done' = main_loop_done
        /\ sig' = sig /\ critical_error' \in {critical_error, TRUE}
    BY <1>6, Zenon DEF Walk, WalkTop, WalkOn, Prompt, BreakHit, Fail, QuitSets, options, mainVars, flags
  <2> QED
    BY <2>1, Zenon DEF FlagInv
<1>7. CASE Answer \/ AnswerQuit
  <2>1. /\ param_debug' = param_debug /\ main' = main /\ main_loop_done' = main_loop_done
        /\ sig' = sig /\ critical_error' = critical_error
    BY <1>7, Zenon DEF Answer, AnswerQuit, options, mainVars
  <2> QED
    BY <2>1, Zenon DEF FlagInv
<1>8. CASE Window \/ Destroy
  BY <1>8, Zenon DEF FlagInv, Window, WindowStart, NoWindow, GtkMain, GtkMainReturns, Destroy,
                     options, mainVars, flags
<1>9. CASE UNCHANGED vars
  BY <1>9, Zenon DEF FlagInv, vars, options, mainVars, flags
<1> QED
  BY <1>1, <1>2, <1>3, <1>4, <1>5, <1>6, <1>7, <1>8, <1>9, <1>10 DEF Next, Main

\* With -d only the debugger and errors end the program.
THEOREM OnlyErrorsEndDebugging == Spec => []DebuggerHasTheLastWord
<1>1. Init => FlagInv
  BY Zenon DEF Init, FlagInv
<1>2. FlagInv => DebuggerHasTheLastWord
  BY Zenon DEF FlagInv, DebuggerHasTheLastWord
<1> QED
  BY <1>1, NextFlag, <1>2, PTL DEF Spec

\* The parts of the types.  A join is followed by one more step of the clean-up.
FlagsTyped ==
    /\ param_debug \in BOOLEAN /\ with_wnd \in BOOLEAN
    /\ main_loop_done \in BOOLEAN /\ critical_error \in BOOLEAN
    /\ debug_mode \in BOOLEAN /\ exit_loop \in BOOLEAN
    /\ sig \in {"none", "debug_mode", "main_loop_done"}
    /\ jp_wnd_start \in BOOLEAN

WndTyped == wnd \in {"none", "start", "flagged", "gtk_main", "leaving", "ended"}

StepsTyped ==
    /\ step \in 1 .. Len(InitOrder) + 1
    /\ up \subseteq Component
    /\ main \in {"join clock", "join joypad"} => step <= Len(CleanOrder)

TypeInv == FlagsTyped /\ WndTyped /\ StepsTyped

LEMMA NextFlagsTyped == FlagsTyped /\ [Next]_vars => FlagsTyped'
<1> SUFFICES ASSUME FlagsTyped, [Next]_vars PROVE FlagsTyped'
  OBVIOUS
<1>1. ASSUME Main \/ StartFails PROVE UNCHANGED <<main_loop_done, critical_error, debug_mode, sig, options, jp_wnd_start>>
  BY <1>1 DEF Main, InitComponent, PrepareSig, LoadCartridge, StartClock, StartFails, Exit, MainLoop,
     CleanComponent, EndLoop, JoinClock, CloseJoypadWnd, JoinJoypad, CleanDone, flags, wndVars
<1>2. ASSUME Main \/ StartFails PROVE exit_loop' \in {exit_loop, TRUE}
  BY <1>2 DEF Main, InitComponent, PrepareSig, LoadCartridge, StartClock, StartFails, Exit, MainLoop,
     CleanComponent, EndLoop, JoinClock, CloseJoypadWnd, JoinJoypad, CleanDone, flags
<1>3. ASSUME SigHandler \/ SigSets \/ Walk \/ Answer \/ AnswerQuit \/ Window \/ Destroy \/ UNCHANGED vars
      PROVE  /\ main_loop_done' \in BOOLEAN
             /\ critical_error' \in {critical_error, TRUE}
             /\ debug_mode' \in BOOLEAN
             /\ exit_loop' = exit_loop
             /\ sig' \in {sig, "none", "debug_mode", "main_loop_done"}
             /\ UNCHANGED options
             /\ jp_wnd_start' \in {jp_wnd_start, TRUE}
  <2>1. CASE SigHandler \/ SigSets
    BY <2>1 DEF SigHandler, SigSets, FlagsTyped, wndVars
  <2>2. CASE Walk
    BY <2>2 DEF Walk, WalkTop, WalkOn, Prompt, BreakHit, Fail, QuitSets, FlagsTyped, flags, wndVars
  <2>3. CASE Answer \/ AnswerQuit
    BY <2>3 DEF Answer, AnswerQuit, FlagsTyped, wndVars
  <2>4. CASE Window \/ Destroy
    BY <2>4 DEF Window, WindowStart, NoWindow, GtkMain, GtkMainReturns, Destroy, FlagsTyped, flags
  <2>5. CASE UNCHANGED vars
    BY <2>5 DEF vars, FlagsTyped, flags, wndVars
  <2> QED
    BY <1>3, <2>1, <2>2, <2>3, <2>4, <2>5
<1>4. CASE Main \/ StartFails
  BY <1>1, <1>2, <1>4 DEF FlagsTyped, options
<1>5. CASE SigHandler \/ SigSets \/ Walk \/ Answer \/ AnswerQuit \/ Window \/ Destroy \/ UNCHANGED vars
  BY <1>3, <1>5 DEF FlagsTyped, options
<1> QED
  BY <1>4, <1>5 DEF Next

LEMMA NextWndTyped == WndTyped /\ [Next]_vars => WndTyped'
<1> SUFFICES ASSUME WndTyped, [Next]_vars PROVE WndTyped'
  OBVIOUS
<1>1. wnd' \in {wnd, "start", "flagged", "gtk_main", "leaving", "ended"}
  <2>1. CASE Main \/ StartFails
    BY <2>1 DEF Main, InitComponent, PrepareSig, LoadCartridge, StartClock, StartFails, Exit, MainLoop,
       CleanComponent, EndLoop, JoinClock, CloseJoypadWnd, GtkMainQuit, JoinJoypad, CleanDone, wndVars, WndTyped
  <2>2. CASE SigHandler \/ SigSets \/ Walk \/ Answer \/ AnswerQuit \/ UNCHANGED vars
    BY <2>2 DEF SigHandler, SigSets, Walk, WalkTop, WalkOn, Prompt, BreakHit, Fail, QuitSets, Answer, AnswerQuit,
       vars, wndVars
  <2>3. CASE Window \/ Destroy
    BY <2>3 DEF Window, WindowStart, NoWindow, GtkMain, GtkMainReturns, Destroy, GtkMainQuit
  <2> QED
    BY <2>1, <2>2, <2>3 DEF Next
<1> QED
  BY <1>1 DEF WndTyped

LEMMA NextStepsTyped == StepsTyped /\ [Next]_vars => StepsTyped'
<1> SUFFICES ASSUME StepsTyped, [Next]_vars PROVE StepsTyped'
  OBVIOUS
<1>len. /\ Len(InitOrder) = 11 /\ Len(CleanOrder) = 10
        /\ \A i \in 1 .. 11 : InitOrder[i] \in Component
  BY Orders
<1>typed. step \in 1 .. 12 /\ up \subseteq Component
  <2>1. step \in 1 .. Len(InitOrder) + 1 /\ up \subseteq Component
    BY DEF StepsTyped
  <2> QED
    BY <1>len, <2>1
<1>goal. ASSUME step' \in 1 .. 12, up' \subseteq Component,
                main' \in {"join clock", "join joypad"} => step' <= 10
         PROVE  StepsTyped'
  <2>1. Len(InitOrder) + 1 = 12 /\ Len(CleanOrder) = 10
    BY <1>len
  <2> QED
    BY <1>goal, <2>1 DEF StepsTyped
<1>1. CASE InitComponent
  <2>1. step \in 1 .. 11 /\ step' = step + 1 /\ main' = "init" /\ up' = up \cup {InitOrder[step]}
    BY <1>1, <1>len, <1>typed DEF InitComponent
  <2> QED
    BY <1>goal, <1>len, <1>typed, <2>1
<1>2. CASE \E c : Cleaned(c) /\ step <= 10
  BY <1>2, <1>goal, <1>typed DEF Cleaned
<1>3. CASE PrepareSig \/ LoadCartridge \/ StartClock \/ StartFails \/ CleanDone
  BY <1>3, <1>goal, <1>typed DEF PrepareSig, LoadCartridge, StartClock, StartFails, CleanDone, Exit
<1>4. CASE MainLoop
  <2>1. main' \in {"loop", "sleep", "clean"} /\ up' = up /\ (step' = step \/ step' = 1)
    BY <1>4 DEF MainLoop
  <2>2. step' \in 1 .. 12
    <3>1. CASE step' = step
      BY <1>typed, <3>1
    <3>2. CASE step' = 1
      BY <3>2
    <3> QED
      BY <2>1, <3>1, <3>2
  <2> QED
    BY <1>goal, <1>typed, <2>1, <2>2
<1>5. CASE EndLoop \/ CloseJoypadWnd
  BY <1>5, <1>goal, <1>len, <1>typed DEF EndLoop, CloseJoypadWnd, At
<1>6. CASE UNCHANGED mainVars
  BY <1>6, <1>goal, <1>len, <1>typed DEF mainVars, StepsTyped
<1>7. \/ InitComponent
      \/ \E c : Cleaned(c) /\ step <= 10
      \/ PrepareSig \/ LoadCartridge \/ StartClock \/ StartFails \/ CleanDone
      \/ MainLoop \/ EndLoop \/ CloseJoypadWnd
      \/ UNCHANGED mainVars
  <2>1. CASE CleanComponent \/ JoinClock \/ JoinJoypad
    BY <1>len, <2>1 DEF CleanComponent, JoinClock, JoinJoypad, At, StepsTyped
  <2>2. CASE SigHandler \/ SigSets \/ Walk \/ Answer \/ AnswerQuit \/ Window \/ Destroy \/ UNCHANGED vars
    BY <2>2 DEF SigHandler, SigSets, Walk, WalkTop, WalkOn, Prompt, BreakHit, Fail, QuitSets, Answer, AnswerQuit,
       Window, WindowStart, NoWindow, GtkMain, GtkMainReturns, Destroy, vars
  <2> QED
    BY <2>1, <2>2 DEF Next, Main
<1> QED
  BY <1>1, <1>2, <1>3, <1>4, <1>5, <1>6, <1>7

\* Every variable keeps its type: neither list of components is ever read beyond its end,
\* though the joins of the clock and of the joypad take the clean-up on from other states.
THEOREM LifeTyped == Spec => []TypeOK
<1>1. Init => TypeInv
  <2>1. Init => FlagsTyped /\ WndTyped
    BY DEF Init, FlagsTyped, WndTyped
  <2>2. Init => StepsTyped
    BY Orders DEF Init, StepsTyped
  <2> QED
    BY <2>1, <2>2 DEF TypeInv
<1>2. TypeInv /\ [Next]_vars => TypeInv'
  BY NextFlagsTyped, NextWndTyped, NextStepsTyped DEF TypeInv
<1>3. TypeInv /\ LifeInv => TypeOK
  <2>1. LifeInv => /\ main \in {"init", "load", "start", "loop", "sleep", "clean", "join clock",
                                "join joypad", "exited"}
                   /\ clock \in {"none", "top", "walk", "prompt", "failed", "quit", "ended"}
    BY DEF LifeInv, PlaceInv
  <2> QED
    BY <2>1 DEF TypeInv, FlagsTyped, WndTyped, StepsTyped, TypeOK
<1> QED
  BY <1>1, <1>2, <1>3, InitLife, NextLife, PTL DEF Spec
=============================================================================
