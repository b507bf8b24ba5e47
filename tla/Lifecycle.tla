------------------------------ MODULE Lifecycle ------------------------------
(***************************************************************************)
(* From the command line to the end of the process (emulator/emu-main.c):  *)
(* main sets up, runs and takes down the components; the clock thread      *)
(* (emulator/clock.c) calls them and may stop in the debugger's prompt     *)
(* (emulator/debug.c); the joypad's thread (emulator/joypad/) opens a      *)
(* window and runs the GTK main loop; and SIGINT may come at any time.     *)
(*                                                                         *)
(* Outside of the code under src/: GTK's main loop, which gtk_main_quit    *)
(* ends only if it has begun; and exit, which ends every thread.  SIGINT   *)
(* stays blocked while its handler runs: one handler at a time.            *)
(***************************************************************************)
EXTENDS Naturals, Sequences

VARIABLES
    param_debug,        \* the option -d
    with_wnd,           \* built with joypad-wnd.c, not with joypad-no-wnd.c
    main, step,         \* where main is; the component it is at in init or clean
    up,                 \* the components that are initialised and not cleaned
    main_loop_done, critical_error, debug_mode, exit_loop,
    sig,                \* the flag a running sig_handler has still to set, or "none"
    clock,              \* the clock thread
    wnd, jp_wnd_start   \* the joypad's thread, and its flag

options   == <<param_debug, with_wnd>>
mainVars  == <<main, step, up>>
flags     == <<main_loop_done, critical_error, debug_mode, exit_loop, sig>>
wndVars   == <<wnd, jp_wnd_start>>
vars == <<options, mainVars, flags, clock, wndVars>>

InitOrder ==
    <<"mapper", "clock", "bus", "rom", "ram", "ppu", "joypad", "apu", "dma", "cpu", "debug">>

CleanOrder ==
    <<"clock", "dma", "rom", "ram", "ppu", "joypad", "apu", "bus", "debug", "mapper">>

Component == {InitOrder[i] : i \in 1 .. Len(InitOrder)}

Init ==
    /\ param_debug \in BOOLEAN /\ with_wnd \in BOOLEAN
    /\ main = "init" /\ step = 1 /\ up = {}
    /\ main_loop_done = FALSE /\ critical_error = FALSE /\ exit_loop = FALSE
    /\ debug_mode = param_debug /\ sig = "none"
    /\ clock = "none"
    /\ wnd = "none" /\ jp_wnd_start = FALSE

-----------------------------------------------------------------------------
(* main. *)

\* main returns: the other threads end with the process.
Exit ==
    /\ main' = "exited"
    /\ clock' = IF clock = "none" THEN "none" ELSE "ended"
    /\ wnd' = IF wnd = "none" THEN "none" ELSE "ended"
    /\ UNCHANGED <<options, step, up, flags, jp_wnd_start>>

\* init_datas: one init_... after the other; init_joypad starts the window's thread.
InitComponent ==
    /\ main = "init" /\ step <= Len(InitOrder)
    /\ up' = up \cup {InitOrder[step]}
    /\ step' = step + 1
    /\ wnd' = IF InitOrder[step] = "joypad" THEN "start" ELSE wnd
    /\ UNCHANGED <<options, main, flags, clock, jp_wnd_start>>

PrepareSig ==
    /\ main = "init" /\ step > Len(InitOrder)
    /\ main' = "load"
    /\ UNCHANGED <<options, step, up, flags, clock, wndVars>>

LoadCartridge ==
    /\ main = "load"
    /\ main' = "start"
    /\ UNCHANGED <<options, step, up, flags, clock, wndVars>>

StartClock ==
    /\ main = "start"
    /\ main' = "loop" /\ clock' = "top"
    /\ UNCHANGED <<options, step, up, flags, wndVars>>

\* An init_..., prepare_sig, load_cartridge or start_clock fails.
StartFails == main \in {"init", "load", "start"} /\ Exit

\* Mutant of MainLoop: the clean-up counts from 0.
MutMainLoop ==
    /\ \/ main = "loop" /\ ~main_loop_done /\ main' = "sleep" /\ step' = step
       \/ main = "sleep" /\ ~critical_error /\ main' = "loop" /\ step' = step
       \/ main = "loop" /\ main_loop_done /\ main' = "clean" /\ step' = 0
       \/ main = "sleep" /\ critical_error /\ main' = "clean" /\ step' = 0
    /\ UNCHANGED <<options, up, flags, clock, wndVars>>

\* while (!main_loop_done) { sleep(1); if (critical_error) break; }
MainLoop ==
    /\ \/ main = "loop" /\ ~main_loop_done /\ main' = "sleep" /\ step' = step
       \/ main = "sleep" /\ ~critical_error /\ main' = "loop" /\ step' = step
       \/ main = "loop" /\ main_loop_done /\ main' = "clean" /\ step' = 1
       \/ main = "sleep" /\ critical_error /\ main' = "clean" /\ step' = 1
    /\ UNCHANGED <<options, up, flags, clock, wndVars>>

\* A clean_... of clean_datas returns.
Cleaned(c) ==
    /\ up' = up \ {c}
    /\ step' = step + 1
    /\ main' = "clean"

At(c) == main = "clean" /\ step <= Len(CleanOrder) /\ CleanOrder[step] = c

CleanComponent ==
    /\ \E c \in Component \ {"clock", "joypad"} : At(c) /\ Cleaned(c)
    /\ UNCHANGED <<options, flags, clock, wndVars>>

\* end_loop
EndLoop ==
    /\ At("clock")
    /\ exit_loop' = TRUE /\ main' = "join clock"
    /\ UNCHANGED <<options, step, up, main_loop_done, critical_error, debug_mode, sig, clock, wndVars>>

\* Mutant of JoinClock: no join.
MutJoinClock ==
    /\ main = "join clock"
    /\ Cleaned("clock")
    /\ UNCHANGED <<options, flags, clock, wndVars>>

JoinClock ==
    /\ main = "join clock" /\ clock = "ended"
    /\ Cleaned("clock")
    /\ UNCHANGED <<options, flags, clock, wndVars>>

\* gtk_main_quit: a main loop that has begun ends, otherwise nothing happens.
GtkMainQuit == wnd' = IF wnd = "gtk_main" THEN "leaving" ELSE wnd

CloseJoypadWnd ==
    /\ At("joypad")
    /\ main' = "join joypad"
    /\ IF jp_wnd_start THEN GtkMainQuit ELSE wnd' = wnd
    /\ UNCHANGED <<options, step, up, flags, clock, jp_wnd_start>>

JoinJoypad ==
    /\ main = "join joypad" /\ wnd = "ended"
    /\ Cleaned("joypad")
    /\ UNCHANGED <<options, flags, clock, wndVars>>

CleanDone == main = "clean" /\ step > Len(CleanOrder) /\ Exit

Main ==
    \/ InitComponent \/ PrepareSig \/ LoadCartridge \/ StartClock \/ MainLoop
    \/ CleanComponent \/ EndLoop \/ JoinClock \/ CloseJoypadWnd \/ JoinJoypad \/ CleanDone

\* Mutant of SigHandler: -d makes no difference.
MutSigHandler ==
    /\ main \notin {"init", "exited"} /\ sig = "none"
    /\ sig' = "main_loop_done"
    /\ UNCHANGED <<options, mainVars, main_loop_done, critical_error, debug_mode, exit_loop, clock,
                   wndVars>>

\* sig_handler, on Ctrl-C: its tests ...
SigHandler ==
    /\ main \notin {"init", "exited"} /\ sig = "none"
    /\ sig' = IF ~critical_error /\ param_debug THEN "debug_mode" ELSE "main_loop_done"
    /\ UNCHANGED <<options, mainVars, main_loop_done, critical_error, debug_mode, exit_loop, clock,
                   wndVars>>

\* ... and its store, with steps of the threads between the two.
SigSets ==
    /\ main # "exited" /\ sig # "none"
    /\ debug_mode' = (debug_mode \/ sig = "debug_mode")
    /\ main_loop_done' = (main_loop_done \/ sig = "main_loop_done")
    /\ sig' = "none"
    /\ UNCHANGED <<options, mainVars, critical_error, exit_loop, clock, wndVars>>

-----------------------------------------------------------------------------
(* The clock thread. *)

\* cpu_clock_loop's test of exit_loop.
WalkTop ==
    /\ clock = "top"
    /\ clock' = IF exit_loop THEN "ended" ELSE "walk"
    /\ UNCHANGED <<options, mainVars, flags, wndVars>>

\* A walk with no fetch, or one that does not stop at the prompt; a store to ROM
\* or to a pattern table sets critical_error, and the thread goes on.
WalkOn ==
    /\ clock = "walk"
    /\ clock' = "top"
    /\ critical_error' \in {critical_error, TRUE}
    /\ UNCHANGED <<options, mainVars, main_loop_done, debug_mode, exit_loop, sig, wndVars>>

\* Mutant of Prompt: only with -d.
MutPrompt ==
    /\ clock = "walk" /\ debug_mode /\ param_debug
    /\ clock' = "prompt"
    /\ UNCHANGED <<options, mainVars, flags, wndVars>>

\* A fetch in debug_mode.
Prompt ==
    /\ clock = "walk" /\ debug_mode
    /\ clock' = "prompt"
    /\ UNCHANGED <<options, mainVars, flags, wndVars>>

\* A fetch at a break point.
BreakHit ==
    /\ clock = "walk"
    /\ debug_mode' = TRUE
    /\ clock' = "prompt"
    /\ UNCHANGED <<options, mainVars, main_loop_done, critical_error, exit_loop, sig, wndVars>>

\* An instruction or the NMI fails: while (emu_debug());
Fail ==
    /\ clock = "walk"
    /\ clock' = "failed"
    /\ UNCHANGED <<options, mainVars, flags, wndVars>>

\* emu_debug returns TRUE on "s" and on "c"; "c" ends debug_mode.
Answer ==
    /\ clock \in {"prompt", "failed"}
    /\ clock' = IF clock = "prompt" THEN "top" ELSE "failed"
    /\ debug_mode' \in {debug_mode, FALSE}
    /\ UNCHANGED <<options, mainVars, main_loop_done, critical_error, exit_loop, sig, wndVars>>

\* "q": emu_debug leaves debug_mode ...
AnswerQuit ==
    /\ clock \in {"prompt", "failed"}
    /\ debug_mode' = FALSE
    /\ clock' = "quit"
    /\ UNCHANGED <<options, mainVars, main_loop_done, critical_error, exit_loop, sig, wndVars>>

\* Mutant of QuitSets: critical_error is not set.
MutQuitSets ==
    /\ clock = "quit"
    /\ clock' = "ended"
    /\ UNCHANGED <<options, mainVars, flags, wndVars>>

\* ... sets critical_error and returns FALSE: the handler and the thread end with it.
QuitSets ==
    /\ clock = "quit"
    /\ critical_error' = TRUE
    /\ clock' = "ended"
    /\ UNCHANGED <<options, mainVars, main_loop_done, debug_mode, exit_loop, sig, wndVars>>

Walk == WalkTop \/ WalkOn \/ Prompt \/ BreakHit \/ Fail \/ QuitSets

-----------------------------------------------------------------------------
(* The joypad's thread: window_start. *)

WindowStart ==
    /\ wnd = "start" /\ with_wnd
    /\ wnd' = "flagged" /\ jp_wnd_start' = TRUE
    /\ UNCHANGED <<options, mainVars, flags, clock>>

\* Without a window, or without the picture it needs.
NoWindow ==
    /\ wnd = "start"
    /\ wnd' = "ended"
    /\ UNCHANGED <<options, mainVars, flags, clock, jp_wnd_start>>

GtkMain ==
    /\ wnd = "flagged"
    /\ wnd' = "gtk_main"
    /\ UNCHANGED <<options, mainVars, flags, clock, jp_wnd_start>>

\* The user closes the window: its "destroy" calls gtk_main_quit.
Destroy ==
    /\ wnd = "gtk_main" /\ GtkMainQuit
    /\ UNCHANGED <<options, mainVars, flags, clock, jp_wnd_start>>

GtkMainReturns ==
    /\ wnd = "leaving"
    /\ wnd' = "ended"
    /\ UNCHANGED <<options, mainVars, flags, clock, jp_wnd_start>>

Window == WindowStart \/ NoWindow \/ GtkMain \/ GtkMainReturns

Next ==
    \/ Main \/ StartFails \/ SigHandler \/ SigSets
    \/ Walk \/ Answer \/ AnswerQuit \/ Window \/ Destroy

\* The three threads and a signal's handler run, and the CPU fetches again and again;
\* nothing is assumed of the user.
Spec == /\ Init /\ [][Next]_vars
        /\ WF_vars(Main) /\ WF_vars(SigSets) /\ WF_vars(Walk) /\ SF_vars(Prompt) /\ WF_vars(Window)

-----------------------------------------------------------------------------
(* Properties. *)

TypeOK ==
    /\ param_debug \in BOOLEAN /\ with_wnd \in BOOLEAN
    /\ main \in {"init", "load", "start", "loop", "sleep", "clean", "join clock",
                 "join joypad", "exited"}
    /\ step \in 1 .. Len(InitOrder) + 1
    /\ up \subseteq Component
    /\ main_loop_done \in BOOLEAN /\ critical_error \in BOOLEAN
    /\ debug_mode \in BOOLEAN /\ exit_loop \in BOOLEAN
    /\ sig \in {"none", "debug_mode", "main_loop_done"}
    /\ clock \in {"none", "top", "walk", "prompt", "failed", "quit", "ended"}
    /\ wnd \in {"none", "start", "flagged", "gtk_main", "leaving", "ended"}
    /\ jp_wnd_start \in BOOLEAN

\* The components a handler of the clock thread may call.
Called == Component \ {"joypad"}

\* While the clock thread lives everything it may call is initialised and not
\* freed: from its start to the join, whoever stops it, and however it ends.
NothingFreedInUse == clock \in {"top", "walk", "prompt", "failed", "quit"} => Called \subseteq up

Prompted == clock \in {"prompt", "failed"}

Asked == main_loop_done \/ critical_error \/ clock = "ended"

\* close_joypad_wnd came before gtk_main had begun, and was lost.
QuitLost == main = "join joypad" /\ wnd = "gtk_main"

\* Asked to end by Ctrl-C, by "q", by an error, or left by its clock thread, the
\* program ends, if the debugger's prompt is answered; or main waits for a window
\* that came too late to hear that it should close.
EndsWhenAsked == []<>~Prompted => (Asked ~> main = "exited" \/ QuitLost)

\* Ctrl-C in debug mode brings the prompt, unless the program is ending already.
InterruptPrompts ==
    debug_mode ~> ~debug_mode \/ Prompted \/ exit_loop \/ main = "exited"

\* With -d only the debugger and errors end the program, never Ctrl-C alone.
DebuggerHasTheLastWord ==
    param_debug /\ main \in {"clean", "join clock", "join joypad"} => critical_error
=============================================================================
