--------------------------------- MODULE Tools ---------------------------------
(***************************************************************************)
(* The tools of a view: the buttons in its toolbar (view.cc), and the      *)
(* Pipette and Measure tools, which listen to what the user selects        *)
(* (plugins/pipette, plugins/measure).                                     *)
(*                                                                         *)
(* The measure tool does its work at once.  The pipette has it done by a   *)
(* thread of Sequentially(), which shows messages by means of              *)
(* sync_on_ui_thread(): it posts a message and waits until the UI thread   *)
(* has shown it, with jobMutex locked.                                     *)
(***************************************************************************)
EXTENDS Naturals, Sequences, SequencesExt

CONSTANTS
    Pipette, Measure,   \* the tools
    Selections,         \* what a user may select
    NoMark,             \* no selection
    MaxQueued,          \* bound on the jobs that wait
    MaxClicks           \* bound on the number of times the user does something

ASSUME ToolsAssumption == Pipette # Measure

AllTools == {Pipette, Measure}

VARIABLES
    button,      \* the button of each tool: "none", "on" or "off"; a button that is
                 \* on is not sensitive
    enabled,     \* of each handler: enabled
    mark,        \* of each handler: selection
    wasDisabled, \* PipetteHandler::wasDisabled
    waiting,     \* the selections of the jobs in Sequentially()
    job,         \* the job that runs: what it does, its selection, and (for the
                 \* properties only) whether the tool was on when it started
    message,     \* the message that waits for the UI thread
    status,      \* the status bar
    shows,       \* does the view have a presentation
    clicks

toolVars == <<button, enabled, mark, wasDisabled, waiting, job, message, status, shows, clicks>>

NoJob == [pc |-> "idle", mark |-> NoMark, on |-> FALSE]
Text(what, m) == [what |-> what, mark |-> m]
NoText == Text("none", NoMark)

ToolsInit ==
    /\ button = [t \in AllTools |-> "none"]
    /\ enabled = [t \in AllTools |-> FALSE]
    /\ mark = [t \in AllTools |-> NoMark]
    /\ wasDisabled = FALSE
    /\ waiting = <<>>
    /\ job = NoJob
    /\ message = NoText
    /\ status = NoText
    /\ shows = TRUE
    /\ clicks = 0

\* jobMutex: locked by the job.  On the UI thread it is only tried, and unlocked
\* by the handler that locked it.
Locked == job.pc # "idle"

-----------------------------------------------------------------------------
(* The UI thread.  Each handler is an action.                              *)

Click ==
    /\ clicks < MaxClicks
    /\ clicks' = clicks + 1
    /\ UNCHANGED <<job, message, shows>>

\* onEnable() and onDisable() of the handlers, of the tool t that is switched on
\* and of the tools that are switched off.
StaysEnabled(s, t, off) == s = t \/ (enabled[s] /\ s \notin off)

WrongSwitch(t, off) ==  \* leaves the selections
    /\ enabled' = [s \in AllTools |-> StaysEnabled(s, t, off)]
    /\ mark' = mark
    /\ wasDisabled' = (Pipette \in off \/ (wasDisabled /\ ~(t = Pipette /\ ~Locked)))

Switch(t, off) ==
    /\ enabled' = [s \in AllTools |-> StaysEnabled(s, t, off)]
    /\ mark' = [s \in AllTools |-> IF s \in off THEN NoMark ELSE mark[s]]
    /\ wasDisabled' = (Pipette \in off \/ (wasDisabled /\ ~(t = Pipette /\ ~Locked)))

\* addToolButton(): the first one is switched on; that onEnable() is called by the
\* signal and once more makes no difference.
AddToolButton(t) ==
    /\ Click
    /\ button[t] = "none"
    /\ IF \A s \in AllTools : button[s] = "none"
       THEN button' = [button EXCEPT ![t] = "on"] /\ Switch(t, {})
       ELSE button' = [button EXCEPT ![t] = "off"] /\ UNCHANGED <<enabled, mark, wasDisabled>>
    /\ UNCHANGED <<waiting, status>>

\* toolButtonToggled(): only the button that is on remains on.
ToggleTool(t) ==
    LET off == {s \in AllTools \ {t} : button[s] = "on"}
    IN /\ Click
       /\ button[t] = "off"
       /\ button' = [s \in AllTools |-> IF s = t THEN "on" ELSE IF s \in off THEN "off" ELSE button[s]]
       /\ Switch(t, off)
       /\ UNCHANGED <<waiting, status>>

\* A tool that is off ignores the selection, and so does a pipette that is busy.
Listens(t) == enabled[t] /\ (t = Pipette => ~Locked)

\* displayMeasurement()
Measurement(m) == Text("measured", m)

\* onSelectionUpdate() and onSelectionEnd() of both tools.
Select(m, ends) ==
    /\ Click
    /\ shows
    /\ Len(waiting) < MaxQueued
    /\ mark' = [t \in AllTools |-> IF Listens(t) THEN m ELSE mark[t]]
    /\ status' = IF Listens(Measure) THEN Measurement(m) ELSE status
    /\ waiting' = IF Listens(Pipette) /\ ends THEN Append(waiting, m) ELSE waiting
    /\ UNCHANGED <<button, enabled, wasDisabled>>

\* The window is closed: clearPresentation().  The jobs keep the view.
CloseWindow ==
    /\ shows
    /\ shows' = FALSE
    /\ UNCHANGED <<button, enabled, mark, wasDisabled, waiting, job, message, status, clicks>>

WrongShowMessage ==  \* the message is dropped when the window is gone
    /\ message # NoText /\ shows
    /\ status' = message
    /\ message' = NoText
    /\ UNCHANGED <<button, enabled, mark, wasDisabled, waiting, job, shows, clicks>>

\* The message of the job is shown, and the job goes on.
ShowMessage ==
    /\ message # NoText
    /\ status' = message
    /\ message' = NoText
    /\ UNCHANGED <<button, enabled, mark, wasDisabled, waiting, job, shows, clicks>>

-----------------------------------------------------------------------------
(* computeValues(), by the thread of Sequentially().                       *)

Works(pc) ==
    /\ job.pc = pc
    /\ message = NoText
    /\ UNCHANGED <<button, enabled, mark, status, shows, clicks>>

StartJob ==
    /\ Works("idle")
    /\ waiting # <<>>
    /\ waiting' = Tail(waiting)
    /\ job' = [pc |-> "compute", mark |-> Head(waiting), on |-> enabled[Pipette]]
    /\ message' = Text("computing", Head(waiting))
    /\ UNCHANGED wasDisabled

\* Without presentation there is nothing to compute.
ComputeValues ==
    /\ Works("compute")
    /\ job' = [job EXCEPT !.pc = IF shows THEN "test" ELSE "unlock"]
    /\ message' = IF shows THEN NoText ELSE Text("not supported", job.mark)
    /\ UNCHANGED <<waiting, wasDisabled>>

WrongTestDisabled ==  \* the flag is set, but not looked at
    /\ Works("test")
    /\ wasDisabled' = TRUE
    /\ job' = [job EXCEPT !.pc = "display"]
    /\ UNCHANGED <<waiting, message>>

\* wasDisabled.test_and_set() ...
TestDisabled ==
    /\ Works("test")
    /\ wasDisabled' = TRUE
    /\ job' = [job EXCEPT !.pc = IF wasDisabled THEN "clear" ELSE "display"]
    /\ UNCHANGED <<waiting, message>>

\* ... and displayValues() if it was not set.
DisplayValues ==
    /\ Works("display")
    /\ job' = [job EXCEPT !.pc = "clear"]
    /\ message' = Text("values", job.mark)
    /\ UNCHANGED <<waiting, wasDisabled>>

ClearDisabled ==
    /\ Works("clear")
    /\ wasDisabled' = FALSE
    /\ job' = [job EXCEPT !.pc = "unlock"]
    /\ UNCHANGED <<waiting, message>>

UnlockJob ==
    /\ Works("unlock")
    /\ job' = NoJob
    /\ UNCHANGED <<waiting, wasDisabled, message>>

JobStep ==
    StartJob \/ ComputeValues \/ TestDisabled \/ DisplayValues \/ ClearDisabled \/ UnlockJob

ToolsNext ==
    \/ \E t \in AllTools : AddToolButton(t) \/ ToggleTool(t)
    \/ \E m \in Selections, ends \in BOOLEAN : Select(m, ends)
    \/ CloseWindow \/ ShowMessage \/ JobStep

\* The UI thread handles its messages, and the worker does its work.
ToolsFairness == WF_toolVars(ShowMessage) /\ WF_toolVars(JobStep)

ToolsSpec == ToolsInit /\ [][ToolsNext]_toolVars /\ ToolsFairness

-----------------------------------------------------------------------------
(* Properties.                                                             *)

\* The tools of a view and their buttons agree, one tool is on as soon as there are
\* any, and a tool that is off has nothing selected to draw in the view, also if it
\* was switched off while it was computing.
ToolsAgree ==
    /\ \A t \in AllTools : enabled[t] <=> button[t] = "on"
    /\ \A t \in AllTools : ~enabled[t] => mark[t] = NoMark
    /\ (\E t \in AllTools : button[t] # "none") => (\E t \in AllTools : enabled[t])
    /\ ~(enabled[Pipette] /\ enabled[Measure])

\* "If the plugin was switched off ignore the result" (pipette.cc:83): when a job
\* during which the tool was switched off decides whether to display its result, it
\* does not, whatever else was switched and however many jobs wait.  (A job that
\* starts when the tool is off does not know it if another job came in between.)
SwitchedOffIsIgnored ==
    [][(job.pc = "test" /\ job'.pc = "display" /\ job.on) => enabled[Pipette]]_toolVars

\* Every job gets done although it waits for the UI thread while it has jobMutex,
\* since the UI thread never waits for jobMutex.
PipetteGetsDone == Locked ~> ~Locked
=============================================================================
