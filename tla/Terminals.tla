------------------------------ MODULE Terminals ------------------------------
(***************************************************************************)
(* Two operators at two terminals on one store: one has the full-screen    *)
(* programs of lsbx-tui (the dashboard, the up wizard, the golden build    *)
(* wizard), the other gives lsbx up and lsbx down commands (lsbx-cli's     *)
(* dispatch).  The dashboard refreshes itself while a question is on the   *)
(* screen, and sandboxes come and go under it.                             *)
(*                                                                         *)
(* A facade call is one step that succeeds or fails (SandboxLifecycle has  *)
(* what it does).  list returns the records in the order of the directory, *)
(* which is any.                                                           *)
(***************************************************************************)
EXTENDS Integers, SequencesExt, FiniteSetsExt

CONSTANTS
    Sandboxes,
    Offered,       \* how many values the wizard offers for each field
    Defaults,      \* the index each field starts with
    MaxCount,      \* bound on --count and on the ids given to lsbx down
    None

Fields == {"profile", "cpu", "memory", "lease"}

ASSUME OfferedAssumption ==
    /\ Offered \in [Fields -> Nat \ {0}] /\ Defaults \in [Fields -> Nat]
    /\ \A f \in Fields : Defaults[f] < Offered[f]
    /\ MaxCount \in Nat \ {0}
ASSUME NoneAssumption == None \notin Sandboxes \cup {"cancelled", "confirmed"}

VARIABLES
    store,     \* the sandboxes that have a record
    hook,      \* install_panic_restore_hook was called
    app,       \* what runs at the first terminal: "shell", "dashboard", "up", "build"
    at,        \* its next step
    raw, alt,  \* the terminal: raw mode, alternate screen
    active,    \* TUI_ACTIVE
    list, selected, confirm, detail, quit, status, \* DashboardState
    target,    \* the id a call of the dashboard is about
    step, index, verdict, \* UpWizardState: verdict is None, "cancelled" or "confirmed"
    request,   \* what a wizard asks the facade for, by field
    frame,     \* what the last frame drawn shows
    cmd,       \* the other terminal's command
    broken     \* history: entering the screen failed half way

term      == <<raw, alt, active>>
dashboard == <<list, selected, confirm, detail, quit, status, target>>
wizard    == <<step, index, verdict, request>>
vars == <<store, hook, app, at, term, dashboard, wizard, frame, cmd, broken>>

NoFrame == [high |-> None, prompt |-> None, answers |-> None]
NoCmd   == [kind |-> None, todo |-> <<>>, code |-> 0, ok |-> 0, asked |-> 0]

Fresh ==  \* DashboardState::new, UpWizardState::new, GoldenBuildWizardState::new
    /\ list' = <<>> /\ selected' = 0 /\ confirm' = None /\ detail' = None
    /\ quit' = FALSE /\ status' = FALSE /\ target' = None
    /\ step' = "profile" /\ index' = Defaults /\ verdict' = None /\ request' = None
    /\ frame' = NoFrame

Init ==
    /\ store = {} /\ hook \in BOOLEAN
    /\ app = "shell" /\ at = "shell"
    /\ raw = FALSE /\ alt = FALSE /\ active = FALSE
    /\ list = <<>> /\ selected = 0 /\ confirm = None /\ detail = None
    /\ quit = FALSE /\ status = FALSE /\ target = None
    /\ step = "profile" /\ index = Defaults /\ verdict = None /\ request = None
    /\ frame = NoFrame /\ cmd = NoCmd /\ broken = FALSE

-----------------------------------------------------------------------------
(* Entering and leaving the screen                                         *)

\* run_dashboard, run_up_wizard or run_golden_build_wizard is called;
\* TuiActiveGuard::enter.
Open(a) ==
    /\ app = "shell" /\ app' = a /\ at' = "raw"
    /\ active' = TRUE /\ Fresh
    /\ UNCHANGED <<store, hook, raw, alt, cmd, broken>>

\* TerminalGuard::enter.  An error after raw mode is on returns without a guard,
\* so nothing turns it off; TUI_ACTIVE is reset all the same.
EnterRaw ==
    /\ at = "raw"
    /\ \/ raw' = TRUE /\ at' = "screen" /\ UNCHANGED <<app, active>>
       \/ app' = "shell" /\ at' = "shell" /\ active' = FALSE /\ UNCHANGED raw
    /\ UNCHANGED <<store, hook, alt, dashboard, wizard, frame, cmd, broken>>

EnterScreen ==
    /\ at = "screen"
    /\ \/ /\ alt' = TRUE /\ at' = IF app = "dashboard" THEN "refresh" ELSE "draw"
          /\ UNCHANGED <<app, active, broken>>
       \/ /\ alt' \in BOOLEAN /\ (alt => alt')
          /\ app' = "shell" /\ at' = "shell" /\ active' = FALSE /\ broken' = TRUE
    /\ UNCHANGED <<store, hook, raw, dashboard, wizard, frame, cmd>>

\* TerminalGuard's drop, then TuiActiveGuard's.
Restore == raw' = FALSE /\ alt' = FALSE /\ active' = FALSE /\ broken' = FALSE

\* The function returns, whatever the reason: the guard is dropped.
Leave == app' = "shell" /\ at' = "shell" /\ Restore /\ Fresh

-----------------------------------------------------------------------------
(* The event loops                                                         *)

\* selected_id
Selected == IF selected < Len(list) THEN list[selected + 1] ELSE None

\* UpWizardState::answers
Answers == index

\* answers_to_create_request takes the profile and the lease and leaves cpu and
\* memory unset, though its comment says "exactly what `lsbx up <profile> --cpu N
\* --memory M --lease D` would construct, field for field" (wizard.rs:449);
\* run_golden_build_wizard takes the size of the build VM.
Request == [f \in (IF app = "up" THEN {"profile", "lease"} ELSE {"cpu", "memory"}) |-> Answers[f]]

\* What draw puts on the screen.
Shown ==
    CASE app = "dashboard" -> [high |-> Selected, prompt |-> confirm, answers |-> None]
      [] app = "up" /\ step # "confirm" -> NoFrame
      [] OTHER -> [high |-> None, prompt |-> None, answers |-> Answers]

\* Mutant: the guard lives to the end of the function.
Confirmed_KeepsGuard == at' = "call" /\ UNCHANGED <<term, broken>>

\* drop(guard), then the call.
Confirmed == at' = "call" /\ Restore

\* The top of a loop: draw, which may fail, then look at what the last key
\* decided.
DrawAndReturn ==
    /\ at = "draw" /\ Leave
    /\ UNCHANGED <<store, hook, cmd>>

DrawAndGoOn ==
    /\ at = "draw" /\ ~quit /\ verdict # "cancelled"
    /\ frame' = Shown
    /\ IF verdict = "confirmed"
       THEN Confirmed /\ request' = Request
       ELSE at' = "wait" /\ UNCHANGED <<term, broken, request>>
    /\ UNCHANGED <<store, hook, app, dashboard, step, index, verdict, cmd>>

\* The event stream ends or fails.
StreamEnds ==
    /\ at = "wait" /\ Leave
    /\ UNCHANGED <<store, hook, cmd>>

\* A panic runs the hook, which restores the screen before it reports ...
Panic ==
    /\ at \in {"refresh", "draw", "wait", "destroy", "info"}
    /\ at' = "unwinding"
    /\ IF hook /\ active THEN raw' = FALSE /\ alt' = FALSE ELSE UNCHANGED <<raw, alt>>
    /\ UNCHANGED <<store, hook, app, active, dashboard, wizard, frame, cmd, broken>>

\* ... and unwinding drops the guard.
Unwind ==
    /\ at = "unwinding" /\ Leave
    /\ UNCHANGED <<store, hook, cmd>>

-----------------------------------------------------------------------------
(* The dashboard                                                           *)

\* Mutant: the selection is not clipped when the list got shorter.
Clip_Missing(n, len) == n

Clip(n, len) == IF n < len THEN n ELSE IF len = 0 THEN 0 ELSE len - 1

\* refresh: list in some order, or an error, which keeps the old list.
Refresh ==
    /\ at = "refresh" /\ at' = "draw"
    /\ \/ /\ list' \in SetToSeqs(store)
          /\ selected' = Clip(selected, Len(list')) /\ UNCHANGED status
       \/ status' = TRUE /\ UNCHANGED <<list, selected>>
    /\ UNCHANGED <<store, hook, app, term, confirm, detail, quit, target, wizard, frame, cmd,
                   broken>>

\* The ticker; it goes on while a question is on the screen.
Tick ==
    /\ at = "wait" /\ app = "dashboard" /\ at' = "refresh"
    /\ UNCHANGED <<store, hook, app, term, dashboard, wizard, frame, cmd, broken>>

\* move_selection wraps around.
Moved(delta) == IF list = <<>> THEN 0 ELSE (selected + delta) % Len(list)

\* handle_key in the list.
ListKey ==
    /\ \/ quit' = TRUE /\ at' = "draw" /\ UNCHANGED <<selected, confirm, target>>    \* q, c
       \/ /\ \E delta \in {-1, 1} : selected' = Moved(delta)
          /\ at' = "draw" /\ UNCHANGED <<quit, confirm, target>>
       \/ confirm' = Selected /\ at' = "draw" /\ UNCHANGED <<quit, selected, target>> \* d
       \/ /\ target' = Selected                                                       \* enter, i
          /\ at' = IF Selected = None THEN "draw" ELSE "info"
          /\ UNCHANGED <<quit, selected, confirm>>
       \/ at' = "refresh" /\ UNCHANGED <<quit, selected, confirm, target>>             \* r
       \/ at' = "draw" /\ UNCHANGED <<quit, selected, confirm, target>>                \* another
    /\ UNCHANGED <<detail, status>>

\* Mutant: y goes by the selection.
PromptKey_Selected ==
    /\ \/ target' = Selected /\ confirm' = None /\ at' = "destroy" /\ UNCHANGED status
       \/ target' = None /\ confirm' = None /\ at' = "draw" /\ status' = TRUE
       \/ at' = "draw" /\ UNCHANGED <<target, confirm, status>>
    /\ UNCHANGED <<quit, selected, detail>>

\* handle_key under the question: y, n or Esc, and any other key.
PromptKey ==
    /\ \/ target' = confirm /\ confirm' = None /\ at' = "destroy" /\ UNCHANGED status
       \/ target' = None /\ confirm' = None /\ at' = "draw" /\ status' = TRUE
       \/ at' = "draw" /\ UNCHANGED <<target, confirm, status>>
    /\ UNCHANGED <<quit, selected, detail>>

DashboardKey ==
    /\ at = "wait" /\ app = "dashboard"
    /\ IF detail # None
       THEN detail' = None /\ at' = "draw" /\ UNCHANGED <<quit, selected, confirm, target, status>>
       ELSE IF confirm # None THEN PromptKey ELSE ListKey
    /\ UNCHANGED <<store, hook, app, term, list, wizard, frame, cmd, broken>>

\* ops.destroy; an absent record is an error like any other.
Destroy ==
    /\ at = "destroy" /\ target' = None /\ status' = TRUE
    /\ \/ target \in store /\ store' = store \ {target} /\ at' = "refresh"
       \/ at' = "draw" /\ UNCHANGED store
    /\ UNCHANGED <<hook, app, term, list, selected, confirm, detail, quit, wizard, frame, cmd,
                   broken>>

Info ==
    /\ at = "info" /\ at' = "draw" /\ target' = None
    /\ \/ target \in store /\ detail' = target /\ UNCHANGED status
       \/ status' = TRUE /\ UNCHANGED detail
    /\ UNCHANGED <<store, hook, app, term, list, selected, confirm, quit, wizard, frame, cmd,
                   broken>>

-----------------------------------------------------------------------------
(* The wizards                                                             *)

Steps == <<"profile", "cpu", "memory", "lease", "confirm">>
StepNo == CHOOSE i \in 1 .. 5 : Steps[i] = step
NextStep == IF StepNo < 5 THEN Steps[StepNo + 1] ELSE step
PrevStep == IF StepNo > 1 THEN Steps[StepNo - 1] ELSE step

ClampIndex(i, delta, len) ==
    IF i + delta < 0 THEN 0 ELSE IF i + delta >= len THEN len - 1 ELSE i + delta

Adjust(f, delta) == index' = [index EXCEPT ![f] = ClampIndex(@, delta, Offered[f])]

Verdict(v) == verdict' = v /\ UNCHANGED <<step, index>>

\* handle_up_wizard_key: Esc or q; an arrow that adjusts; one that moves (up and
\* down adjust the first step instead), Enter and Backspace; another key.
UpWizardKey ==
    \/ Verdict("cancelled")
    \/ /\ IF step = "confirm" THEN UNCHANGED index
          ELSE \E delta \in {-1, 1} : Adjust(step, delta)
       /\ UNCHANGED <<step, verdict>>
    \/ step' \in {NextStep, PrevStep} /\ UNCHANGED <<index, verdict>>
    \/ step = "confirm" /\ Verdict("confirmed")
    \/ Verdict(None)

\* handle_golden_build_wizard_key: one screen for everything.
BuildWizardKey ==
    \/ \E f \in {"cpu", "memory"}, delta \in {-1, 1} :
        Adjust(f, delta) /\ UNCHANGED <<step, verdict>>
    \/ \E v \in {"cancelled", "confirmed", None} : Verdict(v)

WizardKey ==
    /\ at = "wait" /\ at' = "draw"
    /\ \/ app = "up" /\ UpWizardKey
       \/ app = "build" /\ BuildWizardKey
    /\ UNCHANGED <<store, hook, app, term, dashboard, request, frame, cmd, broken>>

\* ops.create or ops.golden_build, and the return.
Call ==
    /\ at = "call"
    /\ \/ app = "up" /\ \E s \in Sandboxes \ store : store' = store \cup {s}
       \/ UNCHANGED store
    /\ app' = "shell" /\ at' = "shell" /\ Fresh
    /\ UNCHANGED <<hook, term, cmd, broken>>

-----------------------------------------------------------------------------
(* The other terminal                                                      *)

Idle == cmd.todo = <<>>

\* lsbx up --count n and lsbx down, with ids (which need not exist, nor differ)
\* or with --all, which lists once.  A bad duration, or an error of that list,
\* ends the command.
Up(n) == cmd' = [kind |-> "up", todo |-> [i \in 1 .. n |-> None], code |-> 0, ok |-> 0, asked |-> n]
Down(ids) == cmd' = [kind |-> "down", todo |-> ids, code |-> 0, ok |-> 0, asked |-> Len(ids)]

Give ==
    /\ Idle
    /\ \/ \E n \in 1 .. MaxCount : Up(n)
       \/ \E n \in 1 .. MaxCount : \E ids \in [1 .. n -> Sandboxes] : Down(ids)
       \/ \E all \in SetToSeqs(store) : Down(all)
       \/ cmd' = [NoCmd EXCEPT !.code = 1, !.asked = 1]
    /\ UNCHANGED <<store, hook, app, at, term, dashboard, wizard, frame, broken>>

\* Mutant: the exit code is that of the last one.
Succeeds_ClearsCode == cmd' = [cmd EXCEPT !.todo = Tail(@), !.ok = @ + 1, !.code = 0]

Succeeds == cmd' = [cmd EXCEPT !.todo = Tail(@), !.ok = @ + 1]

\* An error is printed, and the rest is still done.
Fails == cmd' = [cmd EXCEPT !.todo = Tail(@), !.code = 1]

CreateOne ==
    /\ ~Idle /\ cmd.kind = "up"
    /\ \/ Succeeds /\ \E s \in Sandboxes \ store : store' = store \cup {s}
       \/ Fails /\ UNCHANGED store
    /\ UNCHANGED <<hook, app, at, term, dashboard, wizard, frame, broken>>

DestroyOne ==
    /\ ~Idle /\ cmd.kind = "down"
    /\ \/ Succeeds /\ Head(cmd.todo) \in store /\ store' = store \ {Head(cmd.todo)}
       \/ Fails /\ UNCHANGED store
    /\ UNCHANGED <<hook, app, at, term, dashboard, wizard, frame, broken>>

-----------------------------------------------------------------------------

Next ==
    \/ \E a \in {"dashboard", "up", "build"} : Open(a)
    \/ EnterRaw \/ EnterScreen \/ DrawAndReturn \/ DrawAndGoOn \/ StreamEnds \/ Panic \/ Unwind
    \/ Refresh \/ Tick \/ DashboardKey \/ Destroy \/ Info
    \/ WizardKey \/ Call
    \/ Give \/ CreateOne \/ DestroyOne

Spec == Init /\ [][Next]_vars

-----------------------------------------------------------------------------

Places == {"shell", "raw", "screen", "refresh", "draw", "wait", "destroy", "info", "call",
           "unwinding"}

\* Of the right types, with every index inside its list (answers and draw index
\* without a check, and would panic), and one overlay at most.
TypeOK ==
    /\ store \subseteq Sandboxes /\ hook \in BOOLEAN /\ at \in Places
    /\ raw \in BOOLEAN /\ alt \in BOOLEAN /\ active \in BOOLEAN
    /\ list \in Seq(Sandboxes) /\ selected \in Nat
    /\ IF list = <<>> THEN selected = 0 ELSE selected < Len(list)
    /\ confirm = None \/ detail = None
    /\ step \in ToSet(Steps)
    /\ \A f \in Fields : index[f] \in 0 .. Offered[f] - 1

\* Nothing is destroyed or made but what the last frame showed: y destroys the
\* sandbox the question on the screen names, however often the list was
\* refreshed under it and whatever others created and destroyed; the question is
\* about the sandbox that was highlighted; what a wizard asks for is what
\* the screen said that Enter was pressed on.  The up wizard also shows a cpu and a
\* memory size, and wizard.rs:449 has them in the request "field for field"; the
\* code leaves them out, so nothing is claimed of these two.
OnlyWhatWasShown ==
    [][/\ at' = "destroy" /\ at # "destroy" => target' = frame.prompt /\ frame.prompt # None
       /\ confirm' \notin {confirm, None} => confirm' = frame.high
       /\ at' = "call" /\ at # "call" =>
            \A f \in DOMAIN request' : request'[f] = frame.answers[f]]_vars

\* The terminal is in its usual state whenever the shell, the facade call of a
\* wizard, or (with the hook) a panic report has it: every way out of the event
\* loops restores it.  A failure to enter the alternate screen does not.
TerminalRestored ==
    raw \/ alt => \/ at \in {"raw", "screen", "refresh", "draw", "wait", "destroy", "info"}
                  \/ at = "unwinding" /\ ~hook
                  \/ broken

\* lsbx up and lsbx down exit with 0 exactly if all they were asked to do was
\* done, though they go on after an error and others work on the same store.
ExitCodeHonest == Idle => (cmd.code = 0 <=> cmd.ok = cmd.asked)
=============================================================================
