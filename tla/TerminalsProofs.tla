---------------------------- MODULE TerminalsProofs ----------------------------
(***************************************************************************)
(* Theorems about Terminals, for any set of sandboxes and any choices the  *)
(* wizards offer: the terminal is given back, nothing is done but what the *)
(* screen showed, every index stays inside its list, and the exit codes of *)
(* lsbx up and lsbx down say what was done.                                *)
(***************************************************************************)
EXTENDS Terminals, FiniteSetTheorems, TLAPS

Inside == {"raw", "screen", "refresh", "draw", "wait", "destroy", "info"}

\* Which program may be at which step, and what has been decided there.
PlaceInv ==
    /\ app \in {"shell", "dashboard", "up", "build"} /\ (app = "shell" <=> at = "shell")
    /\ at \in {"refresh", "destroy", "info"} => app = "dashboard"
    /\ at = "call" => app \in {"up", "build"}
    /\ verdict \in {None, "cancelled", "confirmed"}
    /\ at \in {"raw", "screen", "wait"} => verdict = None
    /\ app = "dashboard" => verdict = None
    /\ at = "info" => confirm = None /\ detail = None

\* The guards are there from the first step to the last, and what they have to
\* restore was put there by this run unless an earlier one was broken.
GuardInv ==
    /\ at \in Inside => active
    /\ at = "raw" /\ (raw \/ alt) => broken
    /\ at = "screen" => raw /\ (alt => broken)

\* While the program waits for a key the frame shows what the key will act on,
\* and what was confirmed is what the frame showed.
FrameInv ==
    /\ at = "wait" /\ app = "dashboard" => frame.high = Selected /\ frame.prompt = confirm
    /\ at = "wait" /\ (app = "build" \/ (app = "up" /\ step = "confirm")) => frame.answers = index
    /\ at = "draw" /\ verdict = "confirmed" => frame.answers = index

Commands == [kind : {None, "up", "down"}, todo : Seq(Sandboxes \cup {None}), code : {0, 1},
             ok : Nat, asked : Nat]

\* A command's exit code is 0 as long as what it has done and what it has still
\* to do make up all it was asked for.
CommandInv ==
    /\ cmd \in Commands
    /\ cmd.ok + Len(cmd.todo) <= cmd.asked
    /\ cmd.code = 0 <=> cmd.ok + Len(cmd.todo) = cmd.asked

IndexInv == index \in [Fields -> Nat]

IInv ==
    /\ TypeOK /\ IsFiniteSet(store) /\ IndexInv /\ PlaceInv /\ GuardInv /\ TerminalRestored
    /\ FrameInv /\ CommandInv

USE OfferedAssumption, NoneAssumption

-----------------------------------------------------------------------------
(* The operators of the model.                                             *)

\* The steps of the up wizard.
LEMMA StepNames == ToSet(Steps) = {"profile", "cpu", "memory", "lease", "confirm"}
  <1>1. Len(Steps) = 5 /\ DOMAIN Steps = 1 .. 5
    BY DEF Steps
  <1>2. /\ Steps[1] = "profile" /\ Steps[2] = "cpu" /\ Steps[3] = "memory" /\ Steps[4] = "lease"
        /\ Steps[5] = "confirm"
    BY DEF Steps
  <1> QED BY <1>1, <1>2 DEF ToSet

\* Enter and Backspace stay within the steps.
LEMMA StepsAreClosed ==
    ASSUME step \in ToSet(Steps)
    PROVE  NextStep \in ToSet(Steps) /\ PrevStep \in ToSet(Steps)
  <1>1. DOMAIN Steps = 1 .. 5
    BY DEF Steps
  <1>2. StepNo \in 1 .. 5
    <2>1. \E i \in 1 .. 5 : Steps[i] = step
      BY <1>1 DEF ToSet
    <2> QED BY <2>1 DEF StepNo
  <1>3. \A i \in 1 .. 5 : Steps[i] \in ToSet(Steps)
    BY <1>1 DEF ToSet
  <1> QED BY <1>2, <1>3 DEF NextStep, PrevStep

\* A listing of a store is a sequence of its sandboxes.
LEMMA Listing ==
    ASSUME NEW S, S \subseteq Sandboxes, IsFiniteSet(S), NEW l \in SetToSeqs(S)
    PROVE  l \in Seq(Sandboxes)
  <1>1. Cardinality(S) \in Nat
    BY FS_CardinalityType
  <1>2. l \in [1 .. Cardinality(S) -> Sandboxes]
    BY DEF SetToSeqs
  <1> QED BY <1>1, <1>2

\* move_selection and refresh keep the selection inside the list.
LEMMA SelectionInside ==
    ASSUME NEW i \in Nat, NEW n \in Nat
    PROVE  /\ Clip(i, n) \in Nat /\ (IF n = 0 THEN Clip(i, n) = 0 ELSE Clip(i, n) < n)
           /\ n # 0 => \A d \in {-1, 1} : (i + d) % n \in Nat /\ (i + d) % n < n
  BY DEF Clip

\* So does every arrow for the values a wizard offers.
LEMMA AdjustInside ==
    ASSUME IndexInv, TypeOK, NEW f \in Fields, NEW d \in {-1, 1}, Adjust(f, d)
    PROVE  IndexInv' /\ \A g \in Fields : index'[g] \in 0 .. Offered[g] - 1
  <1>1. index[f] \in Nat /\ index[f] \in 0 .. Offered[f] - 1 /\ Offered[f] \in Nat \ {0}
    BY DEF IndexInv, TypeOK
  <1>2. ClampIndex(index[f], d, Offered[f]) \in 0 .. Offered[f] - 1
    BY <1>1 DEF ClampIndex
  <1>3. index' = [index EXCEPT ![f] = ClampIndex(index[f], d, Offered[f])]
    BY DEF Adjust
  <1> QED BY <1>2, <1>3 DEF IndexInv, TypeOK

-----------------------------------------------------------------------------
(* The other terminal.                                                     *)

OtherTerminal == Give \/ CreateOne \/ DestroyOne

\* A command begins with all it was asked for still to do.
LEMMA GiveStep == ASSUME CommandInv, TypeOK, IsFiniteSet(store), Give PROVE CommandInv'
  <1>1. ASSUME NEW n \in 1 .. MaxCount, Up(n) PROVE CommandInv'
    <2>1. [i \in 1 .. n |-> None] \in Seq(Sandboxes \cup {None}) /\ Len([i \in 1 .. n |-> None]) = n
      OBVIOUS
    <2> QED BY <1>1, <2>1 DEF CommandInv, Commands, Up
  <1>2. ASSUME NEW ids \in Seq(Sandboxes), Down(ids) PROVE CommandInv'
    <2>1. ids \in Seq(Sandboxes \cup {None}) /\ Len(ids) \in Nat
      OBVIOUS
    <2> QED BY <1>2, <2>1 DEF CommandInv, Commands, Down
  <1>3. ASSUME NEW n \in 1 .. MaxCount, NEW ids \in [1 .. n -> Sandboxes] PROVE ids \in Seq(Sandboxes)
    OBVIOUS
  <1>4. \A all \in SetToSeqs(store) : all \in Seq(Sandboxes)
    BY Listing DEF TypeOK
  <1>5. CASE cmd' = [NoCmd EXCEPT !.code = 1, !.asked = 1]
    <2>1. cmd' = [kind |-> None, todo |-> <<>>, code |-> 1, ok |-> 0, asked |-> 1]
      BY <1>5 DEF NoCmd
    <2> QED BY <2>1 DEF CommandInv, Commands
  <1> QED BY <1>1, <1>2, <1>3, <1>4, <1>5 DEF Give

\* Each item of a command is done and counted or sets the exit code.
LEMMA CommandStep == ASSUME IInv, Next PROVE CommandInv'
  <1>1. CASE Give
    BY <1>1, GiveStep DEF IInv
  <1>2. CASE CreateOne \/ DestroyOne
    <2>1. cmd.todo \in Seq(Sandboxes \cup {None}) /\ cmd.todo # <<>>
      BY <1>2 DEF IInv, CommandInv, Commands, CreateOne, DestroyOne, Idle
    <2>2. Tail(cmd.todo) \in Seq(Sandboxes \cup {None}) /\ Len(Tail(cmd.todo)) = Len(cmd.todo) - 1
          /\ Len(cmd.todo) \in Nat
      BY <2>1
    <2>3. CommandInv /\ cmd \in Commands
      BY DEF IInv, CommandInv
    <2>4. CASE Succeeds
      <3>1. cmd' = [kind |-> cmd.kind, todo |-> Tail(cmd.todo), code |-> cmd.code, ok |-> cmd.ok + 1,
                    asked |-> cmd.asked]
        BY <2>3, <2>4 DEF Succeeds, Commands
      <3>2. cmd' \in Commands
        BY <2>2, <2>3, <3>1 DEF Commands
      <3>3. cmd.ok \in Nat /\ cmd.asked \in Nat
        BY <2>3 DEF CommandInv, Commands
      <3>4. cmd'.ok + Len(cmd'.todo) = cmd.ok + Len(cmd.todo)
        <4> DEFINE n == Len(cmd.todo)  done == cmd.ok
        <4>1. cmd'.ok = done + 1 /\ Len(cmd'.todo) = n - 1 BY <2>2, <3>1
        <4>2. n \in Nat /\ done \in Nat BY <2>2, <3>3
        <4> HIDE DEF n, done
        <4>3. (done + 1) + (n - 1) = done + n BY <4>2
        <4> QED BY <4>1, <4>3 DEF n, done
      <3> QED BY <2>3, <3>1, <3>2, <3>4 DEF CommandInv
    <2>5. CASE Fails
      <3>1. cmd' = [kind |-> cmd.kind, todo |-> Tail(cmd.todo), code |-> 1, ok |-> cmd.ok,
                    asked |-> cmd.asked]
        BY <2>3, <2>5 DEF Fails, Commands
      <3>2. cmd' \in Commands
        BY <2>2, <2>3, <3>1 DEF Commands
      <3>3. cmd.ok \in Nat /\ cmd.asked \in Nat /\ cmd.ok + Len(cmd.todo) <= cmd.asked
        BY <2>3 DEF CommandInv, Commands
      <3>4. cmd'.ok + Len(cmd'.todo) < cmd'.asked /\ cmd'.ok \in Nat /\ cmd'.code = 1
        BY <2>2, <3>1, <3>3
      <3>5. Len(cmd'.todo) \in Nat /\ cmd'.asked \in Nat
        BY <2>2, <3>1, <3>3
      <3> QED BY <3>2, <3>4, <3>5 DEF CommandInv
    <2> QED BY <1>2, <2>4, <2>5 DEF CreateOne, DestroyOne
  <1>3. CASE cmd' = cmd
    BY <1>3 DEF IInv, CommandInv
  <1>4. Next => OtherTerminal \/ cmd' = cmd
    BY DEF Next, OtherTerminal, Open, EnterRaw, EnterScreen, DrawAndReturn, DrawAndGoOn, StreamEnds,
      Panic, Unwind, Refresh, Tick, DashboardKey, Destroy, Info, WizardKey, Call
  <1> QED BY <1>1, <1>2, <1>3, <1>4 DEF OtherTerminal

\* Records come and go one at a time.
LEMMA StoreStep == ASSUME IInv, Next PROVE store' \subseteq Sandboxes /\ IsFiniteSet(store')
  <1>1. store \subseteq Sandboxes /\ IsFiniteSet(store)
    BY DEF IInv, TypeOK
  <1>2. ASSUME NEW s \in Sandboxes, store' = store \cup {s}
        PROVE  store' \subseteq Sandboxes /\ IsFiniteSet(store')
    BY <1>1, <1>2, FS_AddElement
  <1>3. ASSUME NEW s, store' = store \ {s} PROVE store' \subseteq Sandboxes /\ IsFiniteSet(store')
    BY <1>1, <1>3, FS_RemoveElement
  <1>4. \/ store' = store \/ (\E s \in Sandboxes : store' = store \cup {s}) \/ (\E s : store' = store \ {s})
    BY DEF Next, Open, EnterRaw, EnterScreen, DrawAndReturn, DrawAndGoOn, StreamEnds, Panic, Unwind,
      Refresh, Tick, DashboardKey, Destroy, Info, WizardKey, Call, Give, CreateOne, DestroyOne
  <1> QED BY <1>1, <1>2, <1>3, <1>4

-----------------------------------------------------------------------------
(* The screen.                                                             *)

\* The steps of the other terminal, which the screen does not notice.
Unseen == UNCHANGED <<hook, app, at, term, dashboard, wizard, frame, broken>>

\* Commands in another terminal change nothing on this screen.
LEMMA OtherTerminalIsUnseen == OtherTerminal => Unseen
  BY DEF OtherTerminal, Give, CreateOne, DestroyOne, Unseen

ScreenStep ==
    \/ \E a \in {"dashboard", "up", "build"} : Open(a)
    \/ EnterRaw \/ EnterScreen \/ DrawAndReturn \/ DrawAndGoOn \/ StreamEnds \/ Panic \/ Unwind
    \/ Refresh \/ Tick \/ DashboardKey \/ Destroy \/ Info \/ WizardKey \/ Call

\* What a new DashboardState and new wizard states hold.
LEMMA FreshIsTyped ==
    ASSUME Fresh
    PROVE  /\ list' \in Seq(Sandboxes) /\ selected' \in Nat
           /\ IF list' = <<>> THEN selected' = 0 ELSE selected' < Len(list')
           /\ confirm' = None \/ detail' = None
           /\ step' \in ToSet(Steps) /\ IndexInv' /\ \A f \in Fields : index'[f] \in 0 .. Offered[f] - 1
  <1>1. step' \in ToSet(Steps)
    BY StepNames DEF Fresh
  <1>2. IndexInv' /\ \A f \in Fields : index'[f] \in 0 .. Offered[f] - 1
    BY DEF Fresh, IndexInv
  <1> QED BY <1>1, <1>2 DEF Fresh

\* The parts of TypeOK about the screen.
Typed ==
    /\ hook \in BOOLEAN /\ at \in Places
    /\ raw \in BOOLEAN /\ alt \in BOOLEAN /\ active \in BOOLEAN
Indexed ==
    /\ list \in Seq(Sandboxes) /\ selected \in Nat
    /\ IF list = <<>> THEN selected = 0 ELSE selected < Len(list)
    /\ confirm = None \/ detail = None
    /\ step \in ToSet(Steps) /\ IndexInv
    /\ \A f \in Fields : index[f] \in 0 .. Offered[f] - 1

\* The screen's variables keep their types,
LEMMA TypedStep == ASSUME Typed, ScreenStep PROVE Typed'
  <1>1. hook' = hook /\ at' \in Places
    BY DEF ScreenStep, Typed, Places, Open, EnterRaw, EnterScreen, DrawAndReturn, DrawAndGoOn,
      StreamEnds, Panic, Unwind, Refresh, Tick, DashboardKey, PromptKey, ListKey, Destroy, Info,
      WizardKey, Call, Leave, Confirmed
  <1>2. raw' \in BOOLEAN /\ alt' \in BOOLEAN /\ active' \in BOOLEAN
    BY DEF ScreenStep, Typed, Open, EnterRaw, EnterScreen, DrawAndReturn, DrawAndGoOn,
      StreamEnds, Panic, Unwind, Refresh, Tick, DashboardKey, Destroy, Info, WizardKey, Call, Leave,
      Confirmed, Restore, term
  <1> QED BY <1>1, <1>2 DEF Typed

\* the selection and the answers stay inside their lists,
LEMMA IndexedStep == ASSUME TypeOK, IsFiniteSet(store), PlaceInv, Indexed, ScreenStep PROVE Indexed'
  <1>1. CASE Fresh
    BY <1>1, FreshIsTyped DEF Indexed
  <1>2. CASE UNCHANGED <<list, selected, confirm, detail, step, index>>
    BY <1>2 DEF Indexed, IndexInv
  <1>3. CASE Refresh
    <2>1. UNCHANGED <<confirm, detail, step, index>>
      BY <1>3 DEF Refresh, wizard
    <2>2. CASE UNCHANGED <<list, selected>>
      BY <1>2, <2>1, <2>2
    <2>3. CASE list' \in SetToSeqs(store) /\ selected' = Clip(selected, Len(list'))
      <3>1. list' \in Seq(Sandboxes) /\ Len(list') \in Nat /\ (Len(list') = 0 <=> list' = <<>>)
        BY <2>3, Listing DEF TypeOK
      <3>2. selected' \in Nat /\ (IF Len(list') = 0 THEN selected' = 0 ELSE selected' < Len(list'))
        BY <2>3, <3>1, SelectionInside DEF Indexed
      <3> QED BY <2>1, <3>1, <3>2 DEF Indexed, IndexInv
    <2> QED BY <1>3, <2>2, <2>3 DEF Refresh
  <1>4. CASE DashboardKey
    <2>1. UNCHANGED <<list, step, index>>
      BY <1>4 DEF DashboardKey, wizard
    <2>2. CASE detail # None
      BY <1>4, <2>1, <2>2 DEF DashboardKey, Indexed, IndexInv
    <2>3. CASE detail = None /\ confirm # None
      BY <1>4, <2>1, <2>3 DEF DashboardKey, PromptKey, Indexed, IndexInv
    <2>4. CASE detail = None /\ confirm = None
      <3>1. ListKey
        BY <1>4, <2>4 DEF DashboardKey
      <3>2. detail' = None
        BY <2>4, <3>1 DEF ListKey
      <3>3. CASE selected' = selected
        BY <2>1, <3>2, <3>3 DEF Indexed, IndexInv
      <3>4. ASSUME NEW delta \in {-1, 1}, selected' = Moved(delta) PROVE Indexed'
        <4>1. list \in Seq(Sandboxes) /\ Len(list) \in Nat /\ (Len(list) = 0 <=> list = <<>>)
          BY DEF Indexed
        <4>2. selected' \in Nat /\ (IF list = <<>> THEN selected' = 0 ELSE selected' < Len(list))
          BY <3>4, <4>1, SelectionInside DEF Moved, Indexed
        <4> QED BY <2>1, <3>2, <4>2 DEF Indexed, IndexInv
      <3> QED BY <3>1, <3>3, <3>4 DEF ListKey
    <2> QED BY <2>2, <2>3, <2>4
  <1>5. CASE Info
    BY <1>5 DEF Info, PlaceInv, Indexed, IndexInv, wizard
  <1>6. CASE WizardKey
    <2>1. UNCHANGED <<list, selected, confirm, detail>>
      BY <1>6 DEF WizardKey, dashboard
    <2>2. CASE index' = index
      <3>1. step' \in ToSet(Steps)
        BY <1>6, StepsAreClosed DEF WizardKey, UpWizardKey, BuildWizardKey, Verdict, Indexed
      <3> QED BY <2>1, <2>2, <3>1 DEF Indexed, IndexInv
    <2>3. ASSUME NEW f \in Fields, NEW d \in {-1, 1}, Adjust(f, d), step' = step PROVE Indexed'
      BY <2>1, <2>3, AdjustInside DEF Indexed
    <2>4. step # "confirm" => step \in Fields
      BY StepNames DEF Indexed, Fields
    <2> QED BY <1>6, <2>2, <2>3, <2>4 DEF WizardKey, UpWizardKey, BuildWizardKey, Verdict, Fields
  <1> QED BY <1>1, <1>2, <1>3, <1>4, <1>5, <1>6 DEF ScreenStep, Open, EnterRaw, EnterScreen,
        DrawAndReturn, DrawAndGoOn, StreamEnds, Panic, Unwind, Tick, Destroy, Call, Leave, dashboard,
        wizard

\* and each program is at a step of its own.
LEMMA PlaceStep == ASSUME PlaceInv, ScreenStep PROVE PlaceInv'
  <1>1. ASSUME NEW a \in {"dashboard", "up", "build"}, Open(a) PROVE PlaceInv'
    BY <1>1 DEF Open, Fresh, PlaceInv
  <1>2. CASE EnterRaw \/ EnterScreen
    BY <1>2 DEF EnterRaw, EnterScreen, dashboard, wizard, PlaceInv
  <1>3. CASE DrawAndReturn \/ StreamEnds \/ Unwind
    BY <1>3 DEF DrawAndReturn, StreamEnds, Unwind, Leave, Fresh, PlaceInv
  <1>4. CASE DrawAndGoOn
    BY <1>4 DEF DrawAndGoOn, Confirmed, dashboard, PlaceInv
  <1>5. CASE Panic \/ Refresh \/ Tick
    BY <1>5 DEF Panic, Refresh, Tick, dashboard, wizard, PlaceInv
  <1>6. CASE DashboardKey
    BY <1>6 DEF DashboardKey, PromptKey, ListKey, wizard, PlaceInv
  <1>7. CASE Destroy \/ Info
    BY <1>7 DEF Destroy, Info, wizard, PlaceInv
  <1>8. CASE WizardKey
    BY <1>8 DEF WizardKey, UpWizardKey, BuildWizardKey, Verdict, dashboard, PlaceInv
  <1>9. CASE Call
    BY <1>9 DEF Call, Fresh, PlaceInv
  <1> QED BY <1>1, <1>2, <1>3, <1>4, <1>5, <1>6, <1>7, <1>8, <1>9 DEF ScreenStep

\* Every way out of the loops goes through a guard's drop or the panic hook.
LEMMA GuardStep ==
    ASSUME Typed, PlaceInv, GuardInv, TerminalRestored, ScreenStep
    PROVE  GuardInv' /\ TerminalRestored'
  <1> USE DEF Inside, GuardInv, TerminalRestored
  <1>1. ASSUME NEW a \in {"dashboard", "up", "build"}, Open(a) PROVE GuardInv' /\ TerminalRestored'
    BY <1>1 DEF Open, PlaceInv
  <1>2. CASE EnterRaw
    <2>1. CASE raw' = TRUE /\ at' = "screen" /\ UNCHANGED <<alt, active, broken>>
      BY <1>2, <2>1 DEF EnterRaw
    <2>2. CASE at' = "shell" /\ UNCHANGED <<raw, alt, broken>>
      BY <1>2, <2>2 DEF EnterRaw
    <2> QED BY <1>2, <2>1, <2>2 DEF EnterRaw
  <1>3. CASE EnterScreen
    BY <1>3 DEF EnterScreen, Typed
  <1>4. CASE DrawAndReturn \/ StreamEnds \/ Unwind
    BY <1>4 DEF DrawAndReturn, StreamEnds, Unwind, Leave, Restore
  <1>5. CASE DrawAndGoOn
    BY <1>5 DEF DrawAndGoOn, Confirmed, Restore, term
  <1>6. CASE Panic
    BY <1>6 DEF Panic
  <1>7. CASE Refresh \/ Tick \/ Destroy \/ Info \/ WizardKey
    BY <1>7 DEF Refresh, Tick, Destroy, Info, WizardKey, term
  <1>8. CASE DashboardKey
    BY <1>8 DEF DashboardKey, PromptKey, ListKey, term
  <1>9. CASE Call
    BY <1>9 DEF Call, term
  <1> QED BY <1>1, <1>2, <1>3, <1>4, <1>5, <1>6, <1>7, <1>8, <1>9 DEF ScreenStep

\* What is waited on is what was drawn.
LEMMA FrameStep == ASSUME PlaceInv, FrameInv, ScreenStep PROVE FrameInv'
  <1>1. CASE at' \notin {"draw", "wait"}
    BY <1>1 DEF FrameInv
  <1>2. CASE DrawAndGoOn /\ at' = "wait"
    <2>1. UNCHANGED <<app, list, selected, confirm, step, index, verdict>> /\ frame' = Shown
      BY <1>2 DEF DrawAndGoOn, dashboard
    <2>2. Selected' = Selected
      BY <2>1 DEF Selected
    <2> QED BY <1>2, <2>1, <2>2 DEF Shown, Answers, FrameInv
  <1>3. CASE at' = "draw" /\ ~WizardKey
    BY <1>3 DEF ScreenStep, Open, EnterRaw, EnterScreen, DrawAndReturn, DrawAndGoOn, StreamEnds, Panic,
      Unwind, Refresh, Tick, DashboardKey, Destroy, Info, Call, Leave, Confirmed, wizard, PlaceInv, FrameInv
  <1>4. CASE WizardKey
    BY <1>4 DEF WizardKey, UpWizardKey, BuildWizardKey, Verdict, PlaceInv, FrameInv
  <1>5. at' = "wait" => DrawAndGoOn
    BY DEF ScreenStep, Open, EnterRaw, EnterScreen, DrawAndReturn, StreamEnds, Panic, Unwind, Refresh,
      Tick, DashboardKey, PromptKey, ListKey, Destroy, Info, WizardKey, Call, Leave
  <1> QED BY <1>1, <1>2, <1>3, <1>4, <1>5

-----------------------------------------------------------------------------
(* Theorems.                                                               *)

AllParts == /\ store \subseteq Sandboxes /\ IsFiniteSet(store) /\ Typed /\ Indexed
            /\ PlaceInv /\ GuardInv /\ TerminalRestored /\ FrameInv /\ CommandInv

\* IInv, regrouped.
LEMMA Parts == (IInv <=> AllParts) /\ (IInv <=> AllParts)'
  BY DEF IInv, TypeOK, Typed, Indexed, AllParts

\* At the shell nothing is shown and nothing is to be restored.
LEMMA InitEstablishes == Init => IInv
  <1> SUFFICES ASSUME Init PROVE IInv
    OBVIOUS
  <1>1. store \subseteq Sandboxes /\ IsFiniteSet(store)
    BY FS_EmptySet DEF Init
  <1>2. Typed /\ PlaceInv /\ GuardInv /\ TerminalRestored /\ FrameInv
    BY DEF Init, Typed, Places, PlaceInv, GuardInv, Inside, TerminalRestored, FrameInv
  <1>3. Indexed
    BY StepNames DEF Init, Indexed, IndexInv
  <1>4. CommandInv
    BY DEF Init, NoCmd, CommandInv, Commands
  <1> QED BY <1>1, <1>2, <1>3, <1>4, Parts DEF AllParts

\* What the other terminal does, and a stutter, the screen does not see.
LEMMA UnseenStep ==
    ASSUME IInv, Unseen
    PROVE  Typed' /\ Indexed' /\ PlaceInv' /\ GuardInv' /\ TerminalRestored' /\ FrameInv'
  <1> USE DEF Unseen, term, dashboard, wizard
  <1>1. Typed' /\ Indexed'
    BY Parts DEF AllParts, Typed, Indexed, IndexInv
  <1>2. PlaceInv' /\ GuardInv' /\ TerminalRestored'
    BY DEF IInv, PlaceInv, GuardInv, TerminalRestored
  <1>3. FrameInv'
    BY DEF IInv, FrameInv, Selected
  <1> QED BY <1>1, <1>2, <1>3

\* Every step keeps IInv.
LEMMA Inductive == ASSUME IInv, [Next]_vars PROVE IInv'
  <1>1. CASE Next
    <2>1. CommandInv' /\ store' \subseteq Sandboxes /\ IsFiniteSet(store')
      BY <1>1, CommandStep, StoreStep
    <2>2. CASE OtherTerminal
      BY <2>1, <2>2, OtherTerminalIsUnseen, UnseenStep, Parts DEF AllParts
    <2>3. CASE ScreenStep
      BY <2>1, <2>3, Parts, TypedStep, IndexedStep, PlaceStep, GuardStep, FrameStep DEF AllParts, IInv
    <2> QED BY <1>1, <2>2, <2>3 DEF Next, ScreenStep, OtherTerminal
  <1>2. CASE UNCHANGED vars
    <2>1. Unseen /\ store' = store /\ cmd' = cmd
      BY <1>2 DEF vars, Unseen
    <2>2. CommandInv' /\ store' \subseteq Sandboxes /\ IsFiniteSet(store')
      BY <2>1 DEF IInv, TypeOK, CommandInv
    <2> QED BY <2>1, <2>2, UnseenStep, Parts DEF AllParts
  <1> QED BY <1>1, <1>2

\* IInv holds throughout every behaviour.
LEMMA Invariance == Spec => []IInv
  BY InitEstablishes, Inductive, PTL DEF Spec

\* Whatever keys are pressed and however the list changes, the state of the
\* dashboard and the wizards is well typed: the selection and every chosen value
\* are inside their lists, and at most one overlay is open.
THEOREM TypeCorrect == Spec => []TypeOK
  <1>1. IInv => TypeOK BY DEF IInv
  <1> QED BY <1>1, Invariance, PTL

\* The shell, a facade call and (with the hook) a panic report find the terminal
\* in its usual state, on every way out of the full-screen programs, unless
\* entering the alternate screen failed.
THEOREM TerminalIsRestored == Spec => []TerminalRestored
  <1>1. IInv => TerminalRestored BY DEF IInv
  <1> QED BY <1>1, Invariance, PTL

\* For any number of ids, and whoever else works on the store, lsbx up and lsbx
\* down exit with 0 exactly if all they were asked to do was done.
THEOREM ExitCodesAreHonest == Spec => []ExitCodeHonest
  <1>1. IInv => ExitCodeHonest
    BY DEF IInv, CommandInv, Commands, ExitCodeHonest, Idle
  <1> QED BY <1>1, Invariance, PTL

\* A step never destroys, asks about or makes anything but what the last frame
\* showed, however often the list was refreshed since.
THEOREM OnlyTheShownIsDone == Spec => OnlyWhatWasShown
  <1> DEFINE Acts ==
        /\ at' = "destroy" /\ at # "destroy" => target' = frame.prompt /\ frame.prompt # None
        /\ confirm' \notin {confirm, None} => confirm' = frame.high
        /\ at' = "call" /\ at # "call" => \A f \in DOMAIN request' : request'[f] = frame.answers[f]
  <1>1. ASSUME IInv, Next PROVE Acts
    <2>1. CASE DashboardKey
      BY <1>1, <2>1 DEF IInv, FrameInv, DashboardKey, PromptKey, ListKey
    <2>2. CASE DrawAndGoOn
      <3>1. confirm' = confirm /\ at' # "destroy"
        BY <2>2 DEF DrawAndGoOn, Confirmed, dashboard
      <3>2. CASE verdict = "confirmed"
        <4>1. frame.answers = index /\ request' = Request
          BY <1>1, <2>2, <3>2 DEF IInv, FrameInv, DrawAndGoOn
        <4> QED BY <3>1, <4>1 DEF Request, Answers
      <3>3. CASE verdict # "confirmed"
        BY <2>2, <3>1, <3>3 DEF DrawAndGoOn
      <3> QED BY <3>2, <3>3
    <2>3. CASE ~DashboardKey /\ ~DrawAndGoOn
      <3>1. confirm' \in {confirm, None} /\ (at' = at \/ at' \notin {"destroy", "call"})
        BY <1>1, <2>3 DEF Next, Open, EnterRaw, EnterScreen, DrawAndReturn, StreamEnds, Panic, Unwind,
          Refresh, Tick, Destroy, Info, WizardKey, Call, Give, CreateOne, DestroyOne, Leave, Fresh,
          dashboard
      <3> QED BY <3>1
    <2> QED BY <2>1, <2>2, <2>3
  <1>2. IInv /\ [Next]_vars => [Acts]_vars
    BY <1>1
  <1> QED BY <1>2, Invariance, PTL DEF Spec, OnlyWhatWasShown
=============================================================================
