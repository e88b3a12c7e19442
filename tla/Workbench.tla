------------------------------ MODULE Workbench -----------------------------
(***************************************************************************)
(* The Web workbench (client/ArenaWorkbench.tsx, ArenaCard.tsx, stores.ts, *)
(* rpc.ts) against the Host's setup and policy (SetupPolicy): one client   *)
(* that selects workspaces and runs, edits and saves a policy, starts and  *)
(* controls runs, while its polls and its answers come back in any order   *)
(* the code does not exclude.                                              *)
(*                                                                         *)
(* Abstractions.  The workbench stays open and its list of workspaces is   *)
(* complete; retry is a start; of the controls there are cancel and the    *)
(* confirmation of a promotion.  A run has a status only; voided stands    *)
(* for a run with an "unavailable" decision, whose response rpc.ts does    *)
(* not accept.  Reads that the Host answers at once come back in order.    *)
(* Bounds: MaxInput inputs by people, MaxFault failing answers, no load of *)
(* a workspace while an earlier one of the same kind is in flight.         *)
(***************************************************************************)
EXTENDS SetupPolicy, Naturals, Sequences

CONSTANTS
  Run,
  Earlier,    \* the runs that may be on record in the beginning
  Found,      \* what the policy file of a workspace may be in the beginning
  Recent,     \* recentWorkspaceId: the workspace that is selected first
  MaxInput, MaxFault

ASSUME WorkbenchAssumption ==
  /\ Earlier \subseteq Run /\ Found \subseteq Content /\ Recent \in Workspace
  /\ None \notin Run \cup Workspace
  /\ MaxInput \in Nat /\ MaxFault \in Nat

VARIABLES
  ws, view, sel,  \* the shared store: workspaceId, view and runId
  launched,  \* the launch form has the setup of ws
  listed,    \* the local history of runs
  lists,     \* answers of list on their way, in the order of the requests
  editor,    \* the policy editor of the setup card
  pending,   \* its buttons that wait for an answer, while it is mounted
  shown,     \* the run that the run card displays
  polls,     \* the answer of a poll of a run on its way, as its status
  act,       \* the control of the run card in flight
  flow,      \* startRun: where it is, and for which workspace and run
  run,       \* the runs of the Host
  admitted,  \* history: what the admission of a run has read
  own,       \* history: the run that startRun selected
  inputs, faults

client == <<ws, view, sel, launched, listed, lists, editor, pending, shown, polls, act, flow, own>>
card == <<shown, polls, act>>
vars == <<hostVars, client, run, admitted, inputs, faults>>

-----------------------------------------------------------------------------
Status == {"active", "completed", "voided", "cancelled", "promoted"}

ASSUME RunAssumption == None \notin [ws : Workspace, status : Status]

(* rpc.ts validRunResponse, of what the Host can send *)
MutantAcceptsAll(s) == s \in Status
Valid(s) == s # "voided"

Known == {r \in Run : run[r] # None}

Of(w) == {r \in listed : run[r].ws = w}

(* The buttons of the setup card: save the policy; save a credential, or try
   again, and read the setup anew *)
Button == {"save", "refresh"}

NoEditor == [of |-> None, text |-> None, current |-> FALSE, strayed |-> FALSE]
NoPolls == [r \in Run |-> None]
NoFlow == [at |-> "idle", ws |-> None, run |-> None]

Input == inputs < MaxInput /\ inputs' = inputs + 1 /\ UNCHANGED faults
Fault == faults < MaxFault /\ faults' = faults + 1 /\ UNCHANGED inputs
Quiet == UNCHANGED <<inputs, faults>>

(* The fallback-selection effect: the store's run id must be in the local
   history of the workspace, or the newest one there is taken *)
Settle(r, among) ==
  IF r \in among THEN sel' = r
  ELSE IF among = {} THEN sel' = None ELSE sel' \in among

(* A card that is not mounted ignores what still comes back *)
Unmounted ==
  /\ shown' = None
  /\ polls' = NoPolls
  /\ act' = IF act = None THEN None ELSE [act EXCEPT !.live = FALSE]

(* The run card stays mounted while there is a selected run to show *)
Remount == IF sel' = None THEN Unmounted ELSE UNCHANGED card

-----------------------------------------------------------------------------
Init ==
  /\ HostInit(Found)
  /\ ws = Recent /\ view = "runs" /\ sel = None /\ launched = FALSE
  /\ calls = [c \in Caller |-> IF c = <<"launch", ws>> THEN [Idle EXCEPT !.at = "prepare"] ELSE Idle]
  /\ listed = {} /\ lists = <<>>
  /\ editor = NoEditor /\ pending = {}
  /\ shown = None /\ polls = NoPolls /\ act = None
  /\ flow = NoFlow /\ own = None
  /\ \E w \in [Run -> Workspace], early \in SUBSET Earlier :
       run = [r \in Run |-> IF r \in early THEN [ws |-> w[r], status |-> "active"] ELSE None]
  /\ admitted = [r \in Run |-> None]
  /\ inputs = 0 /\ faults = 0

-----------------------------------------------------------------------------
(* Navigation *)

(* selectWorkspace clears the run id, so the run card goes; the setup card has
   no key and keeps its text for the next workspace *)
SelectWorkspace(w) ==
  /\ w # ws /\ Input
  /\ Free(<<"launch", w>>)
  /\ view = "setup" => Free(<<"card", w>>)
  /\ ws' = w
  /\ launched' = FALSE
  /\ own' = None
  /\ Settle(None, Of(w))
  /\ Unmounted
  /\ calls' = [c \in Caller |->
                 IF c = <<"launch", w>> \/ (c = <<"card", w>> /\ view = "setup")
                 THEN [Idle EXCEPT !.at = "prepare"] ELSE calls[c]]
  /\ editor' = [editor EXCEPT !.current = FALSE]
  /\ UNCHANGED <<file, head, reports, reported, view, listed, lists, pending, flow, run, admitted>>

(* Another view: one card goes, the other is mounted and loads *)
ShowSetup ==
  /\ view = "runs" /\ Free(<<"card", ws>>) /\ Input
  /\ view' = "setup"
  /\ Unmounted
  /\ calls' = Ask(<<"card", ws>>, "prepare")
  /\ UNCHANGED <<file, head, reports, reported, ws, sel, launched, listed, lists, editor, pending, flow, own, run, admitted>>

ShowRuns ==
  /\ view = "setup" /\ Input
  /\ view' = "runs"
  /\ editor' = NoEditor /\ pending' = {}
  /\ UNCHANGED <<hostVars, ws, sel, launched, listed, lists, card, flow, own, run, admitted>>

SelectRun(r) ==
  /\ view = "runs" /\ r \in Of(ws) \ {sel} /\ Input
  /\ sel' = r
  /\ own' = None
  /\ UNCHANGED <<hostVars, ws, view, launched, listed, lists, editor, pending, card, flow, run, admitted>>

-----------------------------------------------------------------------------
(* Setup *)

Take(c) == calls' = [calls EXCEPT ![c] = Idle]

LaunchAnswered(w) ==
  /\ Over(<<"launch", w>>)
  /\ Take(<<"launch", w>>)
  /\ launched' = (launched \/ w = ws)
  /\ Quiet
  /\ UNCHANGED <<file, head, reports, reported, ws, view, sel, listed, lists, editor, pending, card, flow, own, run, admitted>>

Loaded(w) ==
  [of |-> w, text |-> TextOf(calls[<<"card", w>>].read), current |-> TRUE, strayed |-> FALSE]

(* The effect ignores the answer for an earlier target *)
MutantCardTakesAny(w) ==
  /\ Over(<<"card", w>>)
  /\ Take(<<"card", w>>)
  /\ editor' = IF view = "setup" THEN [Loaded(w) EXCEPT !.current = (editor.current \/ w = ws)] ELSE editor
  /\ Quiet
  /\ UNCHANGED <<file, head, reports, reported, ws, view, sel, launched, listed, lists, pending, card, flow, own, run, admitted>>
CardAnswered(w) ==
  /\ Over(<<"card", w>>)
  /\ Take(<<"card", w>>)
  /\ editor' = IF view = "setup" /\ w = ws THEN Loaded(w) ELSE editor
  /\ Quiet
  /\ UNCHANGED <<file, head, reports, reported, ws, view, sel, launched, listed, lists, pending, card, flow, own, run, admitted>>

CardFails(w) ==
  /\ Over(<<"card", w>>) /\ Fault
  /\ Take(<<"card", w>>)
  /\ UNCHANGED <<file, head, reports, reported, ws, view, sel, launched, listed, lists, editor, pending, card, flow, own, run, admitted>>

Type ==
  /\ view = "setup" /\ editor.of # None /\ Input
  /\ \E x \in (Doc \cup {Broken}) \ {editor.text} : editor' = [editor EXCEPT !.text = x]
  /\ UNCHANGED <<hostVars, ws, view, sel, launched, listed, lists, pending, card, flow, own, run, admitted>>

(* savePolicy sends the text on display for the workspace that is selected *)
Save ==
  /\ view = "setup" /\ editor.of # None /\ Input
  /\ \A w \in Workspace : Free(<<"save", w>>)   \* setupBusy, and a bound on several cards
  /\ calls' = [calls EXCEPT ![<<"save", ws>>] =
                 [Idle EXCEPT !.at = IF reports[ws] = None THEN "prepare" ELSE "compare",
                              !.text = editor.text]]
  /\ pending' = pending \cup {"save"}
  /\ UNCHANGED <<file, head, reports, reported, ws, view, sel, launched, listed, lists, editor, card, flow, own, run, admitted>>

(* refreshSetup, after a credential was saved or a first read that failed *)
Refresh ==
  /\ view = "setup" /\ Input
  /\ editor.of # None \/ Free(<<"card", ws>>)
  /\ \A w \in Workspace : Free(<<"refresh", w>>)   \* credentialBusy, and a bound on retries
  /\ calls' = Ask(<<"refresh", ws>>, "prepare")
  /\ pending' = pending \cup {"refresh"}
  /\ UNCHANGED <<file, head, reports, reported, ws, view, sel, launched, listed, lists, editor, card, flow, own, run, admitted>>

(* Both take the answer whatever is selected by now *)
ButtonAnswered(b, w) ==
  /\ Over(<<b, w>>)
  /\ Take(<<b, w>>)
  /\ editor' = IF b \in pending /\ Answered(<<b, w>>)
               THEN [editor EXCEPT !.of = w, !.text = TextOf(calls[<<b, w>>].read), !.strayed = (w # ws)]
               ELSE editor
  /\ pending' = pending \ {b}
  /\ Quiet
  /\ UNCHANGED <<file, head, reports, reported, ws, view, sel, launched, listed, lists, card, flow, own, run, admitted>>

-----------------------------------------------------------------------------
(* startRun: fresh setup, start, the list, and only then the selection *)

StartRun ==
  /\ view = "runs" /\ launched /\ flow = NoFlow /\ Input
  /\ flow' = [NoFlow EXCEPT !.at = "setup", !.ws = ws]
  /\ calls' = Ask(<<"begin", ws>>, "prepare")
  /\ UNCHANGED <<file, head, reports, reported, ws, view, sel, launched, listed, lists, editor, pending, card, own, run, admitted>>

FlowCall == <<"begin", flow.ws>>

SetupReady ==
  /\ flow.at = "setup" /\ Answered(FlowCall) /\ calls[FlowCall].ready
  /\ flow' = [flow EXCEPT !.at = "start"]
  /\ calls' = Ask(FlowCall, "check")
  /\ Quiet
  /\ UNCHANGED <<file, head, reports, reported, ws, view, sel, launched, listed, lists, editor, pending, card, own, run, admitted>>

(* A blocker opens the setup of the workspace that is selected by now *)
SetupBlocked ==
  /\ flow.at = "setup" /\ Answered(FlowCall) /\ ~calls[FlowCall].ready
  /\ view = "runs" => Free(<<"card", ws>>)
  /\ flow' = NoFlow
  /\ view' = "setup"
  /\ Unmounted
  /\ calls' = [c \in Caller |->
                 IF c = FlowCall THEN Idle
                 ELSE IF c = <<"card", ws>> /\ view = "runs" THEN [Idle EXCEPT !.at = "prepare"]
                 ELSE calls[c]]
  /\ Quiet
  /\ UNCHANGED <<file, head, reports, reported, ws, sel, launched, listed, lists, editor, pending, own, run, admitted>>

(* The Host admits the run under the policy it has just read *)
Admit(r) ==
  /\ flow.at = "start" /\ run[r] = None
  /\ Resolve(FlowCall)
  /\ IF Resolves(file[flow.ws])
     THEN /\ run' = [run EXCEPT ![r] = [ws |-> flow.ws, status |-> "active"]]
          /\ admitted' = [admitted EXCEPT ![r] = [policy |-> file[flow.ws], base |-> calls[FlowCall].read,
                                                  raced |-> calls[FlowCall].raced]]
          /\ flow' = [flow EXCEPT !.run = r]
     ELSE UNCHANGED <<run, admitted, flow>>
  /\ Quiet
  /\ UNCHANGED <<ws, view, sel, launched, listed, lists, editor, pending, card, own>>

ByFlow == [for |-> "flow", runs |-> Known]
ByTimer == [for |-> "timer", runs |-> Known]

MutantSelectsFirst ==
  /\ flow.at = "start" /\ Answered(FlowCall)
  /\ view' = "runs" /\ editor' = NoEditor /\ pending' = {}
  /\ Settle(flow.run, Of(ws))
  /\ Remount
  /\ own' = IF flow.ws = ws THEN flow.run ELSE None
  /\ flow' = NoFlow
  /\ calls' = [calls EXCEPT ![FlowCall] = Idle]
  /\ Quiet
  /\ UNCHANGED <<file, head, reports, reported, ws, launched, listed, lists, run, admitted>>
Started ==
  /\ flow.at = "start" /\ Answered(FlowCall)
  /\ view' = "runs" /\ editor' = NoEditor /\ pending' = {}
  /\ flow' = [flow EXCEPT !.at = "list"]
  /\ calls' = [calls EXCEPT ![FlowCall] = Idle]
  /\ lists' = Append(lists, ByFlow)
  /\ Quiet
  /\ UNCHANGED <<file, head, reports, reported, ws, sel, launched, listed, card, own, run, admitted>>

StartFails ==
  /\ flow.at \in {"setup", "start"} /\ calls[FlowCall].at = "failed"
  /\ flow' = NoFlow
  /\ calls' = [calls EXCEPT ![FlowCall] = Idle]
  /\ Quiet
  /\ UNCHANGED <<file, head, reports, reported, ws, view, sel, launched, listed, lists, editor, pending, card, own, run, admitted>>

-----------------------------------------------------------------------------
(* The list of runs: a timer, and startRun.  An answer of the timer that would
   bring nothing new is left out. *)

ListPoll ==
  /\ listed # Known
  /\ \A i \in DOMAIN lists : lists[i].for # "timer"
  /\ lists' = Append(lists, ByTimer)
  /\ Quiet
  /\ UNCHANGED <<hostVars, ws, view, sel, launched, listed, editor, pending, card, flow, own, run, admitted>>

OfWorkspace(runs) == {r \in runs : run[r].ws = ws}

(* What is selected once the answer is in: startRun goes on to its selection *)
Selects(runs) ==
  IF Head(lists).for = "flow" THEN Settle(flow.run, OfWorkspace(runs)) ELSE Settle(sel, OfWorkspace(runs))

ListDone(runs) ==
  /\ lists' = Tail(lists)
  /\ listed' = runs
  /\ Selects(runs)
  /\ Remount
  /\ flow' = IF Head(lists).for = "flow" THEN NoFlow ELSE flow
  /\ UNCHANGED <<hostVars, ws, view, launched, editor, pending, run, admitted>>

ListAnswered ==
  /\ lists # <<>>
  /\ ListDone(Head(lists).runs)
  /\ own' = IF Head(lists).for = "flow" THEN IF flow.ws = ws THEN flow.run ELSE None ELSE own
  /\ Quiet

(* refreshRuns swallows the error: startRun selects a run that is not listed *)
ListFails ==
  /\ lists # <<>> /\ Fault
  /\ ListDone(listed)
  /\ own' = IF Head(lists).for = "flow" THEN None ELSE own

-----------------------------------------------------------------------------
(* The run card *)

MutantPollsWhileActive(r) ==
  /\ view = "runs" /\ sel = r /\ polls[r] = None
  /\ shown # None => shown.status = "active"
  /\ polls' = [polls EXCEPT ![r] = run[r].status]
  /\ Quiet
  /\ UNCHANGED <<hostVars, ws, view, sel, launched, listed, lists, editor, pending, shown, act, flow, own, run, admitted>>
PollRead(r) ==
  /\ view = "runs" /\ sel = r /\ polls[r] = None
  /\ polls' = [polls EXCEPT ![r] = run[r].status]
  /\ Quiet
  /\ UNCHANGED <<hostVars, ws, view, sel, launched, listed, lists, editor, pending, shown, act, flow, own, run, admitted>>

(* refresh shows what comes back, also for a run that was selected before.  An
   answer that is not valid is an error: what is shown stays. *)
PollAnswered(r) ==
  /\ polls[r] # None
  /\ polls' = [polls EXCEPT ![r] = None]
  /\ shown' = IF Valid(polls[r]) THEN [run |-> r, status |-> polls[r]] ELSE shown
  /\ Quiet
  /\ UNCHANGED <<hostVars, ws, view, sel, launched, listed, lists, editor, pending, act, flow, own, run, admitted>>

PollFails(r) ==
  /\ polls[r] # None /\ Fault
  /\ polls' = [polls EXCEPT ![r] = None]
  /\ UNCHANGED <<hostVars, ws, view, sel, launched, listed, lists, editor, pending, shown, act, flow, own, run, admitted>>

(* Controls act on the run that is shown, which need not be the selected one *)
Act ==
  /\ view = "runs" /\ shown # None /\ act = None /\ Input
  /\ shown.status \in {"active", "completed"}
  /\ act' = [run |-> shown.run, to |-> IF shown.status = "active" THEN "cancelled" ELSE "promoted",
             reply |-> None, live |-> TRUE]
  /\ UNCHANGED <<hostVars, ws, view, sel, launched, listed, lists, editor, pending, shown, polls, flow, own, run, admitted>>

(* cancel refuses a run that is over, and a promotion may be refused at any of
   its checks: an error, which leaves what is shown as it is *)
ActRuns ==
  /\ act # None /\ act.reply = None
  /\ LET s == run[act.run].status IN
     \/ /\ s = IF act.to = "cancelled" THEN "active" ELSE "completed"
        /\ run' = [run EXCEPT ![act.run].status = act.to]
        /\ act' = [act EXCEPT !.reply = act.to]
     \/ /\ act.to = "cancelled" => s # "active"
        /\ act' = [act EXCEPT !.reply = "voided"]
        /\ UNCHANGED run
  /\ Quiet
  /\ UNCHANGED <<hostVars, ws, view, sel, launched, listed, lists, editor, pending, shown, polls, flow, own, admitted>>

ActAnswered ==
  /\ act # None /\ act.reply # None
  /\ shown' = IF act.live /\ Valid(act.reply) THEN [run |-> act.run, status |-> act.reply] ELSE shown
  /\ act' = None
  /\ Quiet
  /\ UNCHANGED <<hostVars, ws, view, sel, launched, listed, lists, editor, pending, polls, flow, own, run, admitted>>

-----------------------------------------------------------------------------
(* The Host *)

RunEnds(r) ==
  /\ run[r] # None /\ run[r].status = "active"
  /\ \E s \in {"completed", "voided"} : run' = [run EXCEPT ![r].status = s]
  /\ Quiet
  /\ UNCHANGED <<hostVars, client, admitted>>

HostStep(c) ==
  /\ SetupStep(c)
  /\ Quiet
  /\ UNCHANGED <<client, run, admitted>>

People(w) ==
  /\ Edit(w) \/ Commit(w)
  /\ Input
  /\ UNCHANGED <<client, run, admitted>>

-----------------------------------------------------------------------------
Answers ==
  \/ \E w \in Workspace : LaunchAnswered(w) \/ CardAnswered(w)
  \/ \E w \in Workspace, b \in Button : ButtonAnswered(b, w)
  \/ SetupReady \/ SetupBlocked \/ Started \/ StartFails
  \/ ListAnswered
  \/ \E r \in Run : PollAnswered(r)
  \/ ActAnswered

User ==
  \/ \E w \in Workspace : SelectWorkspace(w)
  \/ ShowSetup \/ ShowRuns
  \/ \E r \in Run : SelectRun(r)
  \/ Type \/ Save \/ Refresh \/ StartRun \/ Act

Host ==
  \/ \E c \in Caller : HostStep(c)
  \/ \E r \in Run : Admit(r) \/ RunEnds(r)
  \/ ActRuns

Next ==
  \/ User \/ Answers \/ Host
  \/ ListPoll \/ ListFails
  \/ \E r \in Run : PollRead(r) \/ PollFails(r)
  \/ \E w \in Workspace : People(w) \/ CardFails(w)

Spec == Init /\ [][Next]_vars

(* The timer of the run card fires and its reads are answered; nothing else has
   to happen *)
Fairness == \A r \in Run : WF_vars(PollRead(r)) /\ WF_vars(PollAnswered(r))

FairSpec == Spec /\ Fairness

-----------------------------------------------------------------------------
(* Types of the workbench and of the Host's reports and calls (stores.ts,
   ArenaCard.tsx, service.ts prepareSetup). *)
TypeOK ==
  /\ file \in [Workspace -> Content] /\ head \in [Workspace -> Content]
  /\ reports \in [Workspace -> Content \cup {None}]
  /\ reported \in [Workspace -> SUBSET Content]
  /\ calls \in [Caller -> [at : {"idle", "prepare", "publish", "compare", "write", "reload",
                                "check", "status", "discover", "resolve", "answered", "failed"},
                          text : Content \cup {None}, read : Content \cup {None},
                          ready : BOOLEAN, raced : Windows \cup {None}]]
  /\ ws \in Workspace /\ view \in {"runs", "setup"} /\ sel \in Run \cup {None}
  /\ launched \in BOOLEAN /\ pending \subseteq Button
  /\ listed \subseteq Known
  /\ lists \in Seq([for : {"timer", "flow"}, runs : SUBSET Known]) /\ Len(lists) <= 2
  /\ editor \in [of : Workspace \cup {None}, text : Content \cup {None},
                 current : BOOLEAN, strayed : BOOLEAN]
  /\ shown \in [run : Known, status : Status \ {"voided"}] \cup {None}
  /\ polls \in [Run -> Status \cup {None}]
  /\ act \in [run : Known, to : Status, reply : Status \cup {None}, live : BOOLEAN] \cup {None}
  /\ flow \in [at : {"idle", "setup", "start", "list"}, ws : Workspace \cup {None}, run : Run \cup {None}]
  /\ run \in [Run -> [ws : Workspace, status : Status] \cup {None}]
  /\ admitted \in [Run -> [policy : Content, base : Content, raced : Windows \cup {None}] \cup {None}]
  /\ own \in Run \cup {None}

(* A wizard's save replaces a file only in a revision that a setup report of
   the workspace has read, unless somebody wrote it between the comparison and
   the write; a file that does not parse is never replaced (policy.ts
   writeArenaPolicy "without overwriting an unseen revision"). *)
OverwritesOnlyReported ==
  [][\A w \in Workspace :
       LET c == <<"save", w>> IN
       Write(c) => \/ calls[c].raced # None
                   \/ file[w] = Absent
                   \/ file[w] \in reported[w] \cap Doc]_vars

(* A run is admitted under the policy of its base commit, and nothing in that
   policy blocks, unless somebody wrote the file after git status had found the
   checkout clean, be it before or after HEAD was read; rules whose gates are
   not configured get in only if somebody wrote it after the preflight
   (service.ts start, which reads the policy twice; git.ts inspect). *)
AdmittedUnderBase ==
  \A r \in Run :
    admitted[r] # None =>
      \/ admitted[r].raced \in {"discover", "resolve"}
      \/ /\ admitted[r].policy = admitted[r].base
         /\ admitted[r].raced = None => RulesMet(admitted[r].policy)

(* Once the card has the setup of the selected workspace, the text a save would
   send is of that workspace, until an answer comes in that a button asked for
   another one (ArenaCard.tsx setup effect, savePolicy, refreshSetup). *)
EditorIsOfTarget ==
  editor.current /\ ~editor.strayed => editor.of = ws

(* The run that startRun selected stays selected until the user selects
   something else: no older local history reverts it (the comment at
   ArenaWorkbench.tsx:171). *)
StartedStaysSelected == own # None => sel = own

(* A run that stays selected and whose responses are accepted is shown as the
   Host has it in the end, whatever answers of other runs and of controls come
   in late and whichever polls fail (ArenaCard.tsx poll effect). *)
ShownSettles ==
  \A r \in Run :
    <>[](view = "runs" /\ sel = r /\ run[r] # None /\ Valid(run[r].status))
    => <>[](shown # None /\ shown.run = r /\ shown.status = run[r].status)
=============================================================================
