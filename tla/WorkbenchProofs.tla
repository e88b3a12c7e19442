--------------------------- MODULE WorkbenchProofs --------------------------
(***************************************************************************)
(* What the Host keeps of its promises about the policy file, and what the *)
(* client keeps selected and in its editor, for any number of workspaces,  *)
(* runs and documents.  Every step of the workbench is, for the Host, one  *)
(* of its own, one by people in the checkout, or it begins and takes calls *)
(* (LEMMA StepOfHost); the invariants of the Host are proved of those.     *)
(***************************************************************************)
EXTENDS Workbench, SequenceTheorems, TLAPS

Call ==
  [at : {"idle", "prepare", "publish", "compare", "write", "reload",
         "check", "status", "discover", "resolve", "answered", "failed"},
   text : Content \cup {None}, read : Content \cup {None},
   ready : BOOLEAN, raced : Windows \cup {None}]

HostType ==
  /\ file \in [Workspace -> Content] /\ head \in [Workspace -> Content]
  /\ reports \in [Workspace -> Content \cup {None}]
  /\ reported \in [Workspace -> SUBSET Content]
  /\ calls \in [Caller -> Call]

(* A call that has not looked at anything yet *)
Fresh(k) == k \in Call /\ k.raced = None /\ k.at \notin Windows \cup {"publish"}

Calling ==
  /\ UNCHANGED <<file, head, reports, reported>>
  /\ calls' \in [Caller -> Call]
  /\ \A c \in Caller : calls'[c] = calls[c] \/ Fresh(calls'[c])

HostMoves ==
  \/ \E c \in Caller : SetupStep(c)
  \/ \E c \in Caller : Resolve(c)
  \/ \E w \in Workspace : Edit(w) \/ Commit(w)
  \/ Calling

(* What a call has read, and what it knows in a window while it has not raced *)
Informed(c) ==
  /\ calls[c].at \in {"publish", "resolve"} => calls[c].read \in Content
  /\ calls[c].at = "write" => calls[c].text \in Doc
  /\ calls[c].at = "write" /\ calls[c].raced = None
     => file[c[2]] = Absent \/ file[c[2]] \in reported[c[2]] \cap Doc
  /\ calls[c].at \in {"status", "discover", "resolve"} /\ calls[c].raced = None => RulesMet(file[c[2]])
  /\ calls[c].at = "discover" /\ calls[c].raced # "discover" => Clean(c[2])
  /\ calls[c].at = "resolve" /\ calls[c].raced \notin {"discover", "resolve"} => calls[c].read = file[c[2]]

Reporting == \A w \in Workspace : reports[w] # None => reports[w] \in reported[w]

HostInv ==
  /\ HostType
  /\ Reporting
  /\ \A c \in Caller : Informed(c)

-----------------------------------------------------------------------------
LEMMA CallerOf == \A c \in Caller : c[2] \in Workspace
  BY DEF Caller

LEMMA IdleIsFresh ==
  /\ Fresh(Idle)
  /\ \A s \in {"prepare", "compare", "check"} : Fresh([Idle EXCEPT !.at = s])
  /\ \A s \in {"prepare", "compare"}, x \in Content \cup {None} :
       Fresh([Idle EXCEPT !.at = s, !.text = x])
  BY DocAssumption DEF Fresh, Call, Idle, Windows, Content

(* One call is begun or taken *)
LEMMA OneCall ==
  ASSUME HostType, NEW c \in Caller, NEW k, Fresh(k), calls' = [calls EXCEPT ![c] = k],
         UNCHANGED <<file, head, reports, reported>>
  PROVE  Calling
  BY DEF HostType, Calling, Fresh

LEMMA NoCall ==
  ASSUME HostType, UNCHANGED hostVars
  PROVE  Calling
  BY DEF HostType, Calling, hostVars

LEMMA HostStart == Init => HostInv
<1> SUFFICES ASSUME Init PROVE HostInv
  OBVIOUS
<1>1. \A c \in Caller : Fresh(calls[c])
  BY IdleIsFresh DEF Init
<1>2. file \in [Workspace -> Content]
  BY WorkbenchAssumption DEF Init, HostInit
<1>3. HostType
  <2>1. calls \in [Caller -> Call]
    BY <1>1 DEF Init, Fresh
  <2> QED
    BY <1>2, <2>1 DEF HostType, Init, HostInit
<1>4. Reporting
  BY DEF Reporting, Init, HostInit
<1>5. \A c \in Caller : Informed(c)
  BY <1>1 DEF Fresh, Informed, Windows
<1> QED
  BY <1>3, <1>4, <1>5 DEF HostInv

-----------------------------------------------------------------------------
(* The Host's own steps, and those of people in the checkout *)

LEMMA RacingCall ==
  ASSUME HostType, NEW w \in Workspace
  PROVE  /\ Racing(w) \in [Caller -> Call]
         /\ \A c \in Caller :
              /\ Racing(w)[c].at = calls[c].at
              /\ Racing(w)[c].read = calls[c].read /\ Racing(w)[c].text = calls[c].text
              /\ c[2] = w /\ calls[c].at \in Windows => Racing(w)[c].raced = calls[c].at
              /\ c[2] # w \/ calls[c].at \notin Windows => Racing(w)[c] = calls[c]
<1>1. \A c \in Caller : calls[c] \in Call
  BY DEF HostType
<1>2. \A c \in Caller : calls[c].at \in Windows =>
        [calls[c] EXCEPT !.raced = calls[c].at] \in Call
  BY <1>1 DEF Call
<1> QED
  BY <1>1, <1>2 DEF Racing, Call

(* The file of w changes under every call of w *)
LEMMA Raced ==
  ASSUME HostInv, NEW w \in Workspace, NEW x \in Content,
         file' = [file EXCEPT ![w] = x], UNCHANGED <<head, reports, reported>>,
         NEW c \in Caller, calls'[c] = Racing(w)[c]
  PROVE  Informed(c)'
<1> USE DEF HostInv
<1>1. CASE c[2] = w
  BY <1>1, RacingCall, NoneAssumption DEF Informed, Windows
<1>2. CASE c[2] # w
  <2>1. file'[c[2]] = file[c[2]] /\ calls'[c] = calls[c]
    BY <1>2, RacingCall, CallerOf DEF HostType
  <2> QED
    BY <2>1 DEF Informed, RulesMet, Clean
<1> QED
  BY <1>1, <1>2

(* One call goes on and the file stays *)
LEMMA GoesOn ==
  ASSUME HostInv, NEW c \in Caller, NEW k \in Call, calls' = [calls EXCEPT ![c] = k],
         UNCHANGED <<file, head>>, HostType', Reporting',
         \A w \in Workspace : reported[w] \subseteq reported'[w],
         Informed(c)'
  PROVE  HostInv'
<1>1. \A d \in Caller : d # c => Informed(d)'
  <2> SUFFICES ASSUME NEW d \in Caller, d # c PROVE Informed(d)'
    OBVIOUS
  <2>1. calls'[d] = calls[d] /\ Informed(d) /\ d[2] \in Workspace
    BY CallerOf DEF HostInv, HostType
  <2> QED
    BY <2>1 DEF Informed, RulesMet, Clean
<1> QED
  BY <1>1 DEF HostInv

LEMMA SetupStepKeeps ==
  ASSUME HostInv, NEW c \in Caller, SetupStep(c)
  PROVE  HostInv'
<1>0. c[2] \in Workspace /\ calls[c] \in Call /\ file[c[2]] \in Content /\ Informed(c)
  BY CallerOf DEF HostInv, HostType
<1>1. CASE Prepare(c)
  <2> DEFINE k == [calls[c] EXCEPT !.at = "publish", !.read = file[c[2]]]
  <2>1. k \in Call /\ k.at = "publish"
    BY <1>0 DEF Call
  <2>2. calls' = [calls EXCEPT ![c] = k]
    BY <1>1 DEF Prepare
  <2>3. HostType' /\ Reporting' /\ Informed(c)'
    BY <1>0, <1>1, <2>1, <2>2 DEF Prepare, HostInv, HostType, Reporting, Informed
  <2> QED
    BY <1>1, <2>1, <2>2, <2>3, GoesOn DEF Prepare
<1>2. CASE Publish(c)
  <2> DEFINE k == [calls[c] EXCEPT !.at = IF calls[c].text = None THEN "answered" ELSE "compare",
                                   !.ready = Ready(c[2])]
  <2>1. Ready(c[2]) \in BOOLEAN
    BY DEF Ready, Clean, Resolves, RulesMet
  <2>2. k \in Call /\ k.at \in {"answered", "compare"}
    BY <1>0, <2>1 DEF Call
  <2>3. calls' = [calls EXCEPT ![c] = k]
    BY <1>2 DEF Publish
  <2>4. calls[c].read \in Content
    BY <1>0, <1>2 DEF Publish, Informed
  <2>5. HostType'
    BY <1>2, <2>2, <2>3, <2>4 DEF Publish, HostInv, HostType
  <2>6. Reporting'
    BY <1>0, <1>2 DEF Publish, HostInv, HostType, Reporting
  <2>7. Informed(c)'
    BY <2>2, <2>3, <1>0 DEF Informed, HostInv, HostType
  <2>8. \A w \in Workspace : reported[w] \subseteq reported'[w]
    BY <1>2 DEF Publish, HostInv, HostType
  <2> QED
    BY <1>2, <2>2, <2>3, <2>5, <2>6, <2>7, <2>8, GoesOn DEF Publish
<1>3. CASE Compare(c)
  <2>1. PICK s \in {"write", "failed"} :
          /\ calls' = [calls EXCEPT ![c].at = s]
          /\ s = "write" => calls[c].text \in Doc /\ AsReported(c[2])
    BY <1>3 DEF Compare, At
  <2> DEFINE k == [calls[c] EXCEPT !.at = s]
  <2>2. k \in Call /\ k.at = s /\ k.text = calls[c].text
    BY <1>0 DEF Call
  <2>3. calls' = [calls EXCEPT ![c] = k]
    BY <2>1
  <2>4. HostType' /\ Reporting'
    BY <1>3, <2>2, <2>3 DEF Compare, HostInv, HostType, Reporting
  <2>5. s = "write" => file[c[2]] = Absent \/ file[c[2]] \in reported[c[2]] \cap Doc
    BY <1>0, <2>1, DocAssumption DEF AsReported, HostInv, Reporting
  <2>6. Informed(c)'
    BY <1>3, <2>1, <2>2, <2>3, <2>5 DEF Compare, Informed, HostInv, HostType
  <2> QED
    BY <1>3, <2>2, <2>3, <2>4, <2>6, GoesOn DEF Compare
<1>4. CASE Write(c)
  <2> DEFINE x == calls[c].text
  <2> DEFINE k == [calls[c] EXCEPT !.at = "reload", !.text = None]
  <2>1. x \in Content
    BY <1>0, <1>4 DEF Write, Informed, Content
  <2>2. k \in Call /\ k.at = "reload"
    BY <1>0 DEF Call
  <2>3. Racing(c[2]) \in [Caller -> Call]
    BY <1>0, RacingCall DEF HostInv
  <2>4. calls' = [Racing(c[2]) EXCEPT ![c] = k]
    BY <1>4 DEF Write
  <2>5. HostType' /\ Reporting'
    BY <1>0, <1>4, <2>1, <2>2, <2>3, <2>4 DEF Write, HostInv, HostType, Reporting
  <2>6. ASSUME NEW d \in Caller PROVE Informed(d)'
    <3>1. CASE d = c
      BY <2>2, <2>3, <2>4, <3>1 DEF Informed
    <3>2. CASE d # c
      <4>1. calls'[d] = Racing(c[2])[d]
        BY <2>3, <2>4, <3>2
      <4> QED
        BY <1>0, <1>4, <2>1, <4>1, Raced DEF Write
    <3> QED
      BY <3>1, <3>2
  <2> QED
    BY <2>5, <2>6 DEF HostInv
<1>5. ASSUME Reload(c) \/ Check(c)
      PROVE  HostInv'
  <2>1. PICK s \in {"prepare", "failed", "status"} :
          /\ calls' = [calls EXCEPT ![c].at = s]
          /\ s = "status" => Ready(c[2])
    BY <1>5 DEF Reload, Check, At
  <2> DEFINE k == [calls[c] EXCEPT !.at = s]
  <2>2. k \in Call /\ k.at = s
    BY <1>0 DEF Call
  <2>3. calls' = [calls EXCEPT ![c] = k] /\ UNCHANGED <<file, head, reports, reported>>
    BY <1>5, <2>1 DEF Reload, Check
  <2>4. HostType' /\ Reporting'
    BY <2>2, <2>3 DEF HostInv, HostType, Reporting
  <2>5. Informed(c)'
    BY <2>1, <2>2, <2>3 DEF Informed, HostInv, HostType, Ready, RulesMet
  <2> QED
    BY <2>2, <2>3, <2>4, <2>5, GoesOn
<1>6. CASE InspectStatus(c)
  <2>1. PICK s \in {"discover", "failed"} :
          /\ calls' = [calls EXCEPT ![c].at = s]
          /\ s = "discover" => Clean(c[2])
    BY <1>6 DEF InspectStatus, At
  <2> DEFINE k == [calls[c] EXCEPT !.at = s]
  <2>2. k \in Call /\ k.at = s /\ k.raced = calls[c].raced
    BY <1>0 DEF Call
  <2>3. calls' = [calls EXCEPT ![c] = k] /\ UNCHANGED <<file, head, reports, reported>>
    BY <1>6, <2>1 DEF InspectStatus
  <2>4. HostType' /\ Reporting'
    BY <2>2, <2>3 DEF HostInv, HostType, Reporting
  <2>5. calls'[c] = k /\ (Clean(c[2]) => Clean(c[2])')
    BY <2>3 DEF HostInv, HostType, Clean
  <2>6. Informed(c)'
    BY <1>0, <1>6, <2>1, <2>2, <2>3, <2>5 DEF Informed, InspectStatus, RulesMet
  <2> QED
    BY <2>2, <2>3, <2>4, <2>6, GoesOn
<1>7. CASE Discover(c)
  <2> DEFINE k == [calls[c] EXCEPT !.at = "resolve", !.read = head[c[2]]]
  <2>1. head[c[2]] \in Content
    BY <1>0 DEF HostInv, HostType
  <2>2. k \in Call /\ k.at = "resolve" /\ k.read = head[c[2]] /\ k.raced = calls[c].raced
    BY <1>0, <2>1 DEF Call
  <2>3. calls' = [calls EXCEPT ![c] = k] /\ UNCHANGED <<file, head, reports, reported>>
    BY <1>7 DEF Discover
  <2>4. HostType' /\ Reporting'
    BY <2>2, <2>3 DEF HostInv, HostType, Reporting
  <2>5. calls'[c] = k
    BY <2>3 DEF HostInv, HostType
  <2>6. Informed(c)'
    BY <1>0, <1>7, <2>1, <2>2, <2>3, <2>5 DEF Informed, Discover, Clean, RulesMet
  <2> QED
    BY <2>2, <2>3, <2>4, <2>6, GoesOn
<1> QED
  BY <1>1, <1>2, <1>3, <1>4, <1>5, <1>6, <1>7 DEF SetupStep

LEMMA ResolveKeeps ==
  ASSUME HostInv, NEW c \in Caller, Resolve(c)
  PROVE  HostInv'
<1>1. PICK s \in {"answered", "failed"} : calls' = [calls EXCEPT ![c].at = s]
  BY DEF Resolve, At
<1> DEFINE k == [calls[c] EXCEPT !.at = s]
<1>2. k \in Call /\ k.at = s
  BY DEF HostInv, HostType, Call
<1>3. calls' = [calls EXCEPT ![c] = k] /\ UNCHANGED <<file, head, reports, reported>>
  BY <1>1 DEF Resolve
<1>4. HostType' /\ Reporting' /\ Informed(c)'
  BY <1>2, <1>3 DEF HostInv, HostType, Reporting, Informed
<1> QED
  BY <1>2, <1>3, <1>4, GoesOn

LEMMA PeopleKeep ==
  ASSUME HostInv, NEW w \in Workspace, Edit(w) \/ Commit(w)
  PROVE  HostInv'
<1>1. CASE Edit(w)
  <2>1. PICK x \in Content : file' = [file EXCEPT ![w] = x]
    BY <1>1 DEF Edit
  <2>2. HostType' /\ Reporting'
    BY <1>1, <2>1, RacingCall DEF Edit, HostInv, HostType, Reporting
  <2>3. \A c \in Caller : Informed(c)'
    BY <1>1, <2>1, Raced DEF Edit
  <2> QED
    BY <2>2, <2>3 DEF HostInv
<1>2. CASE Commit(w)
  <2>1. HostType' /\ Reporting'
    BY <1>2 DEF Commit, HostInv, HostType, Reporting
  <2>2. ASSUME NEW c \in Caller PROVE Informed(c)'
    <3>1. Clean(c[2]) => Clean(c[2])'
      BY <1>2 DEF Commit, Clean, HostInv, HostType
    <3> QED
      BY <1>2, <3>1 DEF Commit, HostInv, Informed, RulesMet
  <2> QED
    BY <2>1, <2>2 DEF HostInv
<1> QED
  BY <1>1, <1>2

LEMMA CallingKeeps ==
  ASSUME HostInv, Calling
  PROVE  HostInv'
<1>1. HostType' /\ Reporting'
  BY DEF Calling, HostInv, HostType, Reporting
<1>2. ASSUME NEW c \in Caller PROVE Informed(c)'
  BY DEF Calling, HostInv, Fresh, Informed, RulesMet, Clean, Windows
<1> QED
  BY <1>1, <1>2 DEF HostInv

LEMMA HostKeeps ==
  ASSUME HostInv, HostMoves
  PROVE  HostInv'
BY SetupStepKeeps, ResolveKeeps, PeopleKeep, CallingKeeps DEF HostMoves

-----------------------------------------------------------------------------
(* The client: its start in flight, the answers of list, and what is selected *)

Flows ==
  /\ ws \in Workspace
  /\ flow \in [at : {"idle", "setup", "start", "list"}, ws : Workspace \cup {None}, run : Run \cup {None}]
  /\ flow.at # "idle" => flow.ws \in Workspace
  /\ flow.at = "start" => calls[FlowCall].at \in {"check", "status", "discover", "resolve", "answered", "failed"}

Runs == run \in [Run -> [ws : Workspace, status : Status] \cup {None}]

Editing ==
  editor \in [of : Workspace \cup {None}, text : Content \cup {None},
             current : BOOLEAN, strayed : BOOLEAN]

(* The run that a start has been answered with *)
StartedRun ==
  flow.at = "list" \/ (flow.at = "start" /\ Answered(FlowCall))
  => flow.run \in Known /\ run[flow.run].ws = flow.ws

(* The list that startRun waits for, and those asked for later, have its run *)
Lists ==
  /\ lists \in Seq([for : {"timer", "flow"}, runs : SUBSET Run])
  /\ \A i \in 1..Len(lists) :
       lists[i].for = "flow" =>
         /\ flow.at = "list"
         /\ \A j \in 1..Len(lists) : j >= i => flow.run \in lists[j].runs
         /\ \A j \in 1..Len(lists) : lists[j].for = "flow" => j = i

Owning ==
  own # None =>
    /\ sel = own /\ own \in listed /\ own \in Known /\ run[own].ws = ws
    /\ \A i \in 1..Len(lists) : own \in lists[i].runs

Admissions == admitted = [r \in Run |-> admitted[r]] /\ AdmittedUnderBase

Client == Flows /\ Runs /\ Editing /\ EditorIsOfTarget /\ StartedRun /\ Lists /\ Owning

LEMMA Slots ==
  ASSUME NEW w \in Workspace
  PROVE  /\ <<"launch", w>> \in Caller /\ <<"card", w>> \in Caller
         /\ <<"begin", w>> \in Caller /\ <<"save", w>> \in Caller
         /\ <<"refresh", w>> \in Caller
BY DEF Caller

(* For the Host a step of the workbench is one of its own moves *)
LEMMA StepOfHost ==
  ASSUME HostType, Flows, Editing, Next
  PROVE  HostMoves
<1> USE IdleIsFresh, OneCall, NoCall DEF Flows
<1>1. ASSUME NEW w \in Workspace,
             LaunchAnswered(w) \/ CardAnswered(w) \/ CardFails(w) \/ \E b \in Button : ButtonAnswered(b, w)
      PROVE  Calling
  BY <1>1, Slots DEF LaunchAnswered, CardAnswered, CardFails, Button, ButtonAnswered, Take
<1>2. ASSUME SetupReady \/ Started \/ StartFails
      PROVE  Calling
  BY <1>2, Slots DEF SetupReady, Started, StartFails, Ask, FlowCall
<1>3. ASSUME SetupBlocked PROVE Calling
  <2>1. calls' \in [Caller -> Call] /\ \A c \in Caller : calls'[c] = calls[c] \/ Fresh(calls'[c])
    BY <1>3 DEF SetupBlocked, HostType, Fresh
  <2> QED
    BY <1>3, <2>1 DEF SetupBlocked, Calling
<1>4. ASSUME NEW w \in Workspace, SelectWorkspace(w) PROVE Calling
  <2>1. calls' \in [Caller -> Call] /\ \A c \in Caller : calls'[c] = calls[c] \/ Fresh(calls'[c])
    BY <1>4 DEF SelectWorkspace, HostType, Fresh
  <2> QED
    BY <1>4, <2>1 DEF SelectWorkspace, Calling
<1>5. ASSUME ShowSetup \/ StartRun \/ Refresh PROVE Calling
  BY <1>5, Slots DEF ShowSetup, StartRun, Refresh, Ask
<1>6. ASSUME Save PROVE Calling
  <2>1. PICK s \in {"prepare", "compare"} :
          calls' = [calls EXCEPT ![<<"save", ws>>] = [Idle EXCEPT !.at = s, !.text = editor.text]]
    BY <1>6 DEF Save
  <2>2. editor.text \in Content \cup {None}
    BY DEF Editing
  <2> DEFINE k == [Idle EXCEPT !.at = s, !.text = editor.text]
  <2>3. Fresh(k)
    BY <2>2
  <2>4. calls' = [calls EXCEPT ![<<"save", ws>>] = k] /\ UNCHANGED <<file, head, reports, reported>>
    BY <1>6, <2>1 DEF Save
  <2> QED
    BY <2>3, <2>4, Slots
<1>7. ASSUME \/ ShowRuns \/ Type \/ Act \/ ActRuns \/ ActAnswered
             \/ ListPoll \/ ListAnswered \/ ListFails
             \/ \E r \in Run : \/ SelectRun(r) \/ PollRead(r) \/ PollAnswered(r)
                              \/ PollFails(r) \/ RunEnds(r)
      PROVE  Calling
  BY <1>7 DEF ShowRuns, Type, Act, ActRuns, ActAnswered, ListPoll, ListAnswered, ListFails, ListDone,
              SelectRun, PollRead, PollAnswered, PollFails, RunEnds
<1>8. ASSUME NEW r \in Run, Admit(r) PROVE HostMoves
  BY <1>8, Slots DEF Admit, FlowCall, HostMoves
<1> QED
  BY <1>1, <1>2, <1>3, <1>4, <1>5, <1>6, <1>7, <1>8
     DEF Next, User, Answers, Host, HostStep, People, HostMoves
-----------------------------------------------------------------------------
(* The client's invariants, step by step.  A step that leaves alone what they
   speak of keeps them. *)

LEMMA ClientStart == Init => Client /\ Admissions
<1> SUFFICES ASSUME Init PROVE Client /\ Admissions
  OBVIOUS
<1>1. Flows
  BY WorkbenchAssumption DEF Init, Flows, NoFlow
<1>2. Runs
  BY DEF Init, Runs, Status
<1>3. Editing /\ EditorIsOfTarget
  BY DEF Init, Editing, EditorIsOfTarget, NoEditor
<1>4. StartedRun /\ Lists /\ Owning
  BY DEF Init, StartedRun, Lists, Owning, NoFlow
<1>5. Admissions
  BY DEF Init, Admissions, AdmittedUnderBase
<1> QED
  BY <1>1, <1>2, <1>3, <1>4, <1>5 DEF Client

(* The call of the start in flight goes on only by Admit, or by checks that do
   not answer *)
LEMMA FlowCallKeeps ==
  ASSUME HostType, Client, NEW c \in Caller, SetupStep(c), UNCHANGED flow
  PROVE  /\ flow.at = "start" => calls'[FlowCall].at \in {"check", "status", "discover", "resolve", "answered", "failed"}
         /\ flow.at = "start" /\ calls'[FlowCall].at = "answered" => Answered(FlowCall)
<1> SUFFICES ASSUME flow.at = "start"
             PROVE  /\ calls'[FlowCall].at \in {"check", "status", "discover", "resolve", "answered", "failed"}
                    /\ calls'[FlowCall].at = "answered" => Answered(FlowCall)
  OBVIOUS
<1>1. FlowCall \in Caller /\ calls[FlowCall].at \in {"check", "status", "discover", "resolve", "answered", "failed"}
  BY Slots DEF Client, Flows, FlowCall
<1>2. CASE c = FlowCall
  <2>1. Check(c) \/ InspectStatus(c) \/ Discover(c)
    BY <1>1, <1>2 DEF SetupStep, Prepare, Publish, Compare, Write, Reload
  <2> QED
    <3>1. PICK s \in {"status", "discover", "failed", "resolve"} : calls'[c].at = s
      BY <1>1, <1>2, <2>1 DEF Check, InspectStatus, Discover, At, HostType, Call
    <3> QED
      BY <1>2, <3>1
<1>3. CASE c # FlowCall
  <2>1. calls'[FlowCall].at = calls[FlowCall].at
    <3>1. CASE Write(c)
      BY <1>1, <1>3, <3>1, RacingCall, CallerOf DEF Write
    <3>2. CASE \/ Prepare(c) \/ Publish(c) \/ Compare(c) \/ Reload(c)
               \/ Check(c) \/ InspectStatus(c) \/ Discover(c)
      BY <1>1, <1>3, <3>2
         DEF Prepare, Publish, Compare, Reload, Check, InspectStatus, Discover, At, HostType
    <3> QED
      BY <3>1, <3>2 DEF SetupStep
  <2> QED
    BY <1>1, <2>1 DEF Answered
<1> QED
  BY <1>2, <1>3

(* Nothing the client's invariants speak of changes but statuses of runs and
   answers to calls *)
LEMMA ClientStands ==
  ASSUME HostType, Client, UNCHANGED <<ws, sel, listed, lists, own, flow, editor>>,
         Runs', \A r \in Known : run'[r] # None /\ run'[r].ws = run[r].ws,
         flow.at = "start" => calls'[FlowCall].at \in {"check", "status", "discover", "resolve", "answered", "failed"},
         flow.at = "start" /\ calls'[FlowCall].at = "answered" => Answered(FlowCall)
  PROVE  Client'
<1>1. Flows' /\ Editing' /\ EditorIsOfTarget' /\ Lists'
  BY DEF Client, Flows, Editing, EditorIsOfTarget, Lists, FlowCall
<1>2. Known \subseteq Known'
  BY DEF Known
<1>3. StartedRun'
  <2> SUFFICES ASSUME flow.at = "list" \/ (flow.at = "start" /\ calls'[FlowCall].at = "answered")
               PROVE  flow.run \in Known' /\ run'[flow.run].ws = flow.ws
    BY DEF StartedRun, Answered, FlowCall
  <2>1. flow.at = "list" \/ (flow.at = "start" /\ Answered(FlowCall))
    BY DEF Answered
  <2> QED
    BY <1>2, <2>1 DEF Client, StartedRun
<1>4. Owning'
  BY <1>2 DEF Client, Owning
<1> QED
  BY <1>1, <1>3, <1>4 DEF Client

(* The same when the call of the start in flight stands too *)
LEMMA ClientIdles ==
  ASSUME HostType, Client, UNCHANGED <<ws, sel, listed, lists, own, flow, editor, run>>,
         calls'[FlowCall] = calls[FlowCall]
  PROVE  Client'
<1>1. Runs' /\ \A r \in Known : run'[r] # None /\ run'[r].ws = run[r].ws
  BY DEF Client, Runs, Known
<1> QED
  BY <1>1, ClientStands DEF Client, Flows, Answered

(* Only the editor changes, and it keeps its promise *)
LEMMA ClientEdits ==
  ASSUME HostType, Client, UNCHANGED <<ws, sel, listed, lists, own, flow, run>>,
         calls'[FlowCall] = calls[FlowCall], Editing', EditorIsOfTarget'
  PROVE  Client'
<1>1. Flows' /\ Runs' /\ Lists' /\ Owning'
  BY DEF Client, Flows, Runs, Lists, Owning, FlowCall, Known
<1>2. StartedRun'
  <2>1. Answered(FlowCall)' = Answered(FlowCall) /\ Known' = Known
    BY DEF Answered, FlowCall, Known
  <2> QED
    BY <2>1 DEF Client, StartedRun
<1> QED
  BY <1>1, <1>2 DEF Client

LEMMA SetupAnswersKeep ==
  ASSUME HostType, Client,
         \/ \E w \in Workspace : LaunchAnswered(w) \/ CardAnswered(w) \/ CardFails(w)
         \/ \E w \in Workspace, b \in Button : ButtonAnswered(b, w)
         \/ Type \/ ShowRuns \/ ShowSetup \/ Save \/ Refresh
  PROVE  Client'
<1>0. \A w \in Workspace : /\ FlowCall # <<"launch", w>> /\ FlowCall # <<"card", w>>
                           /\ \A b \in Button : FlowCall # <<b, w>>
  BY DEF FlowCall, Button
<1>a. ws \in Workspace
  BY DEF Client, Flows
<1>b. \A x : TextOf(x) \in Content
  BY DocAssumption DEF TextOf, Content
<1>c. \A c \in Caller : calls[c].read \in Content \cup {None}
  BY DEF HostType, Call
<1>1. ASSUME NEW w \in Workspace, LaunchAnswered(w) \/ CardFails(w) PROVE Client'
  <2>1. CASE LaunchAnswered(w)
    BY <1>0, <2>1, ClientIdles DEF LaunchAnswered, Take
  <2>2. CASE CardFails(w)
    BY <1>0, <2>2, ClientIdles DEF CardFails, Take
  <2> QED
    BY <1>1, <2>1, <2>2
<1>2. ASSUME NEW w \in Workspace, CardAnswered(w) PROVE Client'
  <2>1. UNCHANGED <<ws, sel, listed, lists, own, flow, run>> /\ calls'[FlowCall] = calls[FlowCall]
    BY <1>0, <1>2 DEF CardAnswered, Take, card
  <2>2. Editing' /\ EditorIsOfTarget'
    <3>1. editor' = editor \/ (w = ws /\ editor' = Loaded(w))
      BY <1>2 DEF CardAnswered
    <3>2. /\ Loaded(w) \in [of : Workspace \cup {None}, text : Content \cup {None},
                            current : BOOLEAN, strayed : BOOLEAN]
          /\ Loaded(w).of = w
      BY <1>b, <1>c, Slots DEF Loaded
    <3> QED
      BY <2>1, <3>1, <3>2 DEF Client, Editing, EditorIsOfTarget
  <2> QED
    BY <2>1, <2>2, ClientEdits
<1>3. ASSUME NEW w \in Workspace, NEW b \in Button, ButtonAnswered(b, w) PROVE Client'
  <2>0. calls' = [calls EXCEPT ![<<b, w>>] = Idle] /\ FlowCall # <<b, w>> /\ <<b, w>> \in Caller
    BY <1>0, <1>3, Slots DEF ButtonAnswered, Take, Button
  <2>1. UNCHANGED <<ws, sel, listed, lists, own, flow, run>> /\ calls'[FlowCall] = calls[FlowCall]
    <3>1. UNCHANGED <<ws, sel, listed, lists, own, flow, run>>
      BY <1>3 DEF ButtonAnswered
    <3>2. calls'[FlowCall] = calls[FlowCall]
      BY <2>0
    <3> QED
      BY <3>1, <3>2
  <2>2. Editing' /\ EditorIsOfTarget'
    <3> DEFINE e == [editor EXCEPT !.of = w, !.text = TextOf(calls[<<b, w>>].read),
                                   !.strayed = (w # ws)]
    <3>1. editor' = editor \/ editor' = e
      BY <1>3 DEF ButtonAnswered
    <3>2. /\ e \in [of : Workspace \cup {None}, text : Content \cup {None},
                    current : BOOLEAN, strayed : BOOLEAN]
          /\ e.of = w /\ e.strayed = (w # ws)
      BY <1>b, <1>c, <2>0 DEF Client, Editing
    <3> QED
      BY <2>1, <3>1, <3>2 DEF Client, Editing, EditorIsOfTarget
  <2> QED
    BY <2>1, <2>2, ClientEdits
<1>4. CASE Type \/ ShowRuns
  <2>1. UNCHANGED <<ws, sel, listed, lists, own, flow, run>> /\ calls'[FlowCall] = calls[FlowCall]
    BY <1>4 DEF Type, ShowRuns, hostVars
  <2>2. Editing' /\ EditorIsOfTarget'
    <3>1. CASE Type
      <4>1. PICK x \in Doc \cup {Broken} : editor' = [editor EXCEPT !.text = x]
        BY <3>1 DEF Type
      <4>2. ws' = ws
        BY <2>1
      <4> QED
        BY <4>1, <4>2 DEF Client, Editing, EditorIsOfTarget, Content
    <3>2. CASE ShowRuns
      BY <3>2 DEF ShowRuns, NoEditor, Editing, EditorIsOfTarget
    <3> QED
      BY <1>4, <3>1, <3>2
  <2> QED
    BY <2>1, <2>2, ClientEdits
<1>5. CASE ShowSetup
  BY <1>0, <1>a, <1>5, ClientIdles DEF ShowSetup, Ask
<1>6. CASE Save \/ Refresh
  <2>1. FlowCall # <<"save", ws>> /\ FlowCall # <<"refresh", ws>>
    BY DEF FlowCall
  <2>2. UNCHANGED <<ws, sel, listed, lists, own, flow, editor, run>>
    BY <1>6 DEF Save, Refresh
  <2>3. CASE Save
    BY <2>1, <2>2, <2>3, ClientIdles DEF Save
  <2>4. CASE Refresh
    BY <2>1, <2>2, <2>4, ClientIdles DEF Refresh, Ask
  <2> QED
    BY <1>6, <2>3, <2>4
<1> QED
  BY <1>1, <1>2, <1>3, <1>4, <1>5, <1>6

(* What the cards show and control is on record; so are the runs only added to *)
Cards ==
  /\ listed \subseteq Known /\ sel \in Known \cup {None}
  /\ \A i \in 1..Len(lists) : lists[i].runs \subseteq Known
  /\ polls \in [Run -> Status \cup {None}] /\ \A r \in Run : polls[r] # None => r \in Known
  /\ shown # None => shown.run \in Known
  /\ act \in [run : Known, to : Status, reply : Status \cup {None}, live : BOOLEAN] \cup {None}

Grown == Runs' /\ \A r \in Known : r \in Known' /\ run'[r].ws = run[r].ws

LEMMA StatusGrows ==
  ASSUME Runs, NEW r \in Known, NEW s \in Status, run' = [run EXCEPT ![r].status = s]
  PROVE  Grown
<1>1. \A q \in Known : run[q] \in [ws : Workspace, status : Status]
  BY DEF Runs, Known
<1>2. [run[r] EXCEPT !.status = s] \in [ws : Workspace, status : Status]
      /\ [run[r] EXCEPT !.status = s].ws = run[r].ws
  BY <1>1
<1>3. run' = [run EXCEPT ![r] = [run[r] EXCEPT !.status = s]]
  OBVIOUS
<1> QED
  BY <1>1, <1>2, <1>3, RunAssumption DEF Grown, Runs, Known

LEMMA AdmitGrows ==
  ASSUME Client, NEW r \in Run, Admit(r)
  PROVE  Grown
<1>1. flow.ws \in Workspace
  BY DEF Client, Flows, Admit
<1>2. run' = run \/ run' = [run EXCEPT ![r] = [ws |-> flow.ws, status |-> "active"]]
  BY DEF Admit
<1>3. r \notin Known /\ [ws |-> flow.ws, status |-> "active"] \in [ws : Workspace, status : Status]
  BY <1>1 DEF Admit, Known, Status
<1> QED
  BY <1>2, <1>3, RunAssumption DEF Grown, Client, Runs, Known

LEMMA ControlGrows ==
  ASSUME Client, Cards, ActRuns \/ \E r \in Run : RunEnds(r)
  PROVE  Grown
<1>1. CASE ActRuns
  <2>1. act.run \in Known /\ act.to \in Status
    BY <1>1 DEF Cards, ActRuns
  <2>2. run' = run \/ \E s \in Status : run' = [run EXCEPT ![act.run].status = s]
    BY <1>1, <2>1 DEF ActRuns
  <2> QED
    BY <2>1, <2>2, StatusGrows DEF Client, Grown, Runs, Known
<1>2. CASE \E r \in Run : RunEnds(r)
  <2>1. PICK r \in Known, s \in Status : run' = [run EXCEPT ![r].status = s]
    BY <1>2 DEF RunEnds, Known, Status
  <2> QED
    BY <2>1, StatusGrows DEF Client
<1> QED
  BY <1>1, <1>2

(* The run card, the timer of its polls, and the Host *)
LEMMA RunsKeep ==
  ASSUME HostType, Client, Cards,
         \/ \E r \in Run : PollRead(r) \/ PollAnswered(r) \/ PollFails(r) \/ RunEnds(r)
         \/ Act \/ ActRuns \/ ActAnswered
         \/ \E c \in Caller : HostStep(c)
         \/ \E w \in Workspace : People(w)
  PROVE  Client'
<1>0. flow.at = "start" =>
        FlowCall \in Caller /\ calls[FlowCall].at \in {"check", "status", "discover", "resolve", "answered", "failed"}
  BY Slots DEF Client, Flows, FlowCall
<1>1. CASE \/ \E r \in Run : PollRead(r) \/ PollAnswered(r) \/ PollFails(r)
           \/ Act \/ ActAnswered
  BY <1>1, ClientIdles DEF PollRead, PollAnswered, PollFails, Act, ActAnswered, hostVars
<1>2. CASE ActRuns \/ \E r \in Run : RunEnds(r)
  <2>1. UNCHANGED <<ws, sel, listed, lists, own, flow, editor, calls>>
    BY <1>2 DEF RunEnds, ActRuns, client, hostVars
  <2>2. Grown
    BY <1>2, ControlGrows
  <2> QED
    BY <1>0, <2>1, <2>2, ClientStands DEF Grown, Known, Answered
<1>3. ASSUME NEW c \in Caller, HostStep(c) PROVE Client'
  <2>1. SetupStep(c) /\ UNCHANGED <<ws, sel, listed, lists, own, flow, editor, run>>
    BY <1>3 DEF HostStep, client
  <2>2. Runs' /\ \A r \in Known : run'[r] # None /\ run'[r].ws = run[r].ws
    BY <2>1 DEF Client, Runs, Known
  <2> QED
    BY <2>1, <2>2, FlowCallKeeps, ClientStands
<1>4. ASSUME NEW w \in Workspace, People(w) PROVE Client'
  <2>1. UNCHANGED <<ws, sel, listed, lists, own, flow, editor, run>>
    BY <1>4 DEF People, client
  <2>2. Runs' /\ \A r \in Known : run'[r] # None /\ run'[r].ws = run[r].ws
    BY <2>1 DEF Client, Runs, Known
  <2>3. flow.at = "start" => calls'[FlowCall].at = calls[FlowCall].at
    BY <1>0, <1>4, RacingCall DEF People, Edit, Commit
  <2> QED
    BY <1>0, <2>1, <2>2, <2>3, ClientStands DEF Answered
<1> QED
  BY <1>1, <1>2, <1>3, <1>4

(* Navigation gives up the run that startRun selected *)
LEMMA NavigationKeeps ==
  ASSUME HostType, Client,
         \/ \E w \in Workspace : SelectWorkspace(w)
         \/ \E r \in Run : SelectRun(r)
  PROVE  Client'
<1>1. ASSUME NEW w \in Workspace, SelectWorkspace(w) PROVE Client'
  <2>1. UNCHANGED <<listed, lists, flow, run>> /\ ws' = w /\ own' = None
    BY <1>1 DEF SelectWorkspace
  <2>2. editor' = [editor EXCEPT !.current = FALSE]
    BY <1>1 DEF SelectWorkspace
  <2>3. flow.ws \in Workspace => calls'[FlowCall] = calls[FlowCall]
    BY <1>1, Slots DEF SelectWorkspace, FlowCall
  <2>4. Editing' /\ EditorIsOfTarget'
    BY <2>2 DEF Client, Editing, EditorIsOfTarget
  <2>5. Flows'
    BY <2>1, <2>3 DEF Client, Flows, FlowCall
  <2>6. StartedRun'
    BY <2>1, <2>3 DEF Client, Flows, StartedRun, Answered, FlowCall, Known
  <2>7. Runs' /\ Lists' /\ Owning'
    BY <2>1 DEF Client, Runs, Lists, Owning
  <2> QED
    BY <2>4, <2>5, <2>6, <2>7 DEF Client
<1>2. ASSUME NEW r \in Run, SelectRun(r) PROVE Client'
  <2>1. UNCHANGED <<calls, ws, listed, lists, flow, run, editor>> /\ own' = None
    BY <1>2 DEF SelectRun, hostVars
  <2>2. Flows' /\ StartedRun'
    BY <2>1 DEF Client, Flows, StartedRun, Answered, FlowCall, Known
  <2> QED
    BY <2>1, <2>2 DEF Client, Runs, Editing, EditorIsOfTarget, Lists, Owning
<1> QED
  BY <1>1, <1>2

(* No answer for startRun is on its way before it asks for the list *)
LEMMA NoListYet ==
  ASSUME Lists, flow.at # "list"
  PROVE  \A i \in 1..Len(lists) : lists[i].for # "flow"
BY DEF Lists

LEMMA StartKeeps ==
  ASSUME HostType, Client, StartRun \/ SetupReady \/ SetupBlocked \/ StartFails
  PROVE  Client'
<1>1. UNCHANGED <<ws, sel, listed, lists, own, run, editor>> /\ flow.at # "list"
  BY DEF StartRun, SetupReady, SetupBlocked, StartFails, NoFlow
<1> DEFINE FlowType ==
      [at : {"idle", "setup", "start", "list"}, ws : Workspace \cup {None}, run : Run \cup {None}]
<1>2. /\ flow' \in FlowType
      /\ \/ flow' = NoFlow
         \/ flow'.at = "setup" /\ flow'.ws \in Workspace
         \/ flow'.at = "start" /\ flow'.ws \in Workspace /\ calls'[FlowCall'].at = "check"
  <2>1. CASE StartRun
    BY <2>1 DEF StartRun, NoFlow, Client, Flows
  <2>2. CASE SetupReady
    <3>1. flow' = [flow EXCEPT !.at = "start"] /\ flow \in FlowType /\ flow.ws \in Workspace
      BY <2>2 DEF SetupReady, Client, Flows
    <3>2. FlowCall \in Caller /\ FlowCall' = FlowCall
      BY <3>1, Slots DEF FlowCall
    <3>3. calls'[FlowCall].at = "check"
      BY <2>2, <3>2 DEF SetupReady, Ask, HostType, Idle
    <3> QED
      BY <3>1, <3>2, <3>3
  <2>3. CASE SetupBlocked \/ StartFails
    BY <2>3 DEF SetupBlocked, StartFails, NoFlow
  <2> QED
    BY <2>1, <2>2, <2>3
<1>3. Flows'
  BY <1>1, <1>2 DEF Client, Flows, NoFlow
<1>4. StartedRun'
  BY <1>2 DEF StartedRun, NoFlow, Answered
<1>5. Lists'
  BY <1>1, NoListYet DEF Client, Lists
<1>6. Runs' /\ Editing' /\ EditorIsOfTarget' /\ Owning'
  BY <1>1 DEF Client, Runs, Editing, EditorIsOfTarget, Owning, Known
<1> QED
  BY <1>3, <1>4, <1>5, <1>6 DEF Client

LEMMA AdmitKeeps ==
  ASSUME HostType, Client, NEW r \in Run, Admit(r)
  PROVE  Client'
<1>1. UNCHANGED <<ws, sel, listed, lists, own, editor>> /\ flow.at = "start"
  BY DEF Admit
<1>2. Grown
  BY AdmitGrows
<1>3. flow.ws \in Workspace /\ FlowCall \in Caller
  BY <1>1, Slots DEF Client, Flows, FlowCall
<1>4. /\ flow' \in [at : {"idle", "setup", "start", "list"}, ws : Workspace \cup {None}, run : Run \cup {None}]
      /\ flow'.at = "start" /\ flow'.ws = flow.ws
  BY <1>1 DEF Admit, Client, Flows
<1>5. /\ calls'[FlowCall].at \in {"answered", "failed"}
      /\ calls'[FlowCall].at = "answered" => Resolves(file[flow.ws])
  BY <1>3 DEF Admit, Resolve, At, HostType, Call, FlowCall
<1>10. FlowCall' = FlowCall
  BY <1>4 DEF FlowCall
<1>6. Flows'
  <2>1. ws' \in Workspace
    BY <1>1 DEF Client, Flows
  <2>2. calls'[FlowCall'].at \in {"check", "status", "discover", "resolve", "answered", "failed"}
    BY <1>5, <1>10
  <2> QED
    BY <1>3, <1>4, <2>1, <2>2 DEF Flows
<1>7. StartedRun'
  <2>1. Answered(FlowCall)' => Resolves(file[flow.ws])
    BY <1>5, <1>10 DEF Answered
  <2>2. Resolves(file[flow.ws]) => flow'.run = r /\ run'[r] = [ws |-> flow.ws, status |-> "active"]
    BY <1>4 DEF Admit, Client, Flows, Runs
  <2>3. [ws |-> flow.ws, status |-> "active"] # None
    BY <1>3, RunAssumption DEF Status
  <2>4. Resolves(file[flow.ws]) => flow'.run \in Known' /\ run'[flow'.run].ws = flow'.ws
    BY <1>4, <2>2, <2>3 DEF Known
  <2> QED
    BY <1>4, <2>1, <2>4 DEF StartedRun
<1>8. Lists' /\ Editing' /\ EditorIsOfTarget'
  BY <1>1, NoListYet DEF Client, Lists, Editing, EditorIsOfTarget
<1>9. Owning'
  BY <1>1, <1>2 DEF Client, Owning, Grown
<1> QED
  BY <1>2, <1>6, <1>7, <1>8, <1>9 DEF Client, Grown

(* The list of runs *)

LEMMA AskedKeeps ==
  ASSUME HostType, Client, Cards, Started \/ ListPoll
  PROVE  Client'
<1>1. UNCHANGED <<ws, sel, listed, own, run>>
  BY DEF Started, ListPoll
<1>2. PICK e \in {ByFlow, ByTimer} :
        /\ lists' = Append(lists, e)
        /\ e.for = "flow" <=> Started
        /\ e.runs = Known
  <2>1. CASE Started
    BY <2>1 DEF Started, ByFlow
  <2>2. CASE ListPoll /\ ~Started
    BY <2>2 DEF ListPoll, ByTimer
  <2> QED
    BY <2>1, <2>2
<1>3. /\ lists' \in Seq([for : {"timer", "flow"}, runs : SUBSET Run])
      /\ Len(lists') = Len(lists) + 1
      /\ \A i \in 1..Len(lists) : lists'[i] = lists[i]
      /\ lists'[Len(lists')] = e
  BY <1>2 DEF Client, Lists, ByFlow, ByTimer, Known
<1>4. CASE Started
  <2>1. flow.at = "start" /\ Answered(FlowCall) /\ flow' = [flow EXCEPT !.at = "list"] /\ editor' = NoEditor
    BY <1>4 DEF Started
  <2>2. flow.run \in Known /\ run[flow.run].ws = flow.ws
    BY <2>1 DEF Client, StartedRun
  <2>3. Flows' /\ StartedRun'
    BY <1>1, <2>1, <2>2 DEF Client, Flows, StartedRun, Known
  <2>4. \A i \in 1..Len(lists) : lists'[i].for # "flow"
    BY <1>3, <2>1, NoListYet DEF Client
  <2>5. Lists'
    BY <1>2, <1>3, <2>1, <2>2, <2>4 DEF Client, Flows, Lists
  <2>6. Editing' /\ EditorIsOfTarget'
    BY <2>1 DEF NoEditor, Editing, EditorIsOfTarget
  <2>7. Owning'
    BY <1>1, <1>2, <1>3 DEF Client, Owning, Known, Lists
  <2> QED
    BY <1>1, <2>3, <2>5, <2>6, <2>7 DEF Client, Runs
<1>5. CASE ListPoll /\ ~Started
  <2>1. UNCHANGED <<calls, flow, editor>> /\ e.for # "flow"
    BY <1>2, <1>5 DEF ListPoll, hostVars
  <2>2. Flows' /\ StartedRun'
    BY <1>1, <2>1 DEF Client, Flows, StartedRun, Known, Answered, FlowCall
  <2>3. Lists'
    <3>1. flow.at = "list" => flow.run \in Known
      BY DEF Client, StartedRun
    <3> QED
      BY <1>2, <1>3, <2>1, <3>1 DEF Client, Lists
  <2>4. Owning'
    BY <1>1, <1>2, <1>3 DEF Client, Owning, Known, Lists
  <2> QED
    BY <1>1, <2>1, <2>2, <2>3, <2>4 DEF Client, Runs, Editing, EditorIsOfTarget
<1> QED
  BY <1>4, <1>5

LEMMA ListKeeps ==
  ASSUME HostType, Client, Cards, ListAnswered \/ ListFails
  PROVE  Client'
<1> DEFINE first == Head(lists)
<1>1. PICK runs : /\ ListDone(runs)
                  /\ ListAnswered => runs = first.runs
                  /\ ~ListAnswered => ListFails /\ runs = listed
  BY DEF ListAnswered, ListFails
<1>2. /\ lists # <<>> /\ lists' = Tail(lists) /\ first = lists[1]
      /\ lists' \in Seq([for : {"timer", "flow"}, runs : SUBSET Run])
      /\ Len(lists') = Len(lists) - 1 /\ 1 \in 1..Len(lists)
      /\ \A i \in 1..Len(lists') : i + 1 \in 1..Len(lists) /\ lists'[i] = lists[i + 1]
  BY <1>1 DEF ListAnswered, ListFails, ListDone, Client, Lists
<1>3. UNCHANGED <<calls, ws, run, editor>> /\ listed' = runs
  BY <1>1 DEF ListDone, hostVars
<1>4. CASE first.for = "flow"
  <2>1. flow' = NoFlow /\ flow.at = "list"
    BY <1>1, <1>2, <1>4 DEF ListDone, Client, Lists
  <2>2. \A i \in 1..Len(lists') : lists'[i].for # "flow" /\ flow.run \in lists'[i].runs
    BY <1>2, <1>4 DEF Client, Lists
  <2>3. Flows' /\ StartedRun' /\ Lists'
    BY <1>2, <1>3, <2>1, <2>2 DEF Client, Flows, StartedRun, Lists, NoFlow
  <2>4. Owning'
    <3>1. CASE ListAnswered
      <4>1. flow.run \in runs /\ flow.run \in Known /\ run[flow.run].ws = flow.ws
        BY <1>1, <1>2, <1>4, <2>1, <3>1 DEF Client, Lists, StartedRun
      <4>2. own' # None => flow.ws = ws /\ own' = flow.run
        BY <1>4, <3>1 DEF ListAnswered
      <4>3. flow.ws = ws => sel' = flow.run
        BY <1>1, <1>4, <4>1 DEF ListDone, Selects, Settle, OfWorkspace
      <4> QED
        BY <1>3, <2>2, <4>1, <4>2, <4>3 DEF Owning, Known
    <3>2. CASE ~ListAnswered
      BY <1>1, <1>4, <3>2 DEF ListFails, Owning
    <3> QED
      BY <3>1, <3>2
  <2> QED
    BY <1>3, <2>3, <2>4 DEF Client, Runs, Editing, EditorIsOfTarget
<1>5. CASE first.for # "flow"
  <2>1. UNCHANGED <<flow, own>>
    BY <1>1, <1>5 DEF ListDone, ListAnswered, ListFails
  <2>2. Flows' /\ StartedRun'
    BY <1>3, <2>1 DEF Client, Flows, StartedRun, Known, Answered, FlowCall
  <2>3. Lists'
    BY <1>2, <2>1 DEF Client, Lists
  <2>4. Owning'
    <3> SUFFICES ASSUME own # None PROVE Owning'
      BY <2>1 DEF Owning
    <3>1. own \in runs /\ run[own].ws = ws /\ sel = own
      BY <1>1, <1>2 DEF Client, Owning
    <3>2. sel' = own
      BY <1>1, <1>5, <3>1 DEF ListDone, Selects, Settle, OfWorkspace
    <3> QED
      BY <1>2, <1>3, <2>1, <3>1, <3>2 DEF Client, Owning, Known
  <2> QED
    BY <1>3, <2>1, <2>2, <2>3, <2>4 DEF Client, Runs, Editing, EditorIsOfTarget
<1> QED
  BY <1>4, <1>5

(* The cards *)

LEMMA RunsOnlyGrow ==
  ASSUME HostType, Client, Cards, Next
  PROVE  Grown
<1>1. CASE \E r \in Run : Admit(r)
  BY <1>1, AdmitGrows
<1>2. CASE ActRuns \/ \E r \in Run : RunEnds(r)
  BY <1>2, ControlGrows
<1>3. CASE run' = run
  BY <1>3 DEF Client, Runs, Grown, Known
<1>4. \/ \E r \in Run : Admit(r)
      \/ ActRuns \/ \E r \in Run : RunEnds(r)
      \/ run' = run
  BY DEF Next, User, Answers, Host, HostStep, People,
         SelectWorkspace, ShowSetup, ShowRuns, SelectRun, Type, Save, Refresh, StartRun, Act,
         LaunchAnswered, CardAnswered, CardFails, ButtonAnswered, SetupReady, SetupBlocked, Started, StartFails,
         ListAnswered, ListFails, ListDone, ListPoll, PollRead, PollAnswered, PollFails, ActAnswered
<1> QED
  BY <1>1, <1>2, <1>3, <1>4

(* The card stands, or it goes *)
LEMMA CardsStand ==
  ASSUME Cards, Grown, UNCHANGED <<listed, lists>>, sel' \in Known' \cup {None},
         UNCHANGED card \/ Unmounted
  PROVE  Cards'
<1>1. Known \subseteq Known'
  BY DEF Grown
<1>2. CASE UNCHANGED card
  BY <1>1, <1>2 DEF Cards, card
<1>3. CASE Unmounted
  <2>1. act' \in [run : Known', to : Status, reply : Status \cup {None}, live : BOOLEAN] \cup {None}
    BY <1>1, <1>3 DEF Cards, Unmounted
  <2> QED
    BY <1>1, <1>3, <2>1 DEF Cards, Unmounted, NoPolls
<1> QED
  BY <1>2, <1>3

LEMMA CardsKeep ==
  ASSUME HostType, Client, Cards, Next
  PROVE  Cards'
<1>1. Grown /\ Known \subseteq Known'
  BY RunsOnlyGrow DEF Grown
<1>2. \A r \in Known : run[r].status \in Status
  BY DEF Known, Client, Runs
<1>3. ASSUME NEW w \in Workspace, SelectWorkspace(w) PROVE Cards'
  <2>1. sel' \in Of(w) \cup {None} /\ UNCHANGED <<listed, lists>> /\ Unmounted
    BY <1>3 DEF SelectWorkspace, Settle
  <2> QED
    BY <1>1, <2>1, CardsStand DEF Of, Cards
<1>4. ASSUME ListAnswered \/ ListFails PROVE Cards'
  <2>1. PICK runs : ListDone(runs) /\ (runs = Head(lists).runs \/ runs = listed)
    BY <1>4 DEF ListAnswered, ListFails
  <2>2. /\ Len(lists') = Len(lists) - 1 /\ 1 \in 1..Len(lists) /\ Head(lists) = lists[1]
        /\ \A i \in 1..Len(lists') : i + 1 \in 1..Len(lists) /\ lists'[i] = lists[i + 1]
    BY <1>4, <2>1 DEF ListAnswered, ListFails, ListDone, Client, Lists
  <2>3. listed' = runs /\ runs \subseteq Known /\ sel' \in runs \cup {None} /\ (UNCHANGED card \/ Unmounted)
    BY <2>1, <2>2 DEF ListDone, Selects, Settle, OfWorkspace, Remount, Cards
  <2>4. \A i \in 1..Len(lists') : lists'[i].runs \subseteq Known'
    BY <1>1, <2>2 DEF Cards
  <2>5. shown' = shown \/ shown' = None
    BY <2>3 DEF card, Unmounted
  <2>6. polls' = polls \/ polls' = NoPolls
    BY <2>3 DEF card, Unmounted
  <2>7. act' = act \/ (act # None /\ act' = [act EXCEPT !.live = FALSE]) \/ act' = None
    BY <2>3 DEF card, Unmounted
  <2>8. act' \in [run : Known', to : Status, reply : Status \cup {None}, live : BOOLEAN] \cup {None}
    BY <1>1, <2>7 DEF Cards
  <2> QED
    BY <1>1, <2>3, <2>4, <2>5, <2>6, <2>8 DEF Cards, NoPolls
<1>5. ASSUME Started \/ ListPoll PROVE Cards'
  <2>1. UNCHANGED <<listed, sel, card>> /\ \E e \in {ByFlow, ByTimer} : lists' = Append(lists, e)
    BY <1>5 DEF Started, ListPoll
  <2>2. \A i \in 1..Len(lists') : lists'[i].runs \subseteq Known'
    BY <1>1, <2>1 DEF Cards, Client, Lists, ByFlow, ByTimer
  <2> QED
    BY <1>1, <2>1, <2>2 DEF Cards, card
<1>6. ASSUME NEW r \in Run, PollRead(r) PROVE Cards'
  <2>1. r \in Known /\ UNCHANGED <<listed, lists, sel, shown, act>>
        /\ polls' = [polls EXCEPT ![r] = run[r].status]
    BY <1>6, WorkbenchAssumption DEF PollRead, Cards
  <2> QED
    BY <1>1, <1>2, <2>1 DEF Cards
<1>7. ASSUME NEW r \in Run, PollAnswered(r) \/ PollFails(r) PROVE Cards'
  <2>1. r \in Known /\ UNCHANGED <<listed, lists, sel, act>> /\ polls' = [polls EXCEPT ![r] = None]
    BY <1>7 DEF PollAnswered, PollFails, Cards
  <2>2. shown' # None => shown' = shown \/ shown'.run = r
    BY <1>7 DEF PollAnswered, PollFails
  <2> QED
    BY <1>1, <2>1, <2>2 DEF Cards
<1>8. ASSUME Act PROVE Cards'
  <2>1. shown # None /\ UNCHANGED <<listed, lists, sel, shown, polls>>
        /\ \E t \in Status : act' = [run |-> shown.run, to |-> t, reply |-> None, live |-> TRUE]
    BY <1>8 DEF Act, Status
  <2> QED
    BY <1>1, <2>1 DEF Cards
<1>9. ASSUME ActRuns PROVE Cards'
  <2>1. act # None /\ act.run \in Known /\ act.to \in Status /\ UNCHANGED <<listed, lists, sel, shown, polls>>
    BY <1>9 DEF ActRuns, Cards
  <2>2. \E s \in Status : act' = [act EXCEPT !.reply = s]
    BY <1>2, <1>9, <2>1 DEF ActRuns, Status
  <2> QED
    BY <1>1, <2>1, <2>2 DEF Cards
<1>10. ASSUME ActAnswered PROVE Cards'
  <2>1. UNCHANGED <<listed, lists, sel, polls>> /\ act' = None
    BY <1>10 DEF ActAnswered
  <2>2. shown' # None => shown' = shown \/ (act # None /\ shown'.run = act.run)
    BY <1>10 DEF ActAnswered
  <2> QED
    BY <1>1, <2>1, <2>2 DEF Cards
<1>11. ASSUME \/ ShowSetup \/ ShowRuns \/ Type \/ Save \/ Refresh \/ StartRun
              \/ SetupReady \/ SetupBlocked \/ StartFails
              \/ \E w \in Workspace : LaunchAnswered(w) \/ CardAnswered(w) \/ CardFails(w) \/ People(w)
              \/ \E w \in Workspace, b \in Button : ButtonAnswered(b, w)
              \/ \E r \in Run : SelectRun(r) \/ Admit(r) \/ RunEnds(r)
              \/ \E c \in Caller : HostStep(c)
       PROVE  Cards'
  <2>1. UNCHANGED <<listed, lists>> /\ (UNCHANGED card \/ Unmounted)
    BY <1>11 DEF ShowSetup, ShowRuns, Type, Save, Refresh, StartRun, SetupReady, SetupBlocked, StartFails,
                 LaunchAnswered, CardAnswered, CardFails, ButtonAnswered, People, SelectRun, Admit, RunEnds, HostStep,
                 client, card
  <2>2. sel' = sel \/ \E r \in Run : SelectRun(r) /\ sel' = r
    BY <1>11 DEF ShowSetup, ShowRuns, Type, Save, Refresh, StartRun, SetupReady, SetupBlocked, StartFails,
                 LaunchAnswered, CardAnswered, CardFails, ButtonAnswered, People, SelectRun, Admit, RunEnds, HostStep,
                 client
  <2>3. sel' \in Known' \cup {None}
    BY <1>1, <2>2 DEF Cards, SelectRun, Of
  <2> QED
    BY <1>1, <2>1, <2>3, CardsStand
<1> QED
  BY <1>3, <1>4, <1>5, <1>6, <1>7, <1>8, <1>9, <1>10, <1>11
     DEF Next, User, Answers, Host

(* Resolve(FlowCall) of an admission knows what it has read *)
LEMMA AdmittedKeeps ==
  ASSUME HostInv, Client, Admissions, Next
  PROVE  Admissions'
<1>1. CASE \E r \in Run : Admit(r)
  <2>1. PICK r \in Run : Admit(r)
    BY <1>1
  <2>2. FlowCall \in Caller /\ FlowCall[2] = flow.ws /\ calls[FlowCall].at = "resolve"
    BY <2>1, Slots DEF Admit, Client, Flows, FlowCall, Resolve
  <2>3. Informed(FlowCall)
    BY <2>2 DEF HostInv
  <2> DEFINE a == [policy |-> file[flow.ws], base |-> calls[FlowCall].read, raced |-> calls[FlowCall].raced]
  <2>4. \/ a.raced \in {"discover", "resolve"}
        \/ a.policy = a.base /\ (a.raced = None => RulesMet(a.policy))
    BY <2>2, <2>3 DEF Informed
  <2>5. admitted' = admitted \/ admitted' = [admitted EXCEPT ![r] = a]
    BY <2>1 DEF Admit
  <2>6. admitted' = [q \in Run |-> admitted'[q]]
    BY <2>5 DEF Admissions
  <2>7. \A q \in Run : admitted'[q] = admitted[q] \/ admitted'[q] = a
    BY <2>5 DEF Admissions
  <2> QED
    BY <2>4, <2>6, <2>7 DEF Admissions, AdmittedUnderBase
<1>2. CASE admitted' = admitted
  BY <1>2 DEF Admissions, AdmittedUnderBase
<1>3. admitted' = admitted \/ \E r \in Run : Admit(r)
  BY DEF Next, User, Answers, Host, HostStep, People,
         SelectWorkspace, ShowSetup, ShowRuns, SelectRun, Type, Save, Refresh, StartRun, Act,
         LaunchAnswered, CardAnswered, CardFails, ButtonAnswered, SetupReady, SetupBlocked, Started, StartFails,
         ListAnswered, ListFails, ListDone, ListPoll, PollRead, PollAnswered, PollFails,
         ActRuns, ActAnswered, RunEnds
<1> QED
  BY <1>1, <1>2, <1>3

LEMMA ClientKeeps ==
  ASSUME HostInv, Client, Cards, Next
  PROVE  Client'
<1> USE DEF HostInv
<1>1. CASE \/ \E w \in Workspace : LaunchAnswered(w) \/ CardAnswered(w) \/ CardFails(w)
           \/ \E w \in Workspace, b \in Button : ButtonAnswered(b, w)
           \/ Type \/ ShowRuns \/ ShowSetup \/ Save \/ Refresh
  BY <1>1, SetupAnswersKeep
<1>2. CASE \/ \E w \in Workspace : SelectWorkspace(w)
           \/ \E r \in Run : SelectRun(r)
  BY <1>2, NavigationKeeps
<1>3. CASE StartRun \/ SetupReady \/ SetupBlocked \/ StartFails
  BY <1>3, StartKeeps
<1>4. CASE \E r \in Run : Admit(r)
  BY <1>4, AdmitKeeps
<1>5. CASE Started \/ ListPoll
  BY <1>5, AskedKeeps
<1>6. CASE ListAnswered \/ ListFails
  BY <1>6, ListKeeps
<1>7. CASE \/ \E r \in Run : PollRead(r) \/ PollAnswered(r) \/ PollFails(r) \/ RunEnds(r)
           \/ Act \/ ActRuns \/ ActAnswered
           \/ \E c \in Caller : HostStep(c)
           \/ \E w \in Workspace : People(w)
  BY <1>7, RunsKeep
<1> QED
  BY <1>1, <1>2, <1>3, <1>4, <1>5, <1>6, <1>7 DEF Next, User, Answers, Host

(* What is left of the types *)
Admission == [policy : Content, base : Content, raced : Windows \cup {None}]

OneTimer ==
  \A i, j \in 1..Len(lists) : lists[i].for = "timer" /\ lists[j].for = "timer" => i = j

Forms ==
  /\ view \in {"runs", "setup"} /\ launched \in BOOLEAN /\ pending \subseteq Button
  /\ shown \in [run : Known, status : Status \ {"voided"}] \cup {None}
  /\ admitted \in [Run -> Admission \cup {None}]
  /\ OneTimer

LEMMA TimerKeeps ==
  ASSUME Client, OneTimer, Next
  PROVE  OneTimer'
<1>1. CASE lists' = lists
  BY <1>1 DEF OneTimer
<1>2. CASE ListAnswered \/ ListFails
  <2>1. /\ Len(lists') = Len(lists) - 1
        /\ \A i \in 1..Len(lists') : i + 1 \in 1..Len(lists) /\ lists'[i] = lists[i + 1]
    BY <1>2 DEF ListAnswered, ListFails, ListDone, Client, Lists
  <2>2. \A i \in 1..Len(lists') : i \in Nat
    BY <2>1 DEF Client, Lists
  <2> QED
    BY <2>1, <2>2 DEF OneTimer
<1>3. CASE Started
  <2>1. lists' = Append(lists, ByFlow) /\ ByFlow.for = "flow" /\ lists \in Seq([for : {"timer", "flow"}, runs : SUBSET Run])
    BY <1>3 DEF Started, ByFlow, Client, Lists
  <2>2. Len(lists') = Len(lists) + 1 /\ lists'[Len(lists')] = ByFlow /\ Len(lists) \in Nat
        /\ \A i \in 1..Len(lists) : lists'[i] = lists[i]
    BY <2>1
  <2> QED
    BY <2>1, <2>2 DEF OneTimer
<1>4. CASE ListPoll
  <2>1. lists' = Append(lists, ByTimer) /\ lists \in Seq([for : {"timer", "flow"}, runs : SUBSET Run])
    BY <1>4 DEF ListPoll, Client, Lists
  <2>2. Len(lists') = Len(lists) + 1 /\ Len(lists) \in Nat
        /\ \A i \in 1..Len(lists) : lists'[i] = lists[i]
    BY <2>1
  <2> QED
    BY <1>4, <2>2 DEF OneTimer, ListPoll
<1> QED
  BY <1>1, <1>2, <1>3, <1>4
     DEF Next, User, Answers, Host, HostStep, People, client,
         SelectWorkspace, ShowSetup, ShowRuns, SelectRun, Type, Save, Refresh, StartRun, Act,
         LaunchAnswered, CardAnswered, CardFails, ButtonAnswered, SetupReady, SetupBlocked, StartFails,
         Admit, PollRead, PollAnswered, PollFails, ActRuns, ActAnswered, RunEnds

LEMMA FormsKeep ==
  ASSUME HostInv, Client, Cards, Forms, Next
  PROVE  Forms'
<1>1. view' \in {"runs", "setup"} /\ launched' \in BOOLEAN /\ pending' \subseteq Button
  <2>1. view' = view \/ view' \in {"runs", "setup"}
    BY DEF Next, User, Answers, Host, HostStep, People, client,
         SelectWorkspace, ShowSetup, ShowRuns, SelectRun, Type, Save, Refresh, StartRun, Act,
         LaunchAnswered, CardAnswered, CardFails, ButtonAnswered, SetupReady, SetupBlocked, Started, StartFails,
         ListAnswered, ListFails, ListDone, ListPoll, PollRead, PollAnswered, PollFails,
         Admit, ActRuns, ActAnswered, RunEnds
  <2>2. launched' = launched \/ launched' \in BOOLEAN
    BY DEF Next, User, Answers, Host, HostStep, People, client,
         SelectWorkspace, ShowSetup, ShowRuns, SelectRun, Type, Save, Refresh, StartRun, Act,
         LaunchAnswered, CardAnswered, CardFails, ButtonAnswered, SetupReady, SetupBlocked, Started, StartFails,
         ListAnswered, ListFails, ListDone, ListPoll, PollRead, PollAnswered, PollFails,
         Admit, ActRuns, ActAnswered, RunEnds
  <2>3. pending' = pending \/ pending' \subseteq pending \/ \E b \in Button : pending' = pending \cup {b}
    BY DEF Button, Next, User, Answers, Host, HostStep, People, client,
         SelectWorkspace, ShowSetup, ShowRuns, SelectRun, Type, Save, Refresh, StartRun, Act,
         LaunchAnswered, CardAnswered, CardFails, ButtonAnswered, SetupReady, SetupBlocked, Started, StartFails,
         ListAnswered, ListFails, ListDone, ListPoll, PollRead, PollAnswered, PollFails,
         Admit, ActRuns, ActAnswered, RunEnds
  <2> QED
    BY <2>1, <2>2, <2>3 DEF Forms
<1>2. shown' \in [run : Known', status : Status \ {"voided"}] \cup {None}
  <2>1. Known \subseteq Known'
    BY RunsOnlyGrow DEF HostInv, Grown
  <2>2. ASSUME NEW r \in Run, PollAnswered(r)
        PROVE  shown' = shown \/ shown' \in [run : Known, status : Status \ {"voided"}]
    BY <2>2 DEF PollAnswered, Cards, Valid
  <2>3. ASSUME ActAnswered
        PROVE  shown' = shown \/ shown' \in [run : Known, status : Status \ {"voided"}]
    BY <2>3 DEF ActAnswered, Cards, Valid
  <2>4. \/ shown' = shown \/ shown' = None
        \/ \E r \in Run : PollAnswered(r)
        \/ ActAnswered
    BY DEF Next, User, Answers, Host, HostStep, People, client, card, Unmounted, Remount,
         SelectWorkspace, ShowSetup, ShowRuns, SelectRun, Type, Save, Refresh, StartRun, Act,
         LaunchAnswered, CardAnswered, CardFails, ButtonAnswered, SetupReady, SetupBlocked, Started, StartFails,
         ListAnswered, ListFails, ListDone, ListPoll, PollRead, PollFails,
         Admit, ActRuns, RunEnds
  <2> QED
    BY <2>1, <2>2, <2>3, <2>4 DEF Forms
<1>3. admitted' \in [Run -> Admission \cup {None}]
  <2>1. ASSUME NEW r \in Run, Admit(r) PROVE admitted' \in [Run -> Admission \cup {None}]
    <3>1. FlowCall \in Caller /\ flow.ws \in Workspace /\ FlowCall[2] = flow.ws /\ calls[FlowCall].at = "resolve"
      BY <2>1, Slots DEF Admit, Client, Flows, FlowCall, Resolve
    <3>2. file[flow.ws] \in Content /\ calls[FlowCall].raced \in Windows \cup {None}
      BY <3>1 DEF HostInv, HostType, Call
    <3>3. calls[FlowCall].read \in Content
      BY <3>1 DEF HostInv, Informed
    <3> QED
      BY <2>1, <3>2, <3>3 DEF Admit, Forms, Admission
  <2>2. admitted' = admitted \/ \E r \in Run : Admit(r)
    BY DEF Next, User, Answers, Host, HostStep, People,
         SelectWorkspace, ShowSetup, ShowRuns, SelectRun, Type, Save, Refresh, StartRun, Act,
         LaunchAnswered, CardAnswered, CardFails, ButtonAnswered, SetupReady, SetupBlocked, Started, StartFails,
         ListAnswered, ListFails, ListDone, ListPoll, PollRead, PollAnswered, PollFails,
         ActRuns, ActAnswered, RunEnds
  <2> QED
    BY <2>1, <2>2 DEF Forms
<1> QED
  BY <1>1, <1>2, <1>3, TimerKeeps DEF Forms

-----------------------------------------------------------------------------
(* The inductive invariant *)
IInv == HostInv /\ Admissions /\ Client /\ Cards /\ Forms

LEMMA Start == Init => IInv
<1> SUFFICES ASSUME Init PROVE IInv
  OBVIOUS
<1>1. Cards
  BY DEF Init, Cards, NoPolls
<1>2. Forms
  <2>1. OneTimer
    BY DEF Init, OneTimer
  <2>2. admitted \in [Run -> Admission \cup {None}]
    BY DEF Init
  <2> QED
    BY <2>1, <2>2 DEF Init, Forms
<1> QED
  BY <1>1, <1>2, HostStart, ClientStart DEF IInv

LEMMA Step == IInv /\ [Next]_vars => IInv'
<1> SUFFICES ASSUME IInv, [Next]_vars PROVE IInv'
  OBVIOUS
<1>1. CASE Next
  <2>1. HostMoves
    BY <1>1, StepOfHost DEF IInv, HostInv, Client
  <2>2. HostInv'
    BY <2>1, HostKeeps DEF IInv
  <2>3. Client' /\ Cards' /\ Admissions' /\ Forms'
    BY <1>1, ClientKeeps, CardsKeep, AdmittedKeeps, FormsKeep DEF IInv, HostInv
  <2> QED
    BY <2>2, <2>3 DEF IInv
<1>2. CASE UNCHANGED vars
  <2>1. HostInv' /\ Admissions'
    BY <1>2 DEF vars, hostVars, IInv, HostInv, HostType, Reporting, Informed, Admissions, AdmittedUnderBase,
                RulesMet, Clean
  <2>2. Client'
    BY <1>2, ClientIdles DEF vars, hostVars, client, IInv, HostInv
  <2>3. Cards' /\ Forms'
    BY <1>2 DEF vars, client, card, IInv, Cards, Forms, OneTimer, Known
  <2> QED
    BY <2>1, <2>2, <2>3 DEF IInv
<1> QED
  BY <1>1, <1>2

LEMMA Inductive == Spec => []IInv
  BY Start, Step, PTL DEF Spec

(* Types of the workbench and of the Host's calls, for any workspaces, runs,
   policies and bounds. *)
THEOREM WorkbenchType == Spec => []TypeOK
<1>1. IInv => TypeOK
  <2> SUFFICES ASSUME IInv PROVE TypeOK
    OBVIOUS
  <2>0. \A i \in 1..Len(lists) : lists[i] \in [for : {"timer", "flow"}, runs : SUBSET Run]
    <3>1. lists \in Seq([for : {"timer", "flow"}, runs : SUBSET Run])
      BY DEF IInv, Client, Lists
    <3> QED
      BY <3>1, ElementOfSeq
  <2>1. Len(lists) <= 2
    <3> SUFFICES ASSUME Len(lists) > 2 PROVE FALSE
      BY DEF IInv, Client, Lists
    <3>1. 1 \in 1..Len(lists) /\ 2 \in 1..Len(lists) /\ 3 \in 1..Len(lists)
      BY DEF IInv, Client, Lists
    <3>2. \A i \in {1, 2, 3} : lists[i].for \in {"timer", "flow"}
      BY <2>0, <3>1
    <3>3. \A i, j \in {1, 2, 3} : lists[i].for = lists[j].for => i = j
      BY <3>1, <3>2 DEF IInv, Client, Lists, Forms, OneTimer
    <3> QED
      BY <3>2, <3>3
  <2>2. lists \in Seq([for : {"timer", "flow"}, runs : SUBSET Known])
    <3>1. lists \in Seq([for : {"timer", "flow"}, runs : SUBSET Run])
      BY DEF IInv, Client, Lists
    <3>2. \A i \in 1..Len(lists) : lists[i] \in [for : {"timer", "flow"}, runs : SUBSET Known]
      BY <2>0 DEF IInv, Cards
    <3>3. lists \in [1..Len(lists) -> [for : {"timer", "flow"}, runs : SUBSET Known]] /\ Len(lists) \in Nat
      BY <3>1, <3>2, LenProperties
    <3> QED
      BY <3>3, SeqDef
  <2>3. own \in Run \cup {None}
    BY DEF IInv, Client, Owning, Known
  <2>4. sel \in Run \cup {None} /\ polls \in [Run -> Status \cup {None}]
    BY DEF IInv, Cards, Known
  <2>5. flow \in [at : {"idle", "setup", "start", "list"}, ws : Workspace \cup {None}, run : Run \cup {None}]
        /\ ws \in Workspace
    BY DEF IInv, Client, Flows
  <2> QED
    BY <2>1, <2>2, <2>3, <2>4, <2>5
       DEF IInv, HostInv, HostType, Call, Client, Runs, Editing, Cards, Forms, Admission, TypeOK
<1> QED
  BY <1>1, Inductive, PTL

(* A run is admitted under the policy of its base commit unless the file was
   written after git status had found the checkout clean, before HEAD was read
   or after it (git.ts inspect, service.ts start), for any workspaces, runs and
   policies. *)
THEOREM WorkbenchAdmits == Spec => []AdmittedUnderBase
<1>1. IInv => AdmittedUnderBase
  BY DEF IInv, Admissions
<1> QED
  BY <1>1, Inductive, PTL

(* The text that a save would send belongs to the selected workspace once its
   setup is on display, until an answer to a save or to a refresh of the setup
   that was asked for another workspace comes in (ArenaCard.tsx setup effect,
   savePolicy, refreshSetup). *)
THEOREM WorkbenchEdits == Spec => []EditorIsOfTarget
<1>1. IInv => EditorIsOfTarget
  BY DEF IInv, Client
<1> QED
  BY <1>1, Inductive, PTL

(* The run that startRun selected stays selected, in however many lists of runs
   are on their way (ArenaWorkbench.tsx:171). *)
THEOREM WorkbenchSelects == Spec => []StartedStaysSelected
<1>1. IInv => StartedStaysSelected
  BY DEF IInv, Client, Owning, StartedStaysSelected
<1> QED
  BY <1>1, Inductive, PTL

(* A save replaces only a revision that some report has read, or one that was
   written between its comparison and its write (policy.ts writeArenaPolicy). *)
THEOREM WorkbenchOverwrites == Spec => OverwritesOnlyReported
<1> DEFINE Overwrites ==
      \A w \in Workspace :
        LET c == <<"save", w>> IN
        Write(c) => \/ calls[c].raced # None
                    \/ file[w] = Absent
                    \/ file[w] \in reported[w] \cap Doc
<1>1. IInv => Overwrites
  <2> SUFFICES ASSUME IInv, NEW w \in Workspace, Write(<<"save", w>>), calls[<<"save", w>>].raced = None
               PROVE  file[w] = Absent \/ file[w] \in reported[w] \cap Doc
    BY DEF IInv
  <2>1. Informed(<<"save", w>>) /\ calls[<<"save", w>>].at = "write"
    BY Slots DEF IInv, HostInv, Write
  <2> QED
    BY <2>1 DEF Informed
<1>2. IInv /\ [Next]_vars => [Overwrites]_vars
  BY <1>1
<1> QED
  BY <1>2, Inductive, PTL DEF Spec, OverwritesOnlyReported
=============================================================================
