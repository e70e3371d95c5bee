-------------------------- MODULE AssemblyWorkflow --------------------------
(***************************************************************************)
(* Projects are proposed, proposals are put to the votings of an assembly, *)
(* and the workflow that completes the assembly writes the outcome of each *)
(* voting into its proposals and on into their projects; the minutes come  *)
(* after.  None of it runs in a database transaction but the creation of a *)
(* voting: every other write of WorkflowService, AssembliesService,        *)
(* ProposalsService, ProjectsService and MinutesService, and every read a  *)
(* later write relies on, is an action, and other requests, or a restart,  *)
(* come between any two.  How votes make an outcome is module Tally's      *)
(* matter and any outcome here; dates are left out.                        *)
(***************************************************************************)
EXTENDS Naturals, FiniteSets

CONSTANTS
    Assemblies, Votings, Proposals, Projects,   \* identifiers of rows
    Requests,       \* concurrent requests of officers
    Kinds,          \* the kinds of request the officers make
    Patches,        \* bodies of PATCH requests for a proposal
    None,           \* no row yet, no link, field left out of a body
    Gone,           \* a row that has been deleted
    MaxRestarts     \* bound on restarts of the server

AssemblyStatus == {"SCHEDULED", "IN_PROGRESS", "COMPLETED", "CANCELLED"}
ProposalStatus == {"PENDING", "APPROVED", "REJECTED"}
ProjectStatus == {"PROPOSED", "APPROVED", "IN_PROGRESS", "COMPLETED", "CANCELLED"}

\* canTransitionAssemblyStatus, and validateStatusTransition of the service
AssemblySteps ==
    {<<"SCHEDULED", "IN_PROGRESS">>, <<"SCHEDULED", "CANCELLED">>,
     <<"IN_PROGRESS", "COMPLETED">>, <<"IN_PROGRESS", "CANCELLED">>}

\* canTransitionProjectStatus, and validateStatusTransition of the service
ProjectSteps ==
    {<<"PROPOSED", "APPROVED">>, <<"APPROVED", "IN_PROGRESS">>,
     <<"IN_PROGRESS", "COMPLETED">>}
        \cup {<<s, "CANCELLED">> : s \in {"PROPOSED", "APPROVED", "IN_PROGRESS"}}

\* canTransitionProposalStatus, the table of the workflow
DecisionSteps == {<<"PENDING", "APPROVED">>, <<"PENDING", "REJECTED">>}

\* ProposalsService also lets a rejected proposal go back to review.
ProposalSteps == DecisionSteps \cup {<<"REJECTED", "PENDING">>}

Link(S) == S \cup {None}
Proposal == [status : ProposalStatus, project : Link(Projects),
             assembly : Link(Assemblies), voting : Link(Votings)]
Patch == [status : Link(ProposalStatus), project : Link(Projects),
          assembly : Link(Assemblies), voting : Link(Votings)]

ASSUME WorkflowAssumption ==
    /\ MaxRestarts \in Nat
    /\ Patches \subseteq Patch
    /\ {None, Gone} \cap (Assemblies \cup Votings \cup Proposals \cup Projects) = {}
    /\ {None, Gone} \cap (AssemblyStatus \cup ProposalStatus \cup ProjectStatus) = {}
    /\ {None, Gone} \cap Proposal = {}
    /\ None # Gone

VARIABLES
    assembly,   \* status of each assembly, None or Gone
    voting,     \* the assembly each voting belongs to, None or Gone
    proposal,   \* the row of each proposal, None or Gone
    project,    \* status of each project, None or Gone
    minutes,    \* how many rows of the minutes table each assembly has
    task,       \* the state of each request between two database calls
    restarts,   \* history: restarts of the server
    spoiled     \* history: what has come in the way of a workflow

db == <<assembly, voting, proposal, project, minutes>>
vars == <<db, task, restarts, spoiled>>

Listed == [id : Proposals, status : ProposalStatus, project : Link(Projects),
           projectStatus : Link(ProjectStatus)]
Links == [assembly : Link(Assemblies), voting : Link(Votings)]

Idle == [pc |-> "idle"]
ProposingTask ==
    [pc : {"insertProposal"}, project : Projects, assembly : Link(Assemblies)]
        \cup [pc : {"findAssembly"}, proposal : Proposals, wanted : Links]
        \cup [pc : {"assign"}, proposal : Proposals, links : Links, wanted : Links]
BallotTask ==
    [pc : {"ballot"}, assembly : Assemblies, proposal : Proposals]
        \cup [pc : {"link"}, proposal : Proposals, voting : Votings]
StatusTask ==
    [pc : {"startOrComplete", "writeAssembly"}, assembly : Assemblies, to : AssemblyStatus]
        \cup [pc : {"writeProposal"}, proposal : Proposals, to : ProposalStatus,
              project : Link(Projects)]
        \cup [pc : {"editProposal"}, proposal : Proposals, patch : Patches]
        \cup [pc : {"writeProject"}, project : Projects, to : ProjectStatus \ {"PROPOSED"}]
        \cup [pc : {"forceProject"}, project : Projects]
CompletionTask ==
    [pc : {"count"}, assembly : Assemblies, todo : SUBSET Votings]
        \cup [pc : {"proposals"}, assembly : Assemblies, todo : SUBSET Votings,
              voting : Votings, passed : BOOLEAN]
        \cup [pc : {"decide"}, assembly : Assemblies, todo : SUBSET Votings,
              passed : BOOLEAN, seen : SUBSET Listed]
        \cup [pc : {"approveProject"}, assembly : Assemblies, todo : SUBSET Votings,
              passed : BOOLEAN, seen : SUBSET Listed, project : Projects]
        \cup [pc : {"complete"}, assembly : Assemblies]
OtherTask ==
    [pc : {"deleteAssembly", "findMinutes", "insertMinutes"}, assembly : Assemblies]
        \cup [pc : {"deleteProposal"}, proposal : Proposals]
        \cup [pc : {"deleteProject"}, project : Projects]

TypeOK ==
    /\ assembly \in [Assemblies -> AssemblyStatus \cup {None, Gone}]
    /\ voting \in [Votings -> Assemblies \cup {None, Gone}]
    /\ proposal \in [Proposals -> Proposal \cup {None, Gone}]
    /\ project \in [Projects -> ProjectStatus \cup {None, Gone}]
    /\ minutes \in [Assemblies -> Nat]
    /\ task \in [Requests -> ProposingTask \cup BallotTask \cup StatusTask
                             \cup CompletionTask \cup OtherTask \cup {Idle}]
    /\ restarts \in 0 .. MaxRestarts
    /\ spoiled \subseteq {"race", "crash", "patch"}

Init ==
    /\ assembly = [a \in Assemblies |-> None]
    /\ voting = [v \in Votings |-> None]
    /\ proposal = [p \in Proposals |-> None]
    /\ project = [j \in Projects |-> None]
    /\ minutes = [a \in Assemblies |-> 0]
    /\ task = [r \in Requests |-> Idle]
    /\ restarts = 0
    /\ spoiled = {}

-----------------------------------------------------------------------------
Live(table) == {x \in DOMAIN table : table[x] \notin {None, Gone}}

VotingsOf(a) == {v \in Votings : voting[v] = a}
ProposalsIn(v) == {p \in Live(proposal) : proposal[p].voting = v}

Begin(r, kind, t) ==
    /\ kind \in Kinds
    /\ task[r] = Idle
    /\ task' = [task EXCEPT ![r] = t]

Continue(r, t) == task' = [task EXCEPT ![r] = t]
Finish(r) == Continue(r, Idle)

\* onDelete: SetNull, for the rows a proposal may be linked to
Detached(as, vs, js) ==
    [p \in Proposals |->
        IF p \in Live(proposal)
        THEN [proposal[p] EXCEPT !.assembly = IF @ \in as THEN None ELSE @,
                                 !.voting   = IF @ \in vs THEN None ELSE @,
                                 !.project  = IF @ \in js THEN None ELSE @]
        ELSE proposal[p]]

-----------------------------------------------------------------------------
(* What comes in the way of a workflow: a row that a request under way has *)
(* read and will write from is changed by another one ("race"), a restart  *)
(* falls between an approval and that of the project ("crash"), or a PATCH *)
(* approves a proposal past both workflows ("patch").                      *)
Completing == {"count", "proposals", "decide", "approveProject", "complete"}

\* All that the completion of an assembly reads.
Agenda(a) ==
    LET ps == UNION {ProposalsIn(v) : v \in VotingsOf(a)}
    IN  {a} \cup VotingsOf(a) \cup ps \cup {proposal[p].project : p \in ps}

ReliesOn(t) ==
    IF t.pc \in {"startOrComplete", "writeAssembly", "deleteAssembly",
                 "findMinutes", "insertMinutes"} THEN {t.assembly}
    ELSE IF t.pc \in {"writeProposal", "editProposal", "deleteProposal"} THEN {t.proposal}
    ELSE IF t.pc \in {"writeProject", "deleteProject"} THEN {t.project}
    ELSE IF t.pc \in Completing THEN Agenda(t.assembly) \cup Agenda(t.assembly)'
    ELSE {}

Changed ==
    {a \in Assemblies : assembly'[a] # assembly[a]}
        \cup {v \in Votings : voting'[v] # voting[v]}
        \cup {p \in Proposals : proposal'[p] # proposal[p]}
        \cup {j \in Projects : project'[j] # project[j]}

Races ==
    \E r \in Requests : task'[r] = task[r] /\ ReliesOn(task[r]) \cap Changed # {}

Crashes ==
    /\ restarts' # restarts
    /\ \E r \in Requests : task[r].pc \in {"approveProject", "forceProject"}

Patched ==
    \E r \in Requests : /\ task[r].pc = "editProposal"
                        /\ task[r].patch.status = "APPROVED"
                        /\ proposal' # proposal

Track ==
    spoiled' = spoiled \cup (IF Races THEN {"race"} ELSE {})
                       \cup (IF Crashes THEN {"crash"} ELSE {})
                       \cup (IF Patched THEN {"patch"} ELSE {})

-----------------------------------------------------------------------------
(* Proposing.  A project comes with its proposal and, when an assembly is  *)
(* scheduled, a voting of that assembly for it; dates decide which of the  *)
(* scheduled assemblies is the next one, if any.                           *)
NextAssemblies == {a \in Assemblies : assembly[a] = "SCHEDULED"} \cup {None}

CreateProject(r, j, a) ==
    /\ project[j] = None
    /\ a \in NextAssemblies
    /\ Begin(r, "createProject", [pc |-> "insertProposal", project |-> j, assembly |-> a])
    /\ project' = [project EXCEPT ![j] = "PROPOSED"]
    /\ UNCHANGED <<assembly, voting, proposal, minutes, restarts>>
    /\ Track

\* Refused by the foreign keys when the project or the assembly is gone.
InsertProposal(r, p) ==
    /\ task[r].pc = "insertProposal"
    /\ proposal[p] = None
    /\ LET j == task[r].project
           a == task[r].assembly
       IN  IF j \in Live(project) /\ a \in Link(Live(assembly))
           THEN /\ proposal' = [proposal EXCEPT ![p] =
                       [status |-> "PENDING", project |-> j, assembly |-> a, voting |-> None]]
                /\ Continue(r, IF a = None THEN Idle
                               ELSE [pc |-> "ballot", assembly |-> a, proposal |-> p])
           ELSE Finish(r) /\ UNCHANGED proposal
    /\ UNCHANGED <<assembly, voting, project, minutes, restarts>>
    /\ Track

\* A new voting of the assembly ...
OpenBallot(r, v) ==
    /\ task[r].pc = "ballot"
    /\ voting[v] = None
    /\ LET a == task[r].assembly
       IN  IF a \in Live(assembly)
           THEN /\ voting' = [voting EXCEPT ![v] = a]
                /\ Continue(r, [pc |-> "link", proposal |-> task[r].proposal, voting |-> v])
           ELSE Finish(r) /\ UNCHANGED voting
    /\ UNCHANGED <<assembly, proposal, project, minutes, restarts>>
    /\ Track

\* ... and the proposal put to it, whatever voting it was put to meanwhile.
LinkProposal(r) ==
    /\ task[r].pc = "link"
    /\ LET p == task[r].proposal
       IN  IF p \in Live(proposal) /\ task[r].voting \in Live(voting)
           THEN proposal' = [proposal EXCEPT ![p].voting = task[r].voting]
           ELSE UNCHANGED proposal
    /\ Finish(r)
    /\ UNCHANGED <<assembly, voting, project, minutes, restarts>>
    /\ Track

NoLinks == [assembly |-> None, voting |-> None]

\* What is left to assign after the next assembly: the links of the body.
AfterAssign(p, wanted) ==
    IF wanted = NoLinks THEN Idle
    ELSE [pc |-> "assign", proposal |-> p, links |-> wanted, wanted |-> NoLinks]

CreateProposal(r, p, j, wanted) ==
    /\ proposal[p] = None
    /\ j \in Link(Live(project))
    /\ wanted.assembly \in Link(Live(assembly))
    /\ wanted.voting \in Link(Live(voting))
    /\ Begin(r, "createProposal", [pc |-> "findAssembly", proposal |-> p, wanted |-> wanted])
    /\ proposal' = [proposal EXCEPT ![p] =
           [status |-> "PENDING", project |-> j, assembly |-> None, voting |-> None]]
    /\ UNCHANGED <<assembly, voting, project, minutes, restarts>>
    /\ Track

FindAssembly(r, a) ==
    /\ task[r].pc = "findAssembly"
    /\ a \in NextAssemblies
    /\ LET p == task[r].proposal
       IN  Continue(r, IF a = None THEN AfterAssign(p, task[r].wanted)
                       ELSE [pc |-> "assign", proposal |-> p, wanted |-> task[r].wanted,
                             links |-> [assembly |-> a, voting |-> None]])
    /\ UNCHANGED <<db, restarts>>
    /\ Track

\* A field left out of a body keeps its value.
Assign(r) ==
    /\ task[r].pc = "assign"
    /\ LET p == task[r].proposal
           links == task[r].links
       IN  IF /\ p \in Live(proposal)
              /\ links.assembly \in Link(Live(assembly))
              /\ links.voting \in Link(Live(voting))
           THEN /\ proposal' = [proposal EXCEPT
                       ![p].assembly = IF links.assembly = None THEN @ ELSE links.assembly,
                       ![p].voting = IF links.voting = None THEN @ ELSE links.voting]
                /\ Continue(r, AfterAssign(p, task[r].wanted))
           ELSE Finish(r) /\ UNCHANGED proposal
    /\ UNCHANGED <<assembly, voting, project, minutes, restarts>>
    /\ Track

\* No controller hands over proposals for the workflow to put to votings.
CreateAssembly(r, a) ==
    /\ assembly[a] = None
    /\ Begin(r, "createAssembly", Idle)
    /\ assembly' = [assembly EXCEPT ![a] = "SCHEDULED"]
    /\ UNCHANGED <<voting, proposal, project, minutes, restarts>>
    /\ Track

\* VotingService.create inserts a voting and its proposals at once.
CreateVoting(r, v, a, ps) ==
    /\ voting[v] = None
    /\ a \in Live(assembly)
    /\ \A p \in ps : proposal[p] = None
    /\ Begin(r, "createVoting", Idle)
    /\ voting' = [voting EXCEPT ![v] = a]
    /\ proposal' = [p \in Proposals |->
           IF p \in ps
           THEN [status |-> "PENDING", project |-> None, assembly |-> a, voting |-> v]
           ELSE proposal[p]]
    /\ UNCHANGED <<assembly, project, minutes, restarts>>
    /\ Track

RemoveVoting(r, v) ==
    /\ v \in Live(voting)
    /\ Begin(r, "removeVoting", Idle)
    /\ voting' = [voting EXCEPT ![v] = Gone]
    /\ proposal' = Detached({}, {v}, {})
    /\ UNCHANGED <<assembly, project, minutes, restarts>>
    /\ Track

-----------------------------------------------------------------------------
(* The status of an assembly: PATCH writes any step of the table, PUT      *)
(* starts and completes through the workflow.                              *)
ReadAssembly(r, a, s) ==
    /\ a \in Live(assembly)
    /\ <<assembly[a], s>> \in AssemblySteps
    /\ \/ Begin(r, "patchAssembly", [pc |-> "writeAssembly", assembly |-> a, to |-> s])
       \/ /\ s = "CANCELLED"
          /\ Begin(r, "assemblyStatus", [pc |-> "writeAssembly", assembly |-> a, to |-> s])
       \/ /\ s # "CANCELLED"
          /\ Begin(r, "assemblyStatus", [pc |-> "startOrComplete", assembly |-> a, to |-> s])
    /\ UNCHANGED <<db, restarts>>
    /\ Track

AfterVoting(a, todo) ==
    IF todo = {} THEN [pc |-> "complete", assembly |-> a]
    ELSE [pc |-> "count", assembly |-> a, todo |-> todo]

AfterProposal(a, todo, passed, seen) ==
    IF seen = {} THEN AfterVoting(a, todo)
    ELSE [pc |-> "decide", assembly |-> a, todo |-> todo, passed |-> passed, seen |-> seen]

\* startAssembly and completeAssembly read the assembly once more.
StartOrComplete(r) ==
    /\ task[r].pc = "startOrComplete"
    /\ LET a == task[r].assembly
           s == task[r].to
       IN  Continue(r, IF a \notin Live(assembly) \/ <<assembly[a], s>> \notin AssemblySteps
                       THEN Idle
                       ELSE IF s = "COMPLETED" THEN AfterVoting(a, VotingsOf(a))
                       ELSE [pc |-> "writeAssembly", assembly |-> a, to |-> s])
    /\ UNCHANGED <<db, restarts>>
    /\ Track

WriteAssembly(r) ==
    /\ task[r].pc = "writeAssembly"
    /\ IF task[r].assembly \in Live(assembly)
       THEN assembly' = [assembly EXCEPT ![task[r].assembly] = task[r].to]
       ELSE UNCHANGED assembly
    /\ Finish(r)
    /\ UNCHANGED <<voting, proposal, project, minutes, restarts>>
    /\ Track

\* calculateVotingResults throws when the voting is gone, and the
\* completion ends with what it has written so far.
CountVotes(r, v, passed) ==
    /\ task[r].pc = "count"
    /\ v \in task[r].todo
    /\ Continue(r, IF v \in Live(voting)
                   THEN [pc |-> "proposals", assembly |-> task[r].assembly,
                         todo |-> task[r].todo \ {v}, voting |-> v, passed |-> passed]
                   ELSE Idle)
    /\ UNCHANGED <<db, restarts>>
    /\ Track

ListProposals(r) ==
    /\ task[r].pc = "proposals"
    /\ LET row(p) == proposal[p]
           listed == {[id |-> p, status |-> row(p).status, project |-> row(p).project,
                       projectStatus |-> IF row(p).project = None THEN None
                                         ELSE project[row(p).project]] :
                         p \in ProposalsIn(task[r].voting)}
       IN  Continue(r, AfterProposal(task[r].assembly, task[r].todo, task[r].passed, listed))
    /\ UNCHANGED <<db, restarts>>
    /\ Track

\* Faulty form: canTransitionProposalStatus is not asked.
DecideAgain(r, x) ==
    /\ task[r].pc = "decide"
    /\ x \in task[r].seen
    /\ LET t == task[r]
           next == AfterProposal(t.assembly, t.todo, t.passed, t.seen \ {x})
       IN  IF x.id \notin Live(proposal)
           THEN Finish(r) /\ UNCHANGED proposal
           ELSE /\ proposal' = [proposal EXCEPT
                       ![x.id].status = IF t.passed THEN "APPROVED" ELSE "REJECTED"]
                /\ Continue(r, next)
    /\ UNCHANGED <<assembly, voting, project, minutes, restarts>>
    /\ Track

\* Faulty form: only approvals are written.
DecideApprovals(r, x) ==
    /\ task[r].pc = "decide"
    /\ x \in task[r].seen
    /\ LET t == task[r]
       IN  /\ proposal' = IF t.passed /\ x.status = "PENDING" /\ x.id \in Live(proposal)
                          THEN [proposal EXCEPT ![x.id].status = "APPROVED"]
                          ELSE proposal
           /\ Continue(r, AfterProposal(t.assembly, t.todo, t.passed, t.seen \ {x}))
    /\ UNCHANGED <<assembly, voting, project, minutes, restarts>>
    /\ Track

\* Statuses are judged as they were when the proposals were listed.
DecideProposal(r, x) ==
    /\ task[r].pc = "decide"
    /\ x \in task[r].seen
    /\ LET t == task[r]
           s == IF t.passed THEN "APPROVED" ELSE "REJECTED"
           next == AfterProposal(t.assembly, t.todo, t.passed, t.seen \ {x})
       IN  IF <<x.status, s>> \notin DecisionSteps
           THEN Continue(r, next) /\ UNCHANGED proposal
           ELSE IF x.id \notin Live(proposal)
           THEN Finish(r) /\ UNCHANGED proposal
           ELSE /\ proposal' = [proposal EXCEPT ![x.id].status = s]
                /\ Continue(r, IF t.passed /\ <<x.projectStatus, "APPROVED">> \in ProjectSteps
                               THEN [pc |-> "approveProject", assembly |-> t.assembly,
                                     todo |-> t.todo, passed |-> t.passed,
                                     seen |-> t.seen \ {x}, project |-> x.project]
                               ELSE next)
    /\ UNCHANGED <<assembly, voting, project, minutes, restarts>>
    /\ Track

ApproveProject(r) ==
    /\ task[r].pc = "approveProject"
    /\ LET t == task[r]
       IN  IF t.project \in Live(project)
           THEN /\ project' = [project EXCEPT ![t.project] = "APPROVED"]
                /\ Continue(r, AfterProposal(t.assembly, t.todo, t.passed, t.seen))
           ELSE Finish(r) /\ UNCHANGED project
    /\ UNCHANGED <<assembly, voting, proposal, minutes, restarts>>
    /\ Track

CompleteAssembly(r) ==
    /\ task[r].pc = "complete"
    /\ IF task[r].assembly \in Live(assembly)
       THEN assembly' = [assembly EXCEPT ![task[r].assembly] = "COMPLETED"]
       ELSE UNCHANGED assembly
    /\ Finish(r)
    /\ UNCHANGED <<voting, proposal, project, minutes, restarts>>
    /\ Track

-----------------------------------------------------------------------------
(* The status of a proposal, its other fields, and its removal.            *)
ReadProposal(r, p, s) ==
    /\ p \in Live(proposal)
    /\ <<proposal[p].status, s>> \in ProposalSteps
    /\ Begin(r, "proposalStatus", [pc |-> "writeProposal", proposal |-> p, to |-> s,
                                   project |-> proposal[p].project])
    /\ UNCHANGED <<db, restarts>>
    /\ Track

\* Faulty form: the project is not approved with its proposal.
WriteProposalAlone(r) ==
    /\ task[r].pc = "writeProposal"
    /\ proposal' = IF task[r].proposal \in Live(proposal)
                   THEN [proposal EXCEPT ![task[r].proposal].status = task[r].to]
                   ELSE proposal
    /\ Finish(r)
    /\ UNCHANGED <<assembly, voting, project, minutes, restarts>>
    /\ Track

WriteProposal(r) ==
    /\ task[r].pc = "writeProposal"
    /\ LET t == task[r]
       IN  IF t.proposal \in Live(proposal)
           THEN /\ proposal' = [proposal EXCEPT ![t.proposal].status = t.to]
                /\ Continue(r, IF t.to = "APPROVED" /\ t.project # None
                               THEN [pc |-> "forceProject", project |-> t.project]
                               ELSE Idle)
           ELSE Finish(r) /\ UNCHANGED proposal
    /\ UNCHANGED <<assembly, voting, project, minutes, restarts>>
    /\ Track

\* handleProjectApproval asks nothing of the project's status, and
\* swallows the error when there is no project any more.
ForceProject(r) ==
    /\ task[r].pc = "forceProject"
    /\ IF task[r].project \in Live(project)
       THEN project' = [project EXCEPT ![task[r].project] = "APPROVED"]
       ELSE UNCHANGED project
    /\ Finish(r)
    /\ UNCHANGED <<assembly, voting, proposal, minutes, restarts>>
    /\ Track

ReadForEdit(r, p, patch) ==
    /\ p \in Live(proposal)
    /\ proposal[p].status = "PENDING"
    /\ Begin(r, "editProposal", [pc |-> "editProposal", proposal |-> p, patch |-> patch])
    /\ UNCHANGED <<db, restarts>>
    /\ Track

\* A field left out of a body keeps its value.
Merge(row, patch) ==
    [status   |-> IF patch.status = None THEN row.status ELSE patch.status,
     project  |-> IF patch.project = None THEN row.project ELSE patch.project,
     assembly |-> IF patch.assembly = None THEN row.assembly ELSE patch.assembly,
     voting   |-> IF patch.voting = None THEN row.voting ELSE patch.voting]

EditProposal(r) ==
    /\ task[r].pc = "editProposal"
    /\ LET p == task[r].proposal
           patch == task[r].patch
       IN  IF /\ p \in Live(proposal)
              /\ patch.project \in Link(Live(project))
              /\ patch.assembly \in Link(Live(assembly))
              /\ patch.voting \in Link(Live(voting))
           THEN proposal' = [proposal EXCEPT ![p] = Merge(@, patch)]
           ELSE UNCHANGED proposal
    /\ Finish(r)
    /\ UNCHANGED <<assembly, voting, project, minutes, restarts>>
    /\ Track

ReadForRemoveProposal(r, p) ==
    /\ p \in Live(proposal)
    /\ proposal[p].status # "APPROVED"
    /\ Begin(r, "removeProposal", [pc |-> "deleteProposal", proposal |-> p])
    /\ UNCHANGED <<db, restarts>>
    /\ Track

DeleteProposal(r) ==
    /\ task[r].pc = "deleteProposal"
    /\ IF task[r].proposal \in Live(proposal)
       THEN proposal' = [proposal EXCEPT ![task[r].proposal] = Gone]
       ELSE UNCHANGED proposal
    /\ Finish(r)
    /\ UNCHANGED <<assembly, voting, project, minutes, restarts>>
    /\ Track

-----------------------------------------------------------------------------
(* Projects, by PATCH or PUT, and the removal of projects and assemblies.  *)
ReadProject(r, j, s) ==
    /\ j \in Live(project)
    /\ <<project[j], s>> \in ProjectSteps
    /\ Begin(r, "projectStatus", [pc |-> "writeProject", project |-> j, to |-> s])
    /\ UNCHANGED <<db, restarts>>
    /\ Track

WriteProject(r) ==
    /\ task[r].pc = "writeProject"
    /\ IF task[r].project \in Live(project)
       THEN project' = [project EXCEPT ![task[r].project] = task[r].to]
       ELSE UNCHANGED project
    /\ Finish(r)
    /\ UNCHANGED <<assembly, voting, proposal, minutes, restarts>>
    /\ Track

ReadForRemoveProject(r, j) ==
    /\ j \in Live(project)
    /\ project[j] = "PROPOSED"
    /\ Begin(r, "removeProject", [pc |-> "deleteProject", project |-> j])
    /\ UNCHANGED <<db, restarts>>
    /\ Track

DeleteProject(r) ==
    /\ task[r].pc = "deleteProject"
    /\ LET j == task[r].project
       IN  IF j \in Live(project)
           THEN /\ project' = [project EXCEPT ![j] = Gone]
                /\ proposal' = Detached({}, {}, {j})
           ELSE UNCHANGED <<project, proposal>>
    /\ Finish(r)
    /\ UNCHANGED <<assembly, voting, minutes, restarts>>
    /\ Track

\* Only an empty assembly may go ...
ReadForRemoveAssembly(r, a) ==
    /\ assembly[a] = "SCHEDULED"
    /\ VotingsOf(a) = {}
    /\ \A p \in Live(proposal) : proposal[p].assembly # a
    /\ minutes[a] = 0
    /\ Begin(r, "removeAssembly", [pc |-> "deleteAssembly", assembly |-> a])
    /\ UNCHANGED <<db, restarts>>
    /\ Track

\* ... but its votings and minutes go with it if there are some by now.
DeleteAssembly(r) ==
    /\ task[r].pc = "deleteAssembly"
    /\ LET a == task[r].assembly
       IN  IF a \in Live(assembly)
           THEN /\ assembly' = [assembly EXCEPT ![a] = Gone]
                /\ voting' = [v \in Votings |-> IF voting[v] = a THEN Gone ELSE voting[v]]
                /\ proposal' = Detached({a}, VotingsOf(a), {})
                /\ minutes' = [minutes EXCEPT ![a] = 0]
           ELSE UNCHANGED <<assembly, voting, proposal, minutes>>
    /\ Finish(r)
    /\ UNCHANGED <<project, restarts>>
    /\ Track

-----------------------------------------------------------------------------
(* MinutesService.create                                                   *)
\* Faulty form: an assembly that has begun will do.
ReadForMinutesEarly(r, a) ==
    /\ assembly[a] \in {"IN_PROGRESS", "COMPLETED"}
    /\ Begin(r, "minutes", [pc |-> "findMinutes", assembly |-> a])
    /\ UNCHANGED <<db, restarts>>
    /\ Track

ReadForMinutes(r, a) ==
    /\ assembly[a] = "COMPLETED"
    /\ Begin(r, "minutes", [pc |-> "findMinutes", assembly |-> a])
    /\ UNCHANGED <<db, restarts>>
    /\ Track

FindMinutes(r) ==
    /\ task[r].pc = "findMinutes"
    /\ Continue(r, IF minutes[task[r].assembly] = 0
                   THEN [pc |-> "insertMinutes", assembly |-> task[r].assembly]
                   ELSE Idle)
    /\ UNCHANGED <<db, restarts>>
    /\ Track

\* Faulty form: without the unique key of the table.
InsertNoUniqueKey(r) ==
    /\ task[r].pc = "insertMinutes"
    /\ LET a == task[r].assembly
       IN  IF a \in Live(assembly)
           THEN minutes' = [minutes EXCEPT ![a] = @ + 1]
           ELSE UNCHANGED minutes
    /\ Finish(r)
    /\ UNCHANGED <<assembly, voting, proposal, project, restarts>>
    /\ Track

\* Refused by the unique key on the assembly, or by the foreign key.
InsertMinutes(r) ==
    /\ task[r].pc = "insertMinutes"
    /\ LET a == task[r].assembly
       IN  IF a \in Live(assembly) /\ minutes[a] = 0
           THEN minutes' = [minutes EXCEPT ![a] = @ + 1]
           ELSE UNCHANGED minutes
    /\ Finish(r)
    /\ UNCHANGED <<assembly, voting, proposal, project, restarts>>
    /\ Track

\* The requests under way are lost with the process; without any, nothing is.
Restart ==
    /\ restarts < MaxRestarts
    /\ \E r \in Requests : task[r] # Idle
    /\ restarts' = restarts + 1
    /\ task' = [r \in Requests |-> Idle]
    /\ UNCHANGED db
    /\ Track

-----------------------------------------------------------------------------
Proposing(r) ==
    \/ \E j \in Projects, a \in Link(Assemblies) : CreateProject(r, j, a)
    \/ \E p \in Proposals : InsertProposal(r, p)
    \/ \E v \in Votings : OpenBallot(r, v)
    \/ LinkProposal(r)
    \/ \E p \in Proposals, j \in Link(Projects), w \in Links : CreateProposal(r, p, j, w)
    \/ \E a \in Link(Assemblies) : FindAssembly(r, a)
    \/ Assign(r)
    \/ \E a \in Assemblies : CreateAssembly(r, a)
    \/ \E v \in Votings, a \in Assemblies, ps \in SUBSET Proposals :
           CreateVoting(r, v, a, ps)
    \/ \E v \in Votings : RemoveVoting(r, v)

Assembling(r) ==
    \/ \E a \in Assemblies, s \in AssemblyStatus : ReadAssembly(r, a, s)
    \/ StartOrComplete(r)
    \/ WriteAssembly(r)
    \/ \E v \in Votings, passed \in BOOLEAN : CountVotes(r, v, passed)
    \/ ListProposals(r)
    \/ \E x \in (IF task[r].pc = "decide" THEN task[r].seen ELSE {}) : DecideProposal(r, x)
    \/ ApproveProject(r)
    \/ CompleteAssembly(r)
    \/ \E a \in Assemblies : ReadForRemoveAssembly(r, a) \/ ReadForMinutes(r, a)
    \/ DeleteAssembly(r)
    \/ FindMinutes(r)
    \/ InsertMinutes(r)

Deciding(r) ==
    \/ \E p \in Proposals, s \in ProposalStatus : ReadProposal(r, p, s)
    \/ WriteProposal(r)
    \/ ForceProject(r)
    \/ \E p \in Proposals, patch \in Patches : ReadForEdit(r, p, patch)
    \/ EditProposal(r)
    \/ \E p \in Proposals : ReadForRemoveProposal(r, p)
    \/ DeleteProposal(r)
    \/ \E j \in Projects, s \in ProjectStatus : ReadProject(r, j, s)
    \/ WriteProject(r)
    \/ \E j \in Projects : ReadForRemoveProject(r, j)
    \/ DeleteProject(r)

Next == Restart \/ \E r \in Requests : Proposing(r) \/ Assembling(r) \/ Deciding(r)

Spec == Init /\ [][Next]_vars
-----------------------------------------------------------------------------
(* Unless something has come in the way, the approval of a proposal is     *)
(* also that of its project: none stays PROPOSED once the request that     *)
(* approved the proposal is done (steps 3 and 4 of processVotingResults,   *)
(* updateStatus of ProposalsService).                                      *)
ApprovedMovesProject ==
    spoiled = {} =>
        \A p \in Live(proposal) :
            proposal[p].status = "APPROVED" /\ proposal[p].project # None =>
                \/ project[proposal[p].project] # "PROPOSED"
                \/ \E r \in Requests :
                       /\ task[r].pc \in {"approveProject", "forceProject"}
                       /\ task[r].project = proposal[p].project

(* Without a race, and whatever attempts failed or were cut short before,  *)
(* the completion of an assembly leaves no proposal of its votings pending *)
(* (completeAssembly).                                                     *)
CompletionDecides ==
    [][\A r \in Requests :
          task[r].pc = "complete" /\ task'[r] # task[r] /\ restarts' = restarts
                  /\ "race" \notin spoiled' =>
              \A p \in Live(proposal) :
                  proposal[p].voting \in VotingsOf(task[r].assembly) =>
                      proposal[p].status # "PENDING"]_vars

(* Without a race an approved proposal is neither undone nor removed, and  *)
(* a rejected one is only ever taken back to review: no second completion  *)
(* and no PATCH decides again (canTransitionProposalStatus, the guards of  *)
(* update and remove).                                                     *)
DecisionsStand ==
    [][\A p \in Live(proposal) : "race" \notin spoiled' =>
          IF proposal'[p] = Gone THEN proposal[p].status # "APPROVED"
          ELSE \/ proposal'[p].status = proposal[p].status
               \/ <<proposal[p].status, proposal'[p].status>> \in ProposalSteps]_vars

(* Without a race there are minutes of completed assemblies only           *)
(* (MinutesService.create, the tables of assembly statuses).               *)
MinutesAfterCompletion ==
    "race" \notin spoiled =>
        \A a \in Assemblies : minutes[a] > 0 => assembly[a] = "COMPLETED"

(* Two secretaries who both find no minutes do not both write them.        *)
OneMinutesPerAssembly == \A a \in Assemblies : minutes[a] <= 1

(* "Los proyectos completados no pueden cambiar de estado", nor can the    *)
(* cancelled ones (projects.service.ts, validateStatusTransition).         *)
FinishedProjectStays ==
    [][\A j \in Projects :
          project[j] \in {"COMPLETED", "CANCELLED"} => project'[j] = project[j]]_vars
=============================================================================
