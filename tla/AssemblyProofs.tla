--------------------------- MODULE AssemblyProofs ---------------------------
(***************************************************************************)
(* What the decision workflow promises for any assemblies, votings,        *)
(* proposals, projects, requests and bodies.                               *)
(***************************************************************************)
EXTENDS AssemblyWorkflow, TLAPS

Task == ProposingTask \cup BallotTask \cup StatusTask \cup CompletionTask
            \cup OtherTask \cup {Idle}

-----------------------------------------------------------------------------
(* The state of a request: the step it is at determines its fields.        *)

LEMMA ProposingFields ==
    ASSUME NEW t \in Task
    PROVE  /\ t.pc = "insertProposal" => t.project \in Projects /\ t.assembly \in Link(Assemblies)
           /\ t.pc = "findAssembly" => t.proposal \in Proposals /\ t.wanted \in Links
           /\ t.pc = "assign" => t.proposal \in Proposals /\ t.links \in Links /\ t.wanted \in Links
           /\ t.pc = "ballot" => t.assembly \in Assemblies /\ t.proposal \in Proposals
           /\ t.pc = "link" => t.proposal \in Proposals /\ t.voting \in Votings
BY DEF Task, ProposingTask, BallotTask, StatusTask, CompletionTask, OtherTask, Idle

LEMMA StatusFields ==
    ASSUME NEW t \in Task
    PROVE  /\ t.pc \in {"startOrComplete", "writeAssembly"} =>
                  t.assembly \in Assemblies /\ t.to \in AssemblyStatus
           /\ t.pc = "writeProposal" => /\ t.proposal \in Proposals
                                        /\ t.to \in ProposalStatus
                                        /\ t.project \in Link(Projects)
           /\ t.pc = "editProposal" => t.proposal \in Proposals /\ t.patch \in Patches
           /\ t.pc = "writeProject" =>
                  t.project \in Projects /\ t.to \in ProjectStatus \ {"PROPOSED"}
           /\ t.pc = "forceProject" => t.project \in Projects
BY DEF Task, ProposingTask, BallotTask, StatusTask, CompletionTask, OtherTask, Idle

LEMMA CompletionFields ==
    ASSUME NEW t \in Task
    PROVE  /\ t.pc \in Completing => t.assembly \in Assemblies
           /\ t.pc \in Completing \ {"complete"} => t.todo \in SUBSET Votings
           /\ t.pc = "proposals" => t.voting \in Votings
           /\ t.pc \in {"proposals", "decide", "approveProject"} => t.passed \in BOOLEAN
           /\ t.pc \in {"decide", "approveProject"} => t.seen \in SUBSET Listed
           /\ t.pc = "approveProject" => t.project \in Projects
BY DEF Task, ProposingTask, BallotTask, StatusTask, CompletionTask, OtherTask, Idle, Completing

LEMMA OtherFields ==
    ASSUME NEW t \in Task
    PROVE  /\ t.pc \in {"deleteAssembly", "findMinutes", "insertMinutes"} =>
                  t.assembly \in Assemblies
           /\ t.pc = "deleteProposal" => t.proposal \in Proposals
           /\ t.pc = "deleteProject" => t.project \in Projects
BY DEF Task, ProposingTask, BallotTask, StatusTask, CompletionTask, OtherTask, Idle

-----------------------------------------------------------------------------
(* The tables, and what a step makes of them and of its own request.       *)

TablesOK ==
    /\ assembly \in [Assemblies -> AssemblyStatus \cup {None, Gone}]
    /\ voting \in [Votings -> Assemblies \cup {None, Gone}]
    /\ proposal \in [Proposals -> Proposal \cup {None, Gone}]
    /\ project \in [Projects -> ProjectStatus \cup {None, Gone}]
    /\ minutes \in [Assemblies -> Nat]

\* No proposal refers to a project that is not there.
ProjectsLinked ==
    \A p \in Live(proposal) : proposal[p].project \in Link(Live(project))

\* A request that has listed proposals with their projects ...
ListsProjects(t) ==
    t.pc \in {"decide", "approveProject"} =>
        \A x \in t.seen : x.project = None => x.projectStatus = None

IInv ==
    /\ TypeOK
    /\ ProjectsLinked
    /\ \A r \in Requests : ListsProjects(task[r])

\* One request takes a step to a state of its own.
Moves(r) ==
    \E t \in Task : ListsProjects(t) /\ Continue(r, t)

Kept == Track /\ restarts' = restarts

LEMMA LiveRows ==
    ASSUME TablesOK
    PROVE  /\ \A a : a \in Live(assembly) => a \in Assemblies /\ assembly[a] \in AssemblyStatus
           /\ \A v : v \in Live(voting) => v \in Votings /\ voting[v] \in Assemblies
           /\ \A p : p \in Live(proposal) => p \in Proposals /\ proposal[p] \in Proposal
           /\ \A j : j \in Live(project) => j \in Projects /\ project[j] \in ProjectStatus
BY DEF TablesOK, Live

LEMMA TypeParts ==
    TypeOK <=> /\ TablesOK
               /\ task \in [Requests -> Task]
               /\ restarts \in 0 .. MaxRestarts
               /\ spoiled \subseteq {"race", "crash", "patch"}
BY DEF TypeOK, TablesOK, Task

\* A proposal keeps its project or gets one that is there, and none goes.
LEMMA LinksKept ==
    ASSUME ProjectsLinked,
           Live(project) \subseteq Live(project'),
           \A p \in Live(proposal') :
               \/ p \in Live(proposal) /\ proposal'[p].project = proposal[p].project
               \/ proposal'[p].project \in Link(Live(project'))
    PROVE  ProjectsLinked'
BY DEF ProjectsLinked, Link

LEMMA StepTyped ==
    ASSUME IInv, NEW r \in Requests, Moves(r), Kept, TablesOK', ProjectsLinked'
    PROVE  IInv'
<1>1. PICK t \in Task : ListsProjects(t) /\ task' = [task EXCEPT ![r] = t]
    BY DEF Moves, Continue
<1>2. task \in [Requests -> Task]
    BY TypeParts DEF IInv
<1>3. task' \in [Requests -> Task]
    BY <1>1, <1>2
<1>4. \A q \in Requests : task'[q] = task[q] \/ task'[q] = t
    BY <1>1, <1>2
<1>5. \A q \in Requests : ListsProjects(task'[q])
    BY <1>1, <1>4 DEF IInv
<1>6. spoiled' \subseteq {"race", "crash", "patch"} /\ restarts' \in 0 .. MaxRestarts
    BY TypeParts DEF IInv, Kept, Track
<1>7. TypeOK'
    BY <1>3, <1>6 DEF TypeOK, TablesOK, Task
<1>. QED BY <1>5, <1>7 DEF IInv

LEMMA MovesTo ==
    ASSUME NEW r \in Requests, NEW t \in Task, ListsProjects(t), Continue(r, t)
    PROVE  Moves(r)
BY DEF Moves

LEMMA IdleTask == Idle \in Task /\ ListsProjects(Idle)
BY DEF Task, Idle, ListsProjects

LEMMA ProposalWritten ==
    ASSUME TablesOK, NEW p \in Proposals, NEW row \in Proposal \cup {None, Gone},
           proposal' = [proposal EXCEPT ![p] = row]
    PROVE  /\ proposal' \in [Proposals -> Proposal \cup {None, Gone}]
           /\ \A q \in Live(proposal') :
                  \/ q = p /\ proposal'[q] = row
                  \/ q \in Live(proposal) /\ proposal'[q] = proposal[q]
BY DEF TablesOK, Live

LEMMA ProposalLinked ==
    ASSUME TablesOK, ProjectsLinked, NEW p \in Proposals,
           NEW row \in Proposal \cup {None, Gone},
           proposal' = [proposal EXCEPT ![p] = row], project' = project,
           row \in Proposal => row.project \in Link(Live(project))
    PROVE  /\ proposal' \in [Proposals -> Proposal \cup {None, Gone}]
           /\ ProjectsLinked'
<1>1. \A q \in Live(proposal') :
          \/ q = p /\ proposal'[q] = row
          \/ q \in Live(proposal) /\ proposal'[q] = proposal[q]
    BY ProposalWritten
<1>2. ASSUME NEW q \in Live(proposal'), q = p, proposal'[q] = row
      PROVE  row \in Proposal
    BY <1>2 DEF Live
<1>3. ProjectsLinked'
    BY <1>1, <1>2 DEF ProjectsLinked
<1>. QED BY <1>3, ProposalWritten

LEMMA ProjectWritten ==
    ASSUME TablesOK, NEW j \in Projects, NEW s \in ProjectStatus,
           project' = [project EXCEPT ![j] = s]
    PROVE  /\ project' \in [Projects -> ProjectStatus \cup {None, Gone}]
           /\ Live(project) \subseteq Live(project') /\ j \in Live(project')
BY WorkflowAssumption DEF TablesOK, Live, WorkflowAssumption

LEMMA NothingWritten ==
    ASSUME IInv, NEW r \in Requests, Moves(r), Kept, UNCHANGED db
    PROVE  IInv'
<1>1. TablesOK' /\ ProjectsLinked'
    BY TypeParts DEF IInv, db, TablesOK, ProjectsLinked
<1>. QED BY <1>1, StepTyped

\* A row of Detached.
Unless(x, S) == IF x \in S THEN None ELSE x
Unlinked(row, as, vs, js) ==
    [row EXCEPT !.assembly = Unless(@, as),
                !.voting   = Unless(@, vs),
                !.project  = Unless(@, js)]

LEMMA DetachedRow ==
    ASSUME NEW row \in Proposal, NEW as, NEW vs, NEW js
    PROVE  /\ Unlinked(row, as, vs, js) \in Proposal
           /\ Unlinked(row, as, vs, js).status = row.status
           /\ Unlinked(row, as, vs, js).project = Unless(row.project, js)
BY DEF Unlinked, Unless, Proposal, Link

LEMMA DetachedRows ==
    ASSUME TablesOK, NEW as, NEW vs, NEW js, proposal' = Detached(as, vs, js),
           NEW p \in Live(proposal)
    PROVE  /\ proposal'[p] \in Proposal
           /\ proposal'[p].status = proposal[p].status
           /\ proposal'[p].project = Unless(proposal[p].project, js)
<1> DEFINE row == proposal[p]
           new == Unlinked(row, as, vs, js)
<1>1. p \in Proposals /\ row \in Proposal
    BY LiveRows
<1>2. Detached(as, vs, js)[p] = new
    BY <1>1, Zenon DEF Detached, Unlinked, Unless
<1>3. proposal'[p] = new
    BY <1>2
<1> HIDE DEF row
<1>4. /\ new \in Proposal
      /\ new.status = row.status
      /\ new.project = Unless(row.project, js)
    BY <1>1, DetachedRow
<1> HIDE DEF new
<1>. QED BY <1>3, <1>4 DEF row

LEMMA DetachedTyped ==
    ASSUME TablesOK, NEW as, NEW vs, NEW js, proposal' = Detached(as, vs, js)
    PROVE  /\ proposal' \in [Proposals -> Proposal \cup {None, Gone}]
           /\ \A p \in Live(proposal') :
                  /\ p \in Live(proposal)
                  /\ proposal'[p].status = proposal[p].status
                  /\ proposal'[p].project = Unless(proposal[p].project, js)
<1>1. \A p \in Proposals \ Live(proposal) : proposal[p] \in {None, Gone}
    BY DEF TablesOK, Live
<1>2. \A p \in Proposals \ Live(proposal) : proposal'[p] = proposal[p]
    BY Zenon DEF Detached
<1>3. proposal' \in [Proposals -> Proposal \cup {None, Gone}]
  <2>1. \A p \in Proposals : proposal'[p] \in Proposal \cup {None, Gone}
      BY <1>1, <1>2, DetachedRows
  <2>2. DOMAIN proposal' = Proposals /\ proposal' = [p \in Proposals |-> proposal'[p]]
      BY Zenon DEF Detached
  <2>. QED BY <2>1, <2>2
<1>4. \A p \in Live(proposal') : p \in Live(proposal)
    BY <1>1, <1>2, <1>3 DEF Live
<1>5. \A p \in Live(proposal) :
          /\ proposal'[p].status = proposal[p].status
          /\ proposal'[p].project = Unless(proposal[p].project, js)
    BY DetachedRows
<1>. QED BY <1>3, <1>4, <1>5

LEMMA DetachedLinked ==
    ASSUME TablesOK, ProjectsLinked, NEW as, NEW vs, NEW js,
           proposal' = Detached(as, vs, js), Live(project) \ js \subseteq Live(project')
    PROVE  ProjectsLinked'
<1> SUFFICES ASSUME NEW p \in Live(proposal')
             PROVE  proposal'[p].project \in Link(Live(project'))
    BY DEF ProjectsLinked
<1>1. p \in Live(proposal) /\ proposal'[p].project = Unless(proposal[p].project, js)
    BY DetachedTyped
<1>2. proposal[p].project \in Link(Live(project))
    BY <1>1 DEF ProjectsLinked
<1>. QED BY <1>1, <1>2 DEF Unless, Link
-----------------------------------------------------------------------------
(* Proposing.                                                              *)

LEMMA CreateProjectTyped ==
    ASSUME IInv, NEW r \in Requests, NEW j \in Projects, NEW a \in Link(Assemblies),
           CreateProject(r, j, a)
    PROVE  IInv'
<1>1. TablesOK /\ ProjectsLinked
    BY TypeParts DEF IInv
<1>2. Moves(r)
  <2> DEFINE u == [pc |-> "insertProposal", project |-> j, assembly |-> a]
  <2>1. u \in Task /\ ListsProjects(u)
      BY DEF Task, ProposingTask, ListsProjects
  <2>2. Continue(r, u)
      BY DEF CreateProject, Begin, Continue
  <2>. QED BY <2>1, <2>2, MovesTo
<1>3. Kept /\ TablesOK'
    BY <1>1, ProjectWritten DEF CreateProject, Kept, TablesOK, ProjectStatus
<1>4. ProjectsLinked'
  <2>1. Live(project) \subseteq Live(project')
      BY <1>1, ProjectWritten DEF CreateProject, ProjectStatus
  <2>. QED BY <1>1, <2>1, LinksKept DEF CreateProject
<1>. QED BY <1>2, <1>3, <1>4, StepTyped

LEMMA InsertProposalTyped ==
    ASSUME IInv, NEW r \in Requests, NEW p \in Proposals, InsertProposal(r, p)
    PROVE  IInv'
<1> DEFINE j == task[r].project
           a == task[r].assembly
           row == [status |-> "PENDING", project |-> j, assembly |-> a, voting |-> None]
           inserted == j \in Live(project) /\ a \in Link(Live(assembly))
<1>1. TablesOK /\ ProjectsLinked /\ task[r] \in Task
    BY TypeParts DEF IInv
<1>2. j \in Projects /\ a \in Link(Assemblies) /\ row \in Proposal
    BY <1>1, ProposingFields DEF InsertProposal, Proposal, ProposalStatus, Link
<1>3. CASE inserted
  <2>1. proposal' = [proposal EXCEPT ![p] = row]
      BY <1>3 DEF InsertProposal
  <2>2. Moves(r)
    <3>1. CASE a = None
        BY <1>3, <3>1, MovesTo, IdleTask DEF InsertProposal
    <3>2. CASE a # None
      <4> DEFINE u == [pc |-> "ballot", assembly |-> a, proposal |-> p]
      <4>1. u \in Task /\ ListsProjects(u)
          BY <1>2, <3>2 DEF Task, BallotTask, ListsProjects, Link
      <4>2. Continue(r, u)
          BY <1>3, <3>2 DEF InsertProposal
      <4>. QED BY <4>1, <4>2, MovesTo
    <3>. QED BY <3>1, <3>2
  <2>3. project' = project /\ (row \in Proposal => row.project \in Link(Live(project)))
      BY <1>3 DEF InsertProposal, Link
  <2>4. proposal' \in [Proposals -> Proposal \cup {None, Gone}] /\ ProjectsLinked'
      BY <1>1, <1>2, <2>1, <2>3, ProposalLinked
  <2>5. Kept /\ TablesOK'
      BY <1>1, <2>4 DEF InsertProposal, Kept, TablesOK
  <2>. QED BY <2>2, <2>4, <2>5, StepTyped
<1>4. CASE ~inserted
  <2>1. UNCHANGED db /\ Kept /\ Moves(r)
      BY <1>4, IdleTask, MovesTo DEF InsertProposal, Kept, db, Finish
  <2>. QED BY <2>1, NothingWritten
<1>. QED BY <1>3, <1>4

LEMMA OpenBallotTyped ==
    ASSUME IInv, NEW r \in Requests, NEW v \in Votings, OpenBallot(r, v)
    PROVE  IInv'
<1> DEFINE a == task[r].assembly
           u == [pc |-> "link", proposal |-> task[r].proposal, voting |-> v]
<1>1. TablesOK /\ ProjectsLinked /\ task[r] \in Task
    BY TypeParts DEF IInv
<1>2. a \in Assemblies /\ task[r].proposal \in Proposals
    BY <1>1, ProposingFields DEF OpenBallot
<1>3. u \in Task /\ ListsProjects(u)
    BY <1>2 DEF Task, BallotTask, ListsProjects
<1>4. Moves(r)
    BY <1>3, MovesTo, IdleTask DEF OpenBallot, Finish
<1>5. Kept /\ TablesOK' /\ ProjectsLinked'
    BY <1>1, <1>2 DEF OpenBallot, Kept, TablesOK, ProjectsLinked
<1>. QED BY <1>4, <1>5, StepTyped

LEMMA LinkProposalTyped ==
    ASSUME IInv, NEW r \in Requests, LinkProposal(r)
    PROVE  IInv'
<1> DEFINE p == task[r].proposal
           row == [proposal[p] EXCEPT !.voting = task[r].voting]
           linked == p \in Live(proposal) /\ task[r].voting \in Live(voting)
<1>1. TablesOK /\ ProjectsLinked /\ task[r] \in Task
    BY TypeParts DEF IInv
<1>2. p \in Proposals /\ task[r].voting \in Votings
    BY <1>1, ProposingFields DEF LinkProposal
<1>3. Moves(r) /\ Kept
    BY IdleTask, MovesTo DEF LinkProposal, Finish, Kept
<1>4. CASE linked
  <2>1. proposal[p] \in Proposal
      BY <1>1, <1>4, LiveRows
  <2>2. row \in Proposal /\ row.project = proposal[p].project
      BY <1>2, <2>1 DEF Proposal, Link
  <2>3. proposal' = [proposal EXCEPT ![p] = row]
      BY <1>4 DEF LinkProposal
  <2>4. row.project \in Link(Live(project)) /\ project' = project
      BY <1>1, <1>4, <2>2 DEF ProjectsLinked, LinkProposal
  <2>5. proposal' \in [Proposals -> Proposal \cup {None, Gone}] /\ ProjectsLinked'
      BY <1>1, <1>2, <2>2, <2>3, <2>4, ProposalLinked
  <2>6. TablesOK'
      BY <1>1, <2>5 DEF LinkProposal, TablesOK
  <2>. QED BY <1>3, <2>5, <2>6, StepTyped
<1>5. CASE ~linked
  <2>1. UNCHANGED db
      BY <1>5 DEF LinkProposal, db
  <2>. QED BY <1>3, <2>1, NothingWritten
<1>. QED BY <1>4, <1>5

LEMMA NextAssembliesTyped ==
    NextAssemblies \subseteq Link(Assemblies) /\ NoLinks \in Links
BY DEF NextAssemblies, Link, NoLinks, Links

LEMMA AfterAssignTyped ==
    ASSUME NEW p \in Proposals, NEW wanted \in Links
    PROVE  AfterAssign(p, wanted) \in Task /\ ListsProjects(AfterAssign(p, wanted))
<1> DEFINE u == [pc |-> "assign", proposal |-> p, links |-> wanted, wanted |-> NoLinks]
<1>1. u \in Task /\ ListsProjects(u)
    BY NextAssembliesTyped DEF Task, ProposingTask, ListsProjects
<1>. QED BY <1>1, IdleTask DEF AfterAssign

LEMMA CreateProposalTyped ==
    ASSUME IInv, NEW r \in Requests, NEW p \in Proposals, NEW j \in Link(Projects),
           NEW wanted \in Links, CreateProposal(r, p, j, wanted)
    PROVE  IInv'
<1> DEFINE row == [status |-> "PENDING", project |-> j, assembly |-> None, voting |-> None]
           u == [pc |-> "findAssembly", proposal |-> p, wanted |-> wanted]
<1>1. TablesOK /\ ProjectsLinked
    BY TypeParts DEF IInv
<1>2. row \in Proposal
    BY DEF Proposal, ProposalStatus, Link
<1>3. u \in Task /\ ListsProjects(u)
    BY DEF Task, ProposingTask, ListsProjects
<1>4. Moves(r) /\ Kept
  <2>1. Continue(r, u)
      BY DEF CreateProposal, Begin, Continue
  <2>. QED BY <1>3, <2>1, MovesTo DEF CreateProposal, Kept
<1>5. /\ proposal' = [proposal EXCEPT ![p] = row] /\ project' = project
      /\ row.project \in Link(Live(project))
    BY DEF CreateProposal
<1>6. proposal' \in [Proposals -> Proposal \cup {None, Gone}] /\ ProjectsLinked'
    BY <1>1, <1>2, <1>5, ProposalLinked
<1>7. TablesOK'
    BY <1>1, <1>6 DEF CreateProposal, TablesOK
<1>. QED BY <1>4, <1>6, <1>7, StepTyped

LEMMA FindAssemblyTyped ==
    ASSUME IInv, NEW r \in Requests, NEW a \in Link(Assemblies), FindAssembly(r, a)
    PROVE  IInv'
<1> DEFINE p == task[r].proposal
           wanted == task[r].wanted
           u == [pc |-> "assign", proposal |-> p, wanted |-> wanted,
                 links |-> [assembly |-> a, voting |-> None]]
<1>1. p \in Proposals /\ wanted \in Links
    BY ProposingFields, TypeParts DEF IInv, FindAssembly
<1>2. u \in Task /\ ListsProjects(u)
    BY <1>1 DEF Task, ProposingTask, ListsProjects, Links, Link
<1>3. Moves(r)
    BY <1>1, <1>2, AfterAssignTyped, MovesTo DEF FindAssembly
<1>4. Kept /\ UNCHANGED db
    BY DEF FindAssembly, Kept
<1>. QED BY <1>3, <1>4, NothingWritten
LEMMA AssignTyped ==
    ASSUME IInv, NEW r \in Requests, Assign(r)
    PROVE  IInv'
<1> DEFINE p == task[r].proposal
           links == task[r].links
           wanted == task[r].wanted
           row == [proposal[p] EXCEPT
                      !.assembly = IF links.assembly = None THEN @ ELSE links.assembly,
                      !.voting = IF links.voting = None THEN @ ELSE links.voting]
           assigned == /\ p \in Live(proposal)
                       /\ links.assembly \in Link(Live(assembly))
                       /\ links.voting \in Link(Live(voting))
<1>1. TablesOK /\ ProjectsLinked /\ task[r] \in Task
    BY TypeParts DEF IInv
<1>2. p \in Proposals /\ links \in Links /\ wanted \in Links
    BY <1>1, ProposingFields DEF Assign
<1>3. Moves(r) /\ Kept
  <2>1. Continue(r, AfterAssign(p, wanted)) \/ Continue(r, Idle)
      BY DEF Assign, Finish
  <2>. QED BY <1>2, <2>1, AfterAssignTyped, IdleTask, MovesTo DEF Assign, Kept
<1>4. CASE assigned
  <2>1. proposal[p] \in Proposal
      BY <1>1, <1>4, LiveRows
  <2>2. row \in Proposal /\ row.project = proposal[p].project
      BY <1>2, <2>1 DEF Proposal, Link, Links
  <2>3. proposal' = [proposal EXCEPT ![p] = row]
    <3>1. proposal' = [proposal EXCEPT
              ![p].assembly = IF links.assembly = None THEN @ ELSE links.assembly,
              ![p].voting = IF links.voting = None THEN @ ELSE links.voting]
        BY <1>4 DEF Assign
    <3>. QED BY <1>1, <1>2, <2>1, <3>1 DEF TablesOK, Proposal
  <2>4. row.project \in Link(Live(project)) /\ project' = project
      BY <1>1, <1>4, <2>2 DEF ProjectsLinked, Assign
  <2>5. proposal' \in [Proposals -> Proposal \cup {None, Gone}] /\ ProjectsLinked'
      BY <1>1, <1>2, <2>2, <2>3, <2>4, ProposalLinked
  <2>6. TablesOK'
      BY <1>1, <2>5 DEF Assign, TablesOK
  <2>. QED BY <1>3, <2>5, <2>6, StepTyped
<1>5. CASE ~assigned
  <2>1. UNCHANGED db
      BY <1>5 DEF Assign, db
  <2>. QED BY <1>3, <2>1, NothingWritten
<1>. QED BY <1>4, <1>5

LEMMA BeginsIdle ==
    ASSUME NEW r \in Requests, NEW kind, Begin(r, kind, Idle)
    PROVE  Moves(r)
BY IdleTask, MovesTo DEF Begin, Continue

LEMMA CreateAssemblyTyped ==
    ASSUME IInv, NEW r \in Requests, NEW a \in Assemblies, CreateAssembly(r, a)
    PROVE  IInv'
<1>1. TablesOK /\ ProjectsLinked
    BY TypeParts DEF IInv
<1>2. Moves(r) /\ Kept
    BY BeginsIdle DEF CreateAssembly, Kept
<1>3. TablesOK' /\ ProjectsLinked'
    BY <1>1 DEF CreateAssembly, TablesOK, AssemblyStatus, ProjectsLinked
<1>. QED BY <1>2, <1>3, StepTyped

LEMMA CreateVotingTyped ==
    ASSUME IInv, NEW r \in Requests, NEW v \in Votings, NEW a \in Assemblies,
           NEW ps \in SUBSET Proposals, CreateVoting(r, v, a, ps)
    PROVE  IInv'
<1> DEFINE row == [status |-> "PENDING", project |-> None, assembly |-> a, voting |-> v]
<1>1. TablesOK /\ ProjectsLinked
    BY TypeParts DEF IInv
<1>2. Moves(r) /\ Kept
    BY BeginsIdle DEF CreateVoting, Kept
<1>3. row \in Proposal
    BY DEF Proposal, ProposalStatus, Link
<1>4. proposal' = [p \in Proposals |-> IF p \in ps THEN row ELSE proposal[p]]
    BY DEF CreateVoting
<1>5. TablesOK'
    BY <1>1, <1>3, <1>4 DEF CreateVoting, TablesOK
<1>6. ProjectsLinked'
  <2>1. \A p \in Live(proposal') :
            \/ p \in Live(proposal) /\ proposal'[p].project = proposal[p].project
            \/ proposal'[p].project \in Link(Live(project'))
      BY <1>1, <1>4 DEF Live, Link, TablesOK
  <2>. QED BY <1>1, <2>1, LinksKept DEF CreateVoting
<1>. QED BY <1>2, <1>5, <1>6, StepTyped

LEMMA RemoveVotingTyped ==
    ASSUME IInv, NEW r \in Requests, NEW v \in Votings, RemoveVoting(r, v)
    PROVE  IInv'
<1>1. TablesOK /\ ProjectsLinked
    BY TypeParts DEF IInv
<1>2. Moves(r) /\ Kept
    BY BeginsIdle DEF RemoveVoting, Kept
<1> DEFINE none == {}
           vs == {v}
<1>3. proposal' = Detached(none, vs, none) /\ project' = project
    BY DEF RemoveVoting
<1> HIDE DEF vs, none
<1>4. TablesOK'
    BY <1>1, <1>3, DetachedTyped DEF RemoveVoting, TablesOK
<1>5. ProjectsLinked'
    BY <1>1, <1>3, DetachedLinked
<1>. QED BY <1>2, <1>4, <1>5, StepTyped

LEMMA ProposingTyped ==
    ASSUME IInv, NEW r \in Requests, Proposing(r)
    PROVE  IInv'
BY CreateProjectTyped, InsertProposalTyped, OpenBallotTyped, LinkProposalTyped,
   CreateProposalTyped, FindAssemblyTyped, AssignTyped, CreateAssemblyTyped,
   CreateVotingTyped, RemoveVotingTyped
   DEF Proposing
-----------------------------------------------------------------------------
(* The status of assemblies, their completion and their minutes.           *)

LEMMA ReadAssemblyTyped ==
    ASSUME IInv, NEW r \in Requests, NEW a \in Assemblies, NEW s \in AssemblyStatus,
           ReadAssembly(r, a, s)
    PROVE  IInv'
<1> DEFINE write == [pc |-> "writeAssembly", assembly |-> a, to |-> s]
           start == [pc |-> "startOrComplete", assembly |-> a, to |-> s]
<1>1. write \in Task /\ ListsProjects(write) /\ start \in Task /\ ListsProjects(start)
    BY DEF Task, StatusTask, ListsProjects
<1>2. Continue(r, write) \/ Continue(r, start)
    BY DEF ReadAssembly, Begin, Continue
<1>3. Moves(r)
    BY <1>1, <1>2, MovesTo
<1>4. Kept /\ UNCHANGED db
    BY DEF ReadAssembly, Kept
<1>. QED BY <1>3, <1>4, NothingWritten

LEMMA AfterVotingTyped ==
    ASSUME NEW a \in Assemblies, NEW todo \in SUBSET Votings
    PROVE  AfterVoting(a, todo) \in Task /\ ListsProjects(AfterVoting(a, todo))
BY DEF AfterVoting, Task, CompletionTask, ListsProjects

LEMMA AfterProposalTyped ==
    ASSUME NEW a \in Assemblies, NEW todo \in SUBSET Votings, NEW passed \in BOOLEAN,
           NEW seen \in SUBSET Listed,
           \A x \in seen : x.project = None => x.projectStatus = None
    PROVE  /\ AfterProposal(a, todo, passed, seen) \in Task
           /\ ListsProjects(AfterProposal(a, todo, passed, seen))
<1> DEFINE u == [pc |-> "decide", assembly |-> a, todo |-> todo, passed |-> passed,
                 seen |-> seen]
<1>1. u \in Task /\ ListsProjects(u)
    BY DEF Task, CompletionTask, ListsProjects
<1>. QED BY <1>1, AfterVotingTyped DEF AfterProposal

LEMMA StartOrCompleteTyped ==
    ASSUME IInv, NEW r \in Requests, StartOrComplete(r)
    PROVE  IInv'
<1> DEFINE a == task[r].assembly
           s == task[r].to
           write == [pc |-> "writeAssembly", assembly |-> a, to |-> s]
<1>1. a \in Assemblies /\ s \in AssemblyStatus
    BY StatusFields, TypeParts DEF IInv, StartOrComplete
<1>2. write \in Task /\ ListsProjects(write)
    BY <1>1 DEF Task, StatusTask, ListsProjects
<1>3. VotingsOf(a) \in SUBSET Votings
    BY DEF VotingsOf
<1>4. Continue(r, Idle) \/ Continue(r, AfterVoting(a, VotingsOf(a))) \/ Continue(r, write)
    BY DEF StartOrComplete
<1>5. Moves(r)
    BY <1>1, <1>2, <1>3, <1>4, AfterVotingTyped, IdleTask, MovesTo
<1>6. Kept /\ UNCHANGED db
    BY DEF StartOrComplete, Kept
<1>. QED BY <1>5, <1>6, NothingWritten

LEMMA WriteAssemblyTyped ==
    ASSUME IInv, NEW r \in Requests, WriteAssembly(r)
    PROVE  IInv'
<1>1. TablesOK /\ ProjectsLinked /\ task[r].to \in AssemblyStatus
    BY StatusFields, TypeParts DEF IInv, WriteAssembly
<1>2. Moves(r) /\ Kept
    BY IdleTask, MovesTo DEF WriteAssembly, Finish, Kept
<1>3. TablesOK' /\ ProjectsLinked'
    BY <1>1 DEF WriteAssembly, TablesOK, ProjectsLinked
<1>. QED BY <1>2, <1>3, StepTyped

LEMMA CountVotesTyped ==
    ASSUME IInv, NEW r \in Requests, NEW v \in Votings, NEW passed \in BOOLEAN,
           CountVotes(r, v, passed)
    PROVE  IInv'
<1> DEFINE u == [pc |-> "proposals", assembly |-> task[r].assembly,
                 todo |-> task[r].todo \ {v}, voting |-> v, passed |-> passed]
<1>1. task[r] \in Task /\ task[r].pc = "count"
    BY TypeParts DEF IInv, CountVotes
<1>2. task[r].assembly \in Assemblies /\ task[r].todo \in SUBSET Votings
    BY <1>1, CompletionFields DEF Completing
<1>3. u \in Task /\ ListsProjects(u)
    BY <1>2 DEF Task, CompletionTask, ListsProjects
<1>4. Moves(r)
    BY <1>3, IdleTask, MovesTo DEF CountVotes
<1>5. Kept /\ UNCHANGED db
    BY DEF CountVotes, Kept
<1>. QED BY <1>4, <1>5, NothingWritten

\* What ListProposals reads of a proposal.
Row(p) == [id |-> p, status |-> proposal[p].status, project |-> proposal[p].project,
           projectStatus |-> IF proposal[p].project = None THEN None
                             ELSE project[proposal[p].project]]

LEMMA RowTyped ==
    ASSUME TablesOK, ProjectsLinked, NEW p \in Live(proposal)
    PROVE  Row(p) \in Listed /\ (Row(p).project = None => Row(p).projectStatus = None)
<1>1. p \in Proposals /\ proposal[p] \in Proposal
    BY LiveRows
<1>2. proposal[p].project \in Link(Live(project))
    BY DEF ProjectsLinked
<1>3. Row(p).projectStatus \in Link(ProjectStatus)
    BY <1>2, LiveRows DEF Row, Link
<1>. QED BY <1>1, <1>3 DEF Row, Listed, Proposal

LEMMA ListProposalsTyped ==
    ASSUME IInv, NEW r \in Requests, ListProposals(r)
    PROVE  IInv'
<1> DEFINE t == task[r]
           seen == {Row(p) : p \in ProposalsIn(t.voting)}
<1>1. TablesOK /\ ProjectsLinked /\ t \in Task /\ t.pc = "proposals"
    BY TypeParts DEF IInv, ListProposals
<1>2. t.assembly \in Assemblies /\ t.todo \in SUBSET Votings /\ t.passed \in BOOLEAN
    BY <1>1, CompletionFields DEF Completing
<1>3. ProposalsIn(t.voting) \subseteq Live(proposal)
    BY DEF ProposalsIn
<1>4. \A x \in seen : x \in Listed /\ (x.project = None => x.projectStatus = None)
    BY <1>1, <1>3, RowTyped
<1>5. Continue(r, AfterProposal(t.assembly, t.todo, t.passed, seen))
    BY DEF ListProposals, Row
<1>6. Moves(r)
  <2> HIDE DEF seen
  <2>1. seen \in SUBSET Listed
      BY <1>4
  <2>. QED BY <1>2, <1>4, <1>5, <2>1, AfterProposalTyped, MovesTo
<1>7. Kept /\ UNCHANGED db
    BY DEF ListProposals, Kept
<1>. QED BY <1>6, <1>7, NothingWritten
LEMMA StatusWritten ==
    ASSUME TablesOK, ProjectsLinked, NEW p \in Live(proposal), NEW s \in ProposalStatus,
           proposal' = [proposal EXCEPT ![p].status = s], project' = project
    PROVE  /\ proposal' \in [Proposals -> Proposal \cup {None, Gone}]
           /\ ProjectsLinked'
<1> DEFINE row == [proposal[p] EXCEPT !.status = s]
<1>1. p \in Proposals /\ proposal[p] \in Proposal
    BY LiveRows
<1>2. row \in Proposal /\ row.project = proposal[p].project
    BY <1>1 DEF Proposal
<1>3. proposal' = [proposal EXCEPT ![p] = row]
    OBVIOUS
<1>4. row.project \in Link(Live(project))
    BY <1>2 DEF ProjectsLinked
<1>. QED BY <1>1, <1>2, <1>3, <1>4, ProposalLinked

LEMMA DecideProposalTyped ==
    ASSUME IInv, NEW r \in Requests, NEW x \in task[r].seen, DecideProposal(r, x)
    PROVE  IInv'
<1> DEFINE t == task[r]
           s == IF t.passed THEN "APPROVED" ELSE "REJECTED"
           rest == t.seen \ {x}
           next == AfterProposal(t.assembly, t.todo, t.passed, rest)
           approve == [pc |-> "approveProject", assembly |-> t.assembly, todo |-> t.todo,
                       passed |-> t.passed, seen |-> rest, project |-> x.project]
           refused == <<x.status, s>> \notin DecisionSteps
<1>1. /\ TablesOK /\ ProjectsLinked /\ t \in Task /\ ListsProjects(t)
      /\ t.pc = "decide"
    BY TypeParts DEF IInv, DecideProposal
<1>2. /\ t.assembly \in Assemblies /\ t.todo \in SUBSET Votings /\ t.passed \in BOOLEAN
      /\ t.seen \in SUBSET Listed
    BY <1>1, CompletionFields DEF Completing
<1>3. /\ rest \in SUBSET Listed /\ x \in Listed
      /\ \A y \in t.seen : y.project = None => y.projectStatus = None
    BY <1>1, <1>2 DEF ListsProjects
<1>4. next \in Task /\ ListsProjects(next)
    BY <1>2, <1>3, AfterProposalTyped
<1>5. <<x.projectStatus, "APPROVED">> \in ProjectSteps =>
          approve \in Task /\ ListsProjects(approve)
  <2> SUFFICES ASSUME <<x.projectStatus, "APPROVED">> \in ProjectSteps
               PROVE  approve \in Task /\ ListsProjects(approve)
      OBVIOUS
  <2>1. x.projectStatus = "PROPOSED"
      BY DEF ProjectSteps
  <2>2. x.project # None
      BY <1>3, <2>1, WorkflowAssumption DEF WorkflowAssumption, ProjectStatus
  <2>3. x.project \in Projects
      BY <1>3, <2>2 DEF Listed, Link
  <2>. QED BY <1>2, <1>3, <2>3 DEF Task, CompletionTask, ListsProjects
<1>6. \/ Continue(r, next) \/ Continue(r, Idle)
      \/ <<x.projectStatus, "APPROVED">> \in ProjectSteps /\ Continue(r, approve)
    BY DEF DecideProposal, Finish
<1>7. Moves(r) /\ Kept
    BY <1>4, <1>5, <1>6, IdleTask, MovesTo DEF DecideProposal, Kept
<1>8. CASE refused \/ x.id \notin Live(proposal)
  <2>1. UNCHANGED db
      BY <1>8 DEF DecideProposal, db
  <2>. QED BY <1>7, <2>1, NothingWritten
<1>9. CASE ~refused /\ x.id \in Live(proposal)
  <2>1. proposal' = [proposal EXCEPT ![x.id].status = s] /\ project' = project
      BY <1>9 DEF DecideProposal
  <2>2. s \in ProposalStatus
      BY DEF ProposalStatus
  <2>3. proposal' \in [Proposals -> Proposal \cup {None, Gone}] /\ ProjectsLinked'
      BY <1>1, <1>9, <2>1, <2>2, StatusWritten
  <2>4. TablesOK'
      BY <1>1, <2>3 DEF DecideProposal, TablesOK
  <2>. QED BY <1>7, <2>3, <2>4, StepTyped
<1>. QED BY <1>8, <1>9

\* A status is written into a project that is there.
LEMMA ProjectWriteTyped ==
    ASSUME IInv, NEW r \in Requests, Moves(r), Kept, NEW j \in Live(project),
           NEW s \in ProjectStatus, project' = [project EXCEPT ![j] = s],
           UNCHANGED <<assembly, voting, proposal, minutes>>
    PROVE  IInv'
<1>1. TablesOK /\ ProjectsLinked
    BY TypeParts DEF IInv
<1>2. TablesOK' /\ ProjectsLinked'
  <2>1. j \in Projects
      BY <1>1, LiveRows
  <2>2. /\ project' \in [Projects -> ProjectStatus \cup {None, Gone}]
        /\ Live(project) \subseteq Live(project')
      BY <1>1, <2>1, ProjectWritten
  <2>3. TablesOK'
      BY <1>1, <2>2 DEF TablesOK
  <2>. QED BY <1>1, <2>2, <2>3, LinksKept
<1>. QED BY <1>2, StepTyped

LEMMA ApproveProjectTyped ==
    ASSUME IInv, NEW r \in Requests, ApproveProject(r)
    PROVE  IInv'
<1> DEFINE t == task[r]
<1>1. t \in Task /\ ListsProjects(t) /\ t.pc = "approveProject"
    BY TypeParts DEF IInv, ApproveProject
<1>2. /\ t.assembly \in Assemblies /\ t.todo \in SUBSET Votings /\ t.passed \in BOOLEAN
      /\ t.seen \in SUBSET Listed
      /\ \A y \in t.seen : y.project = None => y.projectStatus = None
    BY <1>1, CompletionFields DEF Completing, ListsProjects
<1>3. Moves(r) /\ Kept
    BY <1>2, AfterProposalTyped, IdleTask, MovesTo DEF ApproveProject, Finish, Kept
<1>4. CASE t.project \in Live(project)
    BY <1>3, <1>4, ProjectWriteTyped DEF ApproveProject, ProjectStatus
<1>5. CASE t.project \notin Live(project)
    BY <1>3, <1>5, NothingWritten DEF ApproveProject, db
<1>. QED BY <1>4, <1>5

LEMMA CompleteAssemblyTyped ==
    ASSUME IInv, NEW r \in Requests, CompleteAssembly(r)
    PROVE  IInv'
<1>1. TablesOK /\ ProjectsLinked
    BY TypeParts DEF IInv
<1>2. Moves(r) /\ Kept
    BY IdleTask, MovesTo DEF CompleteAssembly, Finish, Kept
<1>3. TablesOK' /\ ProjectsLinked'
    BY <1>1 DEF CompleteAssembly, TablesOK, AssemblyStatus, ProjectsLinked
<1>. QED BY <1>2, <1>3, StepTyped

LEMMA ReadForOthersTyped ==
    ASSUME IInv, NEW r \in Requests, NEW a \in Assemblies,
           ReadForRemoveAssembly(r, a) \/ ReadForMinutes(r, a)
    PROVE  IInv'
<1> DEFINE remove == [pc |-> "deleteAssembly", assembly |-> a]
           find == [pc |-> "findMinutes", assembly |-> a]
<1>1. remove \in Task /\ ListsProjects(remove) /\ find \in Task /\ ListsProjects(find)
    BY DEF Task, OtherTask, ListsProjects
<1>2. Continue(r, remove) \/ Continue(r, find)
    BY DEF ReadForRemoveAssembly, ReadForMinutes, Begin, Continue
<1>3. Moves(r)
    BY <1>1, <1>2, MovesTo
<1>4. Kept /\ UNCHANGED db
    BY DEF ReadForRemoveAssembly, ReadForMinutes, Kept
<1>. QED BY <1>3, <1>4, NothingWritten

LEMMA DeleteAssemblyTyped ==
    ASSUME IInv, NEW r \in Requests, DeleteAssembly(r)
    PROVE  IInv'
<1> DEFINE a == task[r].assembly
<1>1. TablesOK /\ ProjectsLinked
    BY TypeParts DEF IInv
<1>2. Moves(r) /\ Kept
    BY IdleTask, MovesTo DEF DeleteAssembly, Finish, Kept
<1>3. CASE a \in Live(assembly)
  <2>1. proposal' = Detached({a}, VotingsOf(a), {}) /\ project' = project
      BY <1>3 DEF DeleteAssembly
  <2>2. /\ assembly' = [assembly EXCEPT ![a] = Gone]
        /\ voting' = [v \in Votings |-> IF voting[v] = a THEN Gone ELSE voting[v]]
        /\ minutes' = [minutes EXCEPT ![a] = 0]
      BY <1>3 DEF DeleteAssembly
  <2> DEFINE as == {a}
             vs == VotingsOf(a)
             none == {}
  <2>3. proposal' = Detached(as, vs, none) /\ Live(project) \ none \subseteq Live(project')
      BY <2>1
  <2>4. TablesOK' /\ ProjectsLinked'
    <3> HIDE DEF as, vs, none
    <3>1. ProjectsLinked'
        BY <1>1, <2>3, DetachedLinked
    <3>2. TablesOK'
        BY <1>1, <2>1, <2>2, <2>3, DetachedTyped DEF TablesOK
    <3>. QED BY <3>1, <3>2
  <2>. QED BY <1>2, <2>4, StepTyped
<1>4. CASE a \notin Live(assembly)
    BY <1>2, <1>4, NothingWritten DEF DeleteAssembly, db
<1>. QED BY <1>3, <1>4

LEMMA FindMinutesTyped ==
    ASSUME IInv, NEW r \in Requests, FindMinutes(r)
    PROVE  IInv'
<1> DEFINE u == [pc |-> "insertMinutes", assembly |-> task[r].assembly]
<1>1. task[r].assembly \in Assemblies
    BY OtherFields, TypeParts DEF IInv, FindMinutes
<1>2. u \in Task /\ ListsProjects(u)
    BY <1>1 DEF Task, OtherTask, ListsProjects
<1>3. Moves(r) /\ Kept /\ UNCHANGED db
    BY <1>2, IdleTask, MovesTo DEF FindMinutes, Kept
<1>. QED BY <1>3, NothingWritten

LEMMA InsertMinutesTyped ==
    ASSUME IInv, NEW r \in Requests, InsertMinutes(r)
    PROVE  IInv'
<1>1. TablesOK /\ ProjectsLinked
    BY TypeParts DEF IInv
<1>2. Moves(r) /\ Kept
    BY IdleTask, MovesTo DEF InsertMinutes, Finish, Kept
<1>3. TablesOK' /\ ProjectsLinked'
    BY <1>1 DEF InsertMinutes, TablesOK, ProjectsLinked
<1>. QED BY <1>2, <1>3, StepTyped

LEMMA AssemblingTyped ==
    ASSUME IInv, NEW r \in Requests, Assembling(r)
    PROVE  IInv'
<1>1. ASSUME NEW x \in (IF task[r].pc = "decide" THEN task[r].seen ELSE {}),
             DecideProposal(r, x)
      PROVE  IInv'
    BY <1>1, DecideProposalTyped DEF DecideProposal
<1>. QED
    BY <1>1, ReadAssemblyTyped, StartOrCompleteTyped, WriteAssemblyTyped, CountVotesTyped,
       ListProposalsTyped, ApproveProjectTyped, CompleteAssemblyTyped, ReadForOthersTyped,
       DeleteAssemblyTyped, FindMinutesTyped, InsertMinutesTyped
       DEF Assembling
-----------------------------------------------------------------------------
(* The status of proposals and projects, their edits and removals.         *)

LEMMA ReadProposalTyped ==
    ASSUME IInv, NEW r \in Requests, NEW p \in Proposals, NEW s \in ProposalStatus,
           ReadProposal(r, p, s)
    PROVE  IInv'
<1> DEFINE u == [pc |-> "writeProposal", proposal |-> p, to |-> s,
                 project |-> proposal[p].project]
<1>1. TablesOK /\ p \in Live(proposal)
    BY TypeParts DEF IInv, ReadProposal
<1>2. proposal[p].project \in Link(Projects)
    BY <1>1, LiveRows DEF Proposal
<1>3. u \in Task /\ ListsProjects(u)
    BY <1>2 DEF Task, StatusTask, ListsProjects
<1>4. Continue(r, u)
    BY DEF ReadProposal, Begin, Continue
<1>5. Moves(r) /\ Kept /\ UNCHANGED db
    BY <1>3, <1>4, MovesTo DEF ReadProposal, Kept
<1>. QED BY <1>5, NothingWritten

LEMMA WriteProposalTyped ==
    ASSUME IInv, NEW r \in Requests, WriteProposal(r)
    PROVE  IInv'
<1> DEFINE t == task[r]
           force == [pc |-> "forceProject", project |-> t.project]
<1>1. TablesOK /\ ProjectsLinked /\ t \in Task
    BY TypeParts DEF IInv
<1>2. t.proposal \in Proposals /\ t.to \in ProposalStatus /\ t.project \in Link(Projects)
    BY <1>1, StatusFields DEF WriteProposal
<1>3. t.project # None => force \in Task /\ ListsProjects(force)
    BY <1>2 DEF Task, StatusTask, ListsProjects, Link
<1>4. Continue(r, Idle) \/ (t.project # None /\ Continue(r, force))
    BY DEF WriteProposal, Finish
<1>5. Moves(r) /\ Kept
    BY <1>3, <1>4, IdleTask, MovesTo DEF WriteProposal, Kept
<1>6. CASE t.proposal \in Live(proposal)
  <2>1. proposal' = [proposal EXCEPT ![t.proposal].status = t.to] /\ project' = project
      BY <1>6 DEF WriteProposal
  <2>2. proposal' \in [Proposals -> Proposal \cup {None, Gone}] /\ ProjectsLinked'
      BY <1>1, <1>2, <1>6, <2>1, StatusWritten
  <2>3. TablesOK'
      BY <1>1, <2>2 DEF WriteProposal, TablesOK
  <2>. QED BY <1>5, <2>2, <2>3, StepTyped
<1>7. CASE t.proposal \notin Live(proposal)
    BY <1>5, <1>7, NothingWritten DEF WriteProposal, db
<1>. QED BY <1>6, <1>7

LEMMA ForceProjectTyped ==
    ASSUME IInv, NEW r \in Requests, ForceProject(r)
    PROVE  IInv'
<1>1. Moves(r) /\ Kept
    BY IdleTask, MovesTo DEF ForceProject, Finish, Kept
<1>2. CASE task[r].project \in Live(project)
    BY <1>1, <1>2, ProjectWriteTyped DEF ForceProject, ProjectStatus
<1>3. CASE task[r].project \notin Live(project)
    BY <1>1, <1>3, NothingWritten DEF ForceProject, db
<1>. QED BY <1>2, <1>3

LEMMA ReadForEditTyped ==
    ASSUME IInv, NEW r \in Requests, NEW p \in Proposals, NEW patch \in Patches,
           ReadForEdit(r, p, patch)
    PROVE  IInv'
<1> DEFINE u == [pc |-> "editProposal", proposal |-> p, patch |-> patch]
<1>1. u \in Task /\ ListsProjects(u)
    BY DEF Task, StatusTask, ListsProjects
<1>2. Continue(r, u)
    BY DEF ReadForEdit, Begin, Continue
<1>3. Moves(r) /\ Kept /\ UNCHANGED db
    BY <1>1, <1>2, MovesTo DEF ReadForEdit, Kept
<1>. QED BY <1>3, NothingWritten

LEMMA EditProposalTyped ==
    ASSUME IInv, NEW r \in Requests, EditProposal(r)
    PROVE  IInv'
<1> DEFINE p == task[r].proposal
           patch == task[r].patch
           row == Merge(proposal[p], patch)
           edited == /\ p \in Live(proposal)
                     /\ patch.project \in Link(Live(project))
                     /\ patch.assembly \in Link(Live(assembly))
                     /\ patch.voting \in Link(Live(voting))
<1>1. TablesOK /\ ProjectsLinked /\ task[r] \in Task
    BY TypeParts DEF IInv
<1>2. p \in Proposals /\ patch \in Patch
    BY <1>1, StatusFields, WorkflowAssumption DEF EditProposal, WorkflowAssumption
<1>3. Moves(r) /\ Kept
    BY IdleTask, MovesTo DEF EditProposal, Finish, Kept
<1>4. CASE edited
  <2>1. proposal[p] \in Proposal
      BY <1>1, <1>4, LiveRows
  <2>2. row \in Proposal
      BY <1>2, <2>1 DEF Merge, Patch, Proposal, Link
  <2>3. proposal' = [proposal EXCEPT ![p] = row] /\ project' = project
      BY <1>4 DEF EditProposal
  <2>4. row.project \in Link(Live(project))
      BY <1>1, <1>4 DEF ProjectsLinked, Merge
  <2>5. proposal' \in [Proposals -> Proposal \cup {None, Gone}] /\ ProjectsLinked'
      BY <1>1, <1>2, <2>2, <2>3, <2>4, ProposalLinked
  <2>6. TablesOK'
      BY <1>1, <2>5 DEF EditProposal, TablesOK
  <2>. QED BY <1>3, <2>5, <2>6, StepTyped
<1>5. CASE ~edited
  <2>1. UNCHANGED db
      BY <1>5 DEF EditProposal, db
  <2>. QED BY <1>3, <2>1, NothingWritten
<1>. QED BY <1>4, <1>5

LEMMA ReadForRemoveTyped ==
    ASSUME IInv, NEW r \in Requests,
           \/ \E p \in Proposals : ReadForRemoveProposal(r, p)
           \/ \E j \in Projects : ReadForRemoveProject(r, j)
    PROVE  IInv'
<1>1. ASSUME NEW p \in Proposals, ReadForRemoveProposal(r, p) PROVE IInv'
  <2> DEFINE u == [pc |-> "deleteProposal", proposal |-> p]
  <2>1. u \in Task /\ ListsProjects(u)
      BY DEF Task, OtherTask, ListsProjects
  <2>2. Continue(r, u)
      BY <1>1 DEF ReadForRemoveProposal, Begin, Continue
  <2>3. Moves(r) /\ Kept /\ UNCHANGED db
      BY <1>1, <2>1, <2>2, MovesTo DEF ReadForRemoveProposal, Kept
  <2>. QED BY <2>3, NothingWritten
<1>2. ASSUME NEW j \in Projects, ReadForRemoveProject(r, j) PROVE IInv'
  <2> DEFINE u == [pc |-> "deleteProject", project |-> j]
  <2>1. u \in Task /\ ListsProjects(u)
      BY DEF Task, OtherTask, ListsProjects
  <2>2. Continue(r, u)
      BY <1>2 DEF ReadForRemoveProject, Begin, Continue
  <2>3. Moves(r) /\ Kept /\ UNCHANGED db
      BY <1>2, <2>1, <2>2, MovesTo DEF ReadForRemoveProject, Kept
  <2>. QED BY <2>3, NothingWritten
<1>. QED BY <1>1, <1>2

LEMMA DeleteProposalTyped ==
    ASSUME IInv, NEW r \in Requests, DeleteProposal(r)
    PROVE  IInv'
<1> DEFINE p == task[r].proposal
<1>1. TablesOK /\ ProjectsLinked
    BY TypeParts DEF IInv
<1>2. Moves(r) /\ Kept
    BY IdleTask, MovesTo DEF DeleteProposal, Finish, Kept
<1>3. CASE p \in Live(proposal)
  <2>1. proposal' = [proposal EXCEPT ![p] = Gone] /\ project' = project /\ p \in Proposals
      BY <1>1, <1>3, LiveRows DEF DeleteProposal
  <2>2. Gone \notin Proposal
      BY WorkflowAssumption DEF WorkflowAssumption
  <2>3. proposal' \in [Proposals -> Proposal \cup {None, Gone}] /\ ProjectsLinked'
      BY <1>1, <2>1, <2>2, ProposalLinked
  <2>4. TablesOK'
      BY <1>1, <2>3 DEF DeleteProposal, TablesOK
  <2>. QED BY <1>2, <2>3, <2>4, StepTyped
<1>4. CASE p \notin Live(proposal)
    BY <1>2, <1>4, NothingWritten DEF DeleteProposal, db
<1>. QED BY <1>3, <1>4

LEMMA ReadProjectTyped ==
    ASSUME IInv, NEW r \in Requests, NEW j \in Projects, NEW s \in ProjectStatus,
           ReadProject(r, j, s)
    PROVE  IInv'
<1> DEFINE u == [pc |-> "writeProject", project |-> j, to |-> s]
<1>0. s # "PROPOSED"
    BY DEF ReadProject, ProjectSteps
<1>1. u \in Task /\ ListsProjects(u)
    BY <1>0 DEF Task, StatusTask, ListsProjects
<1>2. Continue(r, u)
    BY DEF ReadProject, Begin, Continue
<1>3. Moves(r) /\ Kept /\ UNCHANGED db
    BY <1>1, <1>2, MovesTo DEF ReadProject, Kept
<1>. QED BY <1>3, NothingWritten

LEMMA WriteProjectTyped ==
    ASSUME IInv, NEW r \in Requests, WriteProject(r)
    PROVE  IInv'
<1>1. Moves(r) /\ Kept
    BY IdleTask, MovesTo DEF WriteProject, Finish, Kept
<1>2. task[r].to \in ProjectStatus
    BY StatusFields, TypeParts DEF IInv, WriteProject
<1>3. CASE task[r].project \in Live(project)
    BY <1>1, <1>2, <1>3, ProjectWriteTyped DEF WriteProject
<1>4. CASE task[r].project \notin Live(project)
    BY <1>1, <1>4, NothingWritten DEF WriteProject, db
<1>. QED BY <1>3, <1>4

LEMMA DeleteProjectTyped ==
    ASSUME IInv, NEW r \in Requests, DeleteProject(r)
    PROVE  IInv'
<1> DEFINE j == task[r].project
<1>1. TablesOK /\ ProjectsLinked
    BY TypeParts DEF IInv
<1>2. Moves(r) /\ Kept
    BY IdleTask, MovesTo DEF DeleteProject, Finish, Kept
<1>3. CASE j \in Live(project)
  <2>1. project' = [project EXCEPT ![j] = Gone] /\ proposal' = Detached({}, {}, {j})
      BY <1>3 DEF DeleteProject
  <2> DEFINE none == {}
             js == {j}
  <2>2. proposal' = Detached(none, none, js)
      BY <2>1
  <2>3. Live(project) \ js \subseteq Live(project')
      BY <1>1, <2>1 DEF TablesOK, Live
  <2> HIDE DEF none, js
  <2>4. TablesOK'
      BY <1>1, <2>1, <2>2, DetachedTyped DEF DeleteProject, TablesOK
  <2>5. ProjectsLinked'
      BY <1>1, <2>2, <2>3, DetachedLinked
  <2>. QED BY <1>2, <2>4, <2>5, StepTyped
<1>4. CASE j \notin Live(project)
    BY <1>2, <1>4, NothingWritten DEF DeleteProject, db
<1>. QED BY <1>3, <1>4

LEMMA DecidingTyped ==
    ASSUME IInv, NEW r \in Requests, Deciding(r)
    PROVE  IInv'
BY ReadProposalTyped, WriteProposalTyped, ForceProjectTyped, ReadForEditTyped,
   EditProposalTyped, ReadForRemoveTyped, DeleteProposalTyped, ReadProjectTyped,
   WriteProjectTyped, DeleteProjectTyped
   DEF Deciding

-----------------------------------------------------------------------------
(* For any requests, restarts and races the tables and the requests keep   *)
(* their types, and no proposal refers to a project that is not there.     *)

LEMMA InitTyped == Init => IInv
<1> SUFFICES ASSUME Init PROVE IInv
    OBVIOUS
<1>1. TypeOK
    BY WorkflowAssumption, IdleTask DEF WorkflowAssumption, Init, TypeOK, Task
<1>2. Live(proposal) = {}
    BY DEF Init, Live
<1>3. \A r \in Requests : ListsProjects(task[r])
    BY IdleTask DEF Init
<1>. QED BY <1>1, <1>2, <1>3 DEF IInv, ProjectsLinked

LEMMA NextTyped == IInv /\ [Next]_vars => IInv'
<1> SUFFICES ASSUME IInv, [Next]_vars PROVE IInv'
    OBVIOUS
<1>1. CASE Restart
  <2>1. TypeOK'
    <3>1. restarts' \in 0 .. MaxRestarts
        BY <1>1, WorkflowAssumption DEF IInv, TypeOK, WorkflowAssumption, Restart
    <3>2. task' \in [Requests -> Task]
        BY <1>1, IdleTask DEF Restart
    <3>3. spoiled' \subseteq {"race", "crash", "patch"}
        BY <1>1 DEF Restart, Track, IInv, TypeOK
    <3>. QED BY <1>1, <3>1, <3>2, <3>3 DEF Restart, db, IInv, TypeOK, Task
  <2>2. ProjectsLinked'
      BY <1>1 DEF Restart, db, IInv, ProjectsLinked
  <2>3. \A r \in Requests : ListsProjects(task'[r])
      BY <1>1, IdleTask DEF Restart
  <2>. QED BY <2>1, <2>2, <2>3 DEF IInv
<1>2. CASE UNCHANGED vars
    BY <1>2 DEF vars, db, IInv, TypeOK, ProjectsLinked
<1>. QED BY <1>1, <1>2, ProposingTyped, AssemblingTyped, DecidingTyped DEF Next

THEOREM WorkflowTypeCorrect == Spec => []TypeOK
<1>1. Spec => []IInv
    BY InitTyped, NextTyped, PTL DEF Spec
<1>2. IInv => TypeOK
    BY DEF IInv
<1>. QED BY <1>1, <1>2, PTL

-----------------------------------------------------------------------------
(* Minutes.  The unique key alone keeps them single, whatever races there  *)
(* are: nothing else adds a row.                                           *)

LEMMA InsertsOne ==
    ASSUME TypeOK, OneMinutesPerAssembly, NEW r \in Requests, InsertMinutes(r)
    PROVE  OneMinutesPerAssembly'
<1> DEFINE a == task[r].assembly
           inserted == a \in Live(assembly) /\ minutes[a] = 0
<1>1. minutes \in [Assemblies -> Nat]
    BY DEF TypeOK
<1>2. CASE inserted
    BY <1>1, <1>2 DEF InsertMinutes, OneMinutesPerAssembly
<1>3. CASE ~inserted
    BY <1>3 DEF InsertMinutes, OneMinutesPerAssembly
<1>. QED BY <1>2, <1>3

LEMMA DeletesMinutes ==
    ASSUME TypeOK, OneMinutesPerAssembly, NEW r \in Requests, DeleteAssembly(r)
    PROVE  OneMinutesPerAssembly'
<1> DEFINE a == task[r].assembly
<1>1. minutes \in [Assemblies -> Nat]
    BY DEF TypeOK
<1>2. CASE a \in Live(assembly)
    BY <1>1, <1>2 DEF DeleteAssembly, OneMinutesPerAssembly
<1>3. CASE a \notin Live(assembly)
    BY <1>3 DEF DeleteAssembly, OneMinutesPerAssembly
<1>. QED BY <1>2, <1>3

LEMMA MinutesUntouched ==
    ASSUME NEW r \in Requests,
           Proposing(r) \/ Assembling(r) \/ Deciding(r),
           ~InsertMinutes(r), ~DeleteAssembly(r)
    PROVE  minutes' = minutes
<1>1. CASE Proposing(r)
    BY <1>1 DEF Proposing, CreateProject, InsertProposal, OpenBallot, LinkProposal,
                CreateProposal, FindAssembly, Assign, CreateAssembly, CreateVoting,
                RemoveVoting, db
<1>2. CASE Assembling(r)
    BY <1>2 DEF Assembling, ReadAssembly, StartOrComplete, WriteAssembly, CountVotes,
                ListProposals, DecideProposal, ApproveProject, CompleteAssembly,
                ReadForRemoveAssembly, ReadForMinutes, FindMinutes, db
<1>3. CASE Deciding(r)
    BY <1>3 DEF Deciding, ReadProposal, WriteProposal, ForceProject, ReadForEdit,
                EditProposal, ReadForRemoveProposal, DeleteProposal, ReadProject,
                WriteProject, ReadForRemoveProject, DeleteProject, db
<1>. QED BY <1>1, <1>2, <1>3

(* No assembly has two rows of minutes, however many secretaries find none *)
(* at the same time (the unique key on assemblyId, MinutesService.create). *)
THEOREM MinutesAreSingle == Spec => []OneMinutesPerAssembly
<1>1. Init => OneMinutesPerAssembly
    BY DEF Init, OneMinutesPerAssembly
<1>2. TypeOK /\ OneMinutesPerAssembly /\ [Next]_vars => OneMinutesPerAssembly'
  <2> SUFFICES ASSUME TypeOK, OneMinutesPerAssembly, [Next]_vars
               PROVE  OneMinutesPerAssembly'
      OBVIOUS
  <2>1. CASE Restart \/ UNCHANGED vars
      BY <2>1 DEF Restart, vars, db, OneMinutesPerAssembly
  <2>2. ASSUME NEW r \in Requests, Proposing(r) \/ Assembling(r) \/ Deciding(r)
        PROVE  OneMinutesPerAssembly'
      BY <2>2, InsertsOne, DeletesMinutes, MinutesUntouched DEF OneMinutesPerAssembly
  <2>. QED BY <2>1, <2>2 DEF Next
<1>. QED BY <1>1, <1>2, WorkflowTypeCorrect, PTL DEF Spec

-----------------------------------------------------------------------------
(* That minutes are of completed assemblies only rests on what requests    *)
(* have read: as long as nobody else writes the row, it is still so.       *)

Secretarial == {"writeAssembly", "findMinutes", "insertMinutes"}

\* The same of proposals, for the decisions further down.
Judging == {"writeProposal", "editProposal", "deleteProposal"} \cup Completing

StillTrue(t) ==
    /\ t.pc = "writeAssembly" => <<assembly[t.assembly], t.to>> \in AssemblySteps
    /\ t.pc \in {"findMinutes", "insertMinutes"} => assembly[t.assembly] = "COMPLETED"

ReadingsHold == "race" \notin spoiled => \A r \in Requests : StillTrue(task[r])

MinutesInv == MinutesAfterCompletion /\ ReadingsHold

\* A step to a state that relies on nothing read of an assembly.
Unread(r) == \E t : t.pc \notin Secretarial /\ Continue(r, t)

LEMMA NoRace ==
    ASSUME Track, "race" \notin spoiled'
    PROVE  "race" \notin spoiled /\ ~Races
BY DEF Track

LEMMA ReadingStays ==
    ASSUME TypeOK, Track, "race" \notin spoiled', ReadingsHold,
           NEW q \in Requests, task'[q] = task[q]
    PROVE  StillTrue(task[q])'
<1> DEFINE t == task[q]
<1>1. StillTrue(t)
    BY NoRace DEF ReadingsHold
<1>2. CASE t.pc \in Secretarial
  <2>1. ReliesOn(t) = {t.assembly}
      BY <1>2 DEF ReliesOn, Secretarial
  <2>2. ReliesOn(t) \cap Changed = {}
      BY NoRace DEF Races
  <2>3. t \in Task
      BY TypeParts
  <2>4. t.assembly \in Assemblies
      BY <1>2, <2>3, StatusFields, OtherFields DEF Secretarial
  <2>5. assembly'[t.assembly] = assembly[t.assembly]
      BY <2>1, <2>2, <2>4 DEF Changed
  <2>. QED BY <1>1, <2>5 DEF StillTrue
<1>3. CASE t.pc \notin Secretarial
    BY <1>3 DEF StillTrue, Secretarial
<1>. QED BY <1>2, <1>3

LEMMA ReadingsKept ==
    ASSUME TypeOK, ReadingsHold, Track, NEW r \in Requests, NEW t, Continue(r, t),
           StillTrue(t)'
    PROVE  ReadingsHold'
<1> SUFFICES ASSUME "race" \notin spoiled', NEW q \in Requests
             PROVE  StillTrue(task[q])'
    BY DEF ReadingsHold
<1>1. task \in [Requests -> Task]
    BY TypeParts
<1>2. CASE q = r
  <2>1. task'[q] = t
      BY <1>1, <1>2 DEF Continue
  <2>. QED BY <2>1 DEF StillTrue
<1>3. CASE q # r
    BY <1>1, <1>3, ReadingStays DEF Continue
<1>. QED BY <1>2, <1>3

\* A step that writes no assembly and no minutes, to a state without readings.
LEMMA NothingRead ==
    ASSUME TypeOK, MinutesInv, Track, NEW r \in Requests, Unread(r),
           UNCHANGED <<assembly, minutes>>
    PROVE  MinutesInv'
<1>1. MinutesAfterCompletion'
    BY NoRace DEF MinutesInv, MinutesAfterCompletion
<1>2. PICK t : t.pc \notin Secretarial /\ Continue(r, t)
    BY DEF Unread
<1>3. StillTrue(t)'
    BY <1>2 DEF StillTrue, Secretarial
<1>. QED BY <1>1, <1>2, <1>3, ReadingsKept DEF MinutesInv

LEMMA NextUnread ==
    /\ Idle.pc \notin Secretarial
    /\ \A p, w : AfterAssign(p, w).pc \notin Secretarial
    /\ \A a, todo : AfterVoting(a, todo).pc \notin Secretarial
    /\ \A a, todo, passed, seen : AfterProposal(a, todo, passed, seen).pc \notin Secretarial
BY DEF Idle, Secretarial, AfterAssign, AfterVoting, AfterProposal

LEMMA UnreadStep ==
    ASSUME NEW r \in Requests, NEW t, t.pc \notin Secretarial, Continue(r, t)
    PROVE  Unread(r)
BY DEF Unread

\* A step to a state that relies on neither.
Quiet(r) == \E t : t.pc \notin Secretarial \cup Judging /\ Continue(r, t)

LEMMA QuietStep ==
    ASSUME NEW r \in Requests, NEW t, t.pc \notin Secretarial \cup Judging, Continue(r, t)
    PROVE  Quiet(r)
BY DEF Quiet

LEMMA NextQuiet ==
    /\ Idle.pc \notin Secretarial \cup Judging
    /\ \A p, w : AfterAssign(p, w).pc \notin Secretarial \cup Judging
BY DEF Idle, Secretarial, Judging, Completing, AfterAssign

\* Proposing reads nothing to write by it.
LEMMA ProposingQuiet ==
    ASSUME TypeOK, NEW r \in Requests, Proposing(r),
           ~\E a \in Assemblies : CreateAssembly(r, a)
    PROVE  Track /\ Quiet(r) /\ UNCHANGED <<assembly, minutes>>
<1>1. ASSUME NEW j \in Projects, NEW a \in Link(Assemblies), CreateProject(r, j, a)
      PROVE  Quiet(r)
  <2> DEFINE u == [pc |-> "insertProposal", project |-> j, assembly |-> a]
  <2>1. u.pc \notin Secretarial \cup Judging /\ Continue(r, u)
      BY <1>1 DEF CreateProject, Begin, Continue, Secretarial, Judging, Completing
  <2>. QED BY <2>1, QuietStep
<1>2. ASSUME NEW p \in Proposals, InsertProposal(r, p)
      PROVE  Quiet(r)
  <2> DEFINE u == [pc |-> "ballot", assembly |-> task[r].assembly, proposal |-> p]
  <2>1. u.pc \notin Secretarial \cup Judging
      BY DEF Secretarial, Judging, Completing
  <2>2. Continue(r, Idle) \/ Continue(r, u)
      BY <1>2 DEF InsertProposal, Finish
  <2>. QED BY <2>1, <2>2, QuietStep, NextQuiet
<1>3. ASSUME NEW v \in Votings, OpenBallot(r, v)
      PROVE  Quiet(r)
  <2> DEFINE u == [pc |-> "link", proposal |-> task[r].proposal, voting |-> v]
  <2>1. u.pc \notin Secretarial \cup Judging
      BY DEF Secretarial, Judging, Completing
  <2>2. Continue(r, Idle) \/ Continue(r, u)
      BY <1>3 DEF OpenBallot, Finish
  <2>. QED BY <2>1, <2>2, QuietStep, NextQuiet
<1>4. LinkProposal(r) => Quiet(r)
    BY QuietStep, NextQuiet DEF LinkProposal, Finish
<1>5. ASSUME NEW p \in Proposals, NEW j \in Link(Projects), NEW w \in Links,
             CreateProposal(r, p, j, w)
      PROVE  Quiet(r)
  <2> DEFINE u == [pc |-> "findAssembly", proposal |-> p, wanted |-> w]
  <2>1. u.pc \notin Secretarial \cup Judging /\ Continue(r, u)
      BY <1>5 DEF CreateProposal, Begin, Continue, Secretarial, Judging, Completing
  <2>. QED BY <2>1, QuietStep
<1>6. ASSUME NEW a \in Link(Assemblies), FindAssembly(r, a)
      PROVE  Quiet(r)
  <2> DEFINE u == [pc |-> "assign", proposal |-> task[r].proposal,
                   wanted |-> task[r].wanted,
                   links |-> [assembly |-> a, voting |-> None]]
             next == AfterAssign(task[r].proposal, task[r].wanted)
  <2>1. u.pc \notin Secretarial \cup Judging /\ next.pc \notin Secretarial \cup Judging
      BY NextQuiet DEF Secretarial, Judging, Completing
  <2>2. Continue(r, next) \/ Continue(r, u)
      BY <1>6 DEF FindAssembly
  <2> HIDE DEF u, next
  <2>. QED BY <2>1, <2>2, QuietStep
<1>7. Assign(r) => Quiet(r)
    BY QuietStep, NextQuiet DEF Assign, Finish
<1>8. ASSUME NEW v \in Votings, NEW a \in Assemblies, NEW ps \in SUBSET Proposals,
             CreateVoting(r, v, a, ps)
      PROVE  Quiet(r)
    BY <1>8, QuietStep, NextQuiet DEF CreateVoting, Begin, Continue
<1>9. ASSUME NEW v \in Votings, RemoveVoting(r, v)
      PROVE  Quiet(r)
    BY <1>9, QuietStep, NextQuiet DEF RemoveVoting, Begin, Continue
<1>10. Quiet(r)
    BY <1>1, <1>2, <1>3, <1>4, <1>5, <1>6, <1>7, <1>8, <1>9 DEF Proposing
<1>11. Track /\ UNCHANGED <<assembly, minutes>>
    BY DEF Proposing, CreateProject, InsertProposal, OpenBallot, LinkProposal,
           CreateProposal, FindAssembly, Assign, CreateVoting, RemoveVoting, db
<1>. QED BY <1>10, <1>11

LEMMA QuietUnread == \A r : Quiet(r) => Unread(r)
BY DEF Quiet, Unread

LEMMA DecidingUnread ==
    ASSUME TypeOK, NEW r \in Requests, Deciding(r)
    PROVE  Track /\ Unread(r) /\ UNCHANGED <<assembly, minutes>>
<1>1. ASSUME NEW p \in Proposals, NEW s \in ProposalStatus, ReadProposal(r, p, s)
      PROVE  Unread(r)
  <2> DEFINE u == [pc |-> "writeProposal", proposal |-> p, to |-> s,
                   project |-> proposal[p].project]
  <2>1. u.pc \notin Secretarial /\ Continue(r, u)
      BY <1>1 DEF ReadProposal, Begin, Continue, Secretarial
  <2>. QED BY <2>1, UnreadStep
<1>2. WriteProposal(r) => Unread(r)
  <2> DEFINE u == [pc |-> "forceProject", project |-> task[r].project]
  <2>1. u.pc \notin Secretarial
      BY DEF Secretarial
  <2>2. WriteProposal(r) => Continue(r, Idle) \/ Continue(r, u)
      BY DEF WriteProposal, Finish
  <2>. QED BY <2>1, <2>2, UnreadStep, NextUnread
<1>3. ASSUME NEW p \in Proposals, NEW patch \in Patches, ReadForEdit(r, p, patch)
      PROVE  Unread(r)
  <2> DEFINE u == [pc |-> "editProposal", proposal |-> p, patch |-> patch]
  <2>1. u.pc \notin Secretarial /\ Continue(r, u)
      BY <1>3 DEF ReadForEdit, Begin, Continue, Secretarial
  <2>. QED BY <2>1, UnreadStep
<1>4. ASSUME NEW p \in Proposals, ReadForRemoveProposal(r, p)
      PROVE  Unread(r)
  <2> DEFINE u == [pc |-> "deleteProposal", proposal |-> p]
  <2>1. u.pc \notin Secretarial /\ Continue(r, u)
      BY <1>4 DEF ReadForRemoveProposal, Begin, Continue, Secretarial
  <2>. QED BY <2>1, UnreadStep
<1>5. ASSUME NEW j \in Projects, NEW s \in ProjectStatus, ReadProject(r, j, s)
      PROVE  Unread(r)
  <2> DEFINE u == [pc |-> "writeProject", project |-> j, to |-> s]
  <2>1. u.pc \notin Secretarial /\ Continue(r, u)
      BY <1>5 DEF ReadProject, Begin, Continue, Secretarial
  <2>. QED BY <2>1, UnreadStep
<1>6. ASSUME NEW j \in Projects, ReadForRemoveProject(r, j)
      PROVE  Unread(r)
  <2> DEFINE u == [pc |-> "deleteProject", project |-> j]
  <2>1. u.pc \notin Secretarial /\ Continue(r, u)
      BY <1>6 DEF ReadForRemoveProject, Begin, Continue, Secretarial
  <2>. QED BY <2>1, UnreadStep
<1>7. ForceProject(r) \/ EditProposal(r) \/ DeleteProposal(r) \/ WriteProject(r)
          \/ DeleteProject(r) => Continue(r, Idle)
    BY DEF ForceProject, EditProposal, DeleteProposal, WriteProject, DeleteProject, Finish
<1>8. Unread(r)
    BY <1>1, <1>2, <1>3, <1>4, <1>5, <1>6, <1>7, UnreadStep, NextUnread DEF Deciding
<1>9. Track /\ UNCHANGED <<assembly, minutes>>
    BY DEF Deciding, ReadProposal, WriteProposal, ForceProject, ReadForEdit, EditProposal,
           ReadForRemoveProposal, DeleteProposal, ReadProject, WriteProject,
           ReadForRemoveProject, DeleteProject, db
<1>. QED BY <1>8, <1>9

LEMMA CompletingUnread ==
    ASSUME TypeOK, NEW r \in Requests,
           \/ \E v \in Votings, passed \in BOOLEAN : CountVotes(r, v, passed)
           \/ ListProposals(r)
           \/ \E x \in task[r].seen : DecideProposal(r, x)
           \/ ApproveProject(r)
           \/ \E a \in Assemblies : ReadForRemoveAssembly(r, a)
    PROVE  Track /\ Unread(r) /\ UNCHANGED <<assembly, minutes>>
<1> DEFINE t == task[r]
<1>1. ASSUME NEW v \in Votings, NEW passed \in BOOLEAN, CountVotes(r, v, passed)
      PROVE  Unread(r)
  <2> DEFINE u == [pc |-> "proposals", assembly |-> t.assembly, todo |-> t.todo \ {v},
                   voting |-> v, passed |-> passed]
  <2>1. u.pc \notin Secretarial
      BY DEF Secretarial
  <2>2. Continue(r, Idle) \/ Continue(r, u)
      BY <1>1 DEF CountVotes
  <2> HIDE DEF u
  <2>. QED BY <2>1, <2>2, UnreadStep, NextUnread
<1>2. ListProposals(r) => Unread(r)
    BY UnreadStep, NextUnread DEF ListProposals
<1>3. ASSUME NEW x \in t.seen, DecideProposal(r, x)
      PROVE  Unread(r)
  <2> DEFINE next == AfterProposal(t.assembly, t.todo, t.passed, t.seen \ {x})
             u == [pc |-> "approveProject", assembly |-> t.assembly,
                   todo |-> t.todo, passed |-> t.passed,
                   seen |-> t.seen \ {x}, project |-> x.project]
  <2>1. u.pc \notin Secretarial /\ next.pc \notin Secretarial
      BY NextUnread DEF Secretarial
  <2>2. Continue(r, Idle) \/ Continue(r, u) \/ Continue(r, next)
      BY <1>3 DEF DecideProposal, Finish
  <2> HIDE DEF u, next
  <2>. QED BY <2>1, <2>2, UnreadStep, NextUnread
<1>4. ApproveProject(r) => Unread(r)
    BY UnreadStep, NextUnread DEF ApproveProject, Finish
<1>5. ASSUME NEW a \in Assemblies, ReadForRemoveAssembly(r, a)
      PROVE  Unread(r)
  <2> DEFINE u == [pc |-> "deleteAssembly", assembly |-> a]
  <2>1. u.pc \notin Secretarial /\ Continue(r, u)
      BY <1>5 DEF ReadForRemoveAssembly, Begin, Continue, Secretarial
  <2>. QED BY <2>1, UnreadStep
<1>6. Unread(r)
    BY <1>1, <1>2, <1>3, <1>4, <1>5
<1>7. Track /\ UNCHANGED <<assembly, minutes>>
    BY DEF CountVotes, ListProposals, DecideProposal, ApproveProject,
           ReadForRemoveAssembly, db
<1>. QED BY <1>6, <1>7

\* The reads that a write of an assembly or of minutes rests on.
LEMMA ReadingTaken ==
    ASSUME TypeOK, MinutesInv, Track, NEW r \in Requests, NEW t, Continue(r, t),
           StillTrue(t), UNCHANGED <<assembly, minutes>>
    PROVE  MinutesInv'
<1>1. MinutesAfterCompletion'
    BY NoRace DEF MinutesInv, MinutesAfterCompletion
<1>2. StillTrue(t)'
    BY DEF StillTrue
<1>. QED BY <1>1, <1>2, ReadingsKept DEF MinutesInv

LEMMA ReadsAssembly ==
    ASSUME TypeOK, MinutesInv, NEW r \in Requests, NEW a \in Assemblies,
           NEW s \in AssemblyStatus, ReadAssembly(r, a, s)
    PROVE  MinutesInv'
<1> DEFINE u == [pc |-> "writeAssembly", assembly |-> a, to |-> s]
           w == [pc |-> "startOrComplete", assembly |-> a, to |-> s]
<1>1. StillTrue(u) /\ StillTrue(w)
    BY DEF ReadAssembly, StillTrue
<1>2. Continue(r, u) \/ Continue(r, w)
    BY DEF ReadAssembly, Begin, Continue
<1>3. Track /\ UNCHANGED <<assembly, minutes>>
    BY DEF ReadAssembly, db
<1> HIDE DEF u, w
<1>. QED BY <1>1, <1>2, <1>3, ReadingTaken

LEMMA StartsOrCompletes ==
    ASSUME TypeOK, MinutesInv, NEW r \in Requests, StartOrComplete(r)
    PROVE  MinutesInv'
<1> DEFINE a == task[r].assembly
           s == task[r].to
           u == [pc |-> "writeAssembly", assembly |-> a, to |-> s]
           next == AfterVoting(a, VotingsOf(a))
           may == <<assembly[a], s>> \in AssemblySteps
<1>1. may => StillTrue(u)
    BY DEF StillTrue
<1>2. StillTrue(Idle) /\ StillTrue(next)
    BY NextUnread DEF StillTrue, Secretarial
<1>3. Continue(r, Idle) \/ Continue(r, next) \/ (may /\ Continue(r, u))
    BY DEF StartOrComplete
<1>4. Track /\ UNCHANGED <<assembly, minutes>>
    BY DEF StartOrComplete, db
<1> HIDE DEF u, next, may
<1>. QED BY <1>1, <1>2, <1>3, <1>4, ReadingTaken

LEMMA ReadsForMinutes ==
    ASSUME TypeOK, MinutesInv, NEW r \in Requests, NEW a \in Assemblies,
           ReadForMinutes(r, a)
    PROVE  MinutesInv'
<1> DEFINE u == [pc |-> "findMinutes", assembly |-> a]
<1>1. StillTrue(u)
    BY DEF ReadForMinutes, StillTrue
<1>2. Continue(r, u)
    BY DEF ReadForMinutes, Begin, Continue
<1>3. Track /\ UNCHANGED <<assembly, minutes>>
    BY DEF ReadForMinutes, db
<1> HIDE DEF u
<1>. QED BY <1>1, <1>2, <1>3, ReadingTaken

LEMMA FindsMinutes ==
    ASSUME TypeOK, MinutesInv, NEW r \in Requests, FindMinutes(r)
    PROVE  MinutesInv'
<1> DEFINE u == [pc |-> "insertMinutes", assembly |-> task[r].assembly]
<1>1. Track /\ UNCHANGED <<assembly, minutes>>
    BY DEF FindMinutes, db
<1>2. StillTrue(Idle)
    BY NextUnread DEF StillTrue, Secretarial
<1>3. CASE Continue(r, Idle)
    BY <1>1, <1>2, <1>3, ReadingTaken
<1>4. CASE Continue(r, u)
  <2> SUFFICES ASSUME "race" \notin spoiled' PROVE MinutesInv'
      BY DEF MinutesInv, MinutesAfterCompletion, ReadingsHold
  <2>1. StillTrue(task[r])
      BY <1>1, NoRace DEF MinutesInv, ReadingsHold
  <2>2. StillTrue(u)
      BY <2>1 DEF FindMinutes, StillTrue
  <2> HIDE DEF u
  <2>. QED BY <1>1, <1>4, <2>2, ReadingTaken
<1>. QED BY <1>3, <1>4 DEF FindMinutes

\* The writes of assemblies and of minutes.
LEMMA WritesOnce ==
    ASSUME TypeOK, MinutesInv, Track, NEW r \in Requests, Continue(r, Idle),
           "race" \notin spoiled' => MinutesAfterCompletion'
    PROVE  MinutesInv'
<1>1. StillTrue(Idle)'
    BY NextUnread DEF StillTrue, Secretarial, Idle
<1>2. MinutesAfterCompletion'
    BY DEF MinutesAfterCompletion
<1>. QED BY <1>1, <1>2, ReadingsKept DEF MinutesInv

LEMMA WritesAssembly ==
    ASSUME TypeOK, MinutesInv, NEW r \in Requests,
           WriteAssembly(r) \/ CompleteAssembly(r)
                            \/ \E a \in Assemblies : CreateAssembly(r, a)
    PROVE  MinutesInv'
<1>1. Track /\ Continue(r, Idle) /\ minutes' = minutes
    BY DEF WriteAssembly, CompleteAssembly, CreateAssembly, Begin, Finish, Continue
<1>2. assembly \in [Assemblies -> AssemblyStatus \cup {None, Gone}]
    BY DEF TypeOK
<1>3. ASSUME "race" \notin spoiled', NEW a \in Assemblies, minutes[a] > 0
      PROVE  assembly'[a] = "COMPLETED"
  <2>1. assembly[a] = "COMPLETED" /\ StillTrue(task[r])
      BY <1>1, <1>3, NoRace DEF MinutesInv, MinutesAfterCompletion, ReadingsHold
  <2>2. CASE WriteAssembly(r)
    <3>1. <<assembly[task[r].assembly], task[r].to>> \in AssemblySteps
        BY <2>1, <2>2 DEF StillTrue, WriteAssembly
    <3>2. task[r].assembly # a
        BY <2>1, <3>1 DEF AssemblySteps
    <3>. QED BY <1>2, <2>1, <2>2, <3>2 DEF WriteAssembly
  <2>3. CASE CompleteAssembly(r)
      BY <1>2, <2>1, <2>3 DEF CompleteAssembly
  <2>4. ASSUME NEW b \in Assemblies, CreateAssembly(r, b)
        PROVE  assembly'[a] = "COMPLETED"
    <3>1. b # a
        BY <2>1, <2>4, WorkflowAssumption
           DEF CreateAssembly, WorkflowAssumption, AssemblyStatus
    <3>. QED BY <1>2, <2>1, <2>4, <3>1 DEF CreateAssembly
  <2>. QED BY <2>2, <2>3, <2>4
<1>4. "race" \notin spoiled' => MinutesAfterCompletion'
    BY <1>1, <1>3 DEF MinutesAfterCompletion
<1>. QED BY <1>1, <1>4, WritesOnce

LEMMA WritesMinutes ==
    ASSUME TypeOK, MinutesInv, NEW r \in Requests, InsertMinutes(r) \/ DeleteAssembly(r)
    PROVE  MinutesInv'
<1> DEFINE b == task[r].assembly
<1>1. Track /\ Continue(r, Idle)
    BY DEF InsertMinutes, DeleteAssembly, Finish
<1>2. assembly \in [Assemblies -> AssemblyStatus \cup {None, Gone}]
         /\ minutes \in [Assemblies -> Nat]
    BY DEF TypeOK
<1>3. ASSUME "race" \notin spoiled', NEW a \in Assemblies, minutes'[a] > 0
      PROVE  assembly'[a] = "COMPLETED"
  <2>1. (minutes[a] > 0 => assembly[a] = "COMPLETED") /\ StillTrue(task[r])
      BY <1>1, <1>3, NoRace DEF MinutesInv, MinutesAfterCompletion, ReadingsHold
  <2>2. CASE InsertMinutes(r)
    <3>1. assembly' = assembly /\ assembly[b] = "COMPLETED"
        BY <2>1, <2>2 DEF InsertMinutes, StillTrue
    <3>2. a # b => minutes'[a] = minutes[a]
        BY <1>2, <2>2 DEF InsertMinutes
    <3>. QED BY <1>3, <2>1, <3>1, <3>2
  <2>3. CASE DeleteAssembly(r) /\ b \in Live(assembly)
    <3>1. minutes' = [minutes EXCEPT ![b] = 0] /\ assembly' = [assembly EXCEPT ![b] = Gone]
        BY <2>3 DEF DeleteAssembly
    <3>2. a # b
        BY <1>2, <1>3, <3>1
    <3>. QED BY <1>2, <1>3, <2>1, <3>1, <3>2
  <2>4. CASE DeleteAssembly(r) /\ b \notin Live(assembly)
      BY <1>3, <2>1, <2>4 DEF DeleteAssembly
  <2>. QED BY <2>2, <2>3, <2>4
<1>4. "race" \notin spoiled' => MinutesAfterCompletion'
    BY <1>3 DEF MinutesAfterCompletion
<1>. QED BY <1>1, <1>4, WritesOnce

(* As long as no request's reading of an assembly is overtaken, minutes    *)
(* are of completed assemblies, for any number of secretaries, officers    *)
(* and restarts (MinutesService.create, canTransitionAssemblyStatus).      *)
THEOREM MinutesOfCompleted == Spec => []MinutesAfterCompletion
<1>1. Init => MinutesInv
  <2> SUFFICES ASSUME Init PROVE MinutesInv
      OBVIOUS
  <2>1. MinutesAfterCompletion
      BY DEF Init, MinutesAfterCompletion
  <2>2. StillTrue(Idle)
      BY NextUnread DEF StillTrue, Secretarial
  <2>. QED BY <2>1, <2>2 DEF Init, MinutesInv, ReadingsHold
<1>2. TypeOK /\ MinutesInv /\ [Next]_vars => MinutesInv'
  <2> SUFFICES ASSUME TypeOK, MinutesInv, [Next]_vars PROVE MinutesInv'
      OBVIOUS
  <2>1. CASE UNCHANGED vars
      BY <2>1 DEF vars, db, MinutesInv, MinutesAfterCompletion, ReadingsHold, StillTrue
  <2>2. CASE Restart
    <3>1. StillTrue(Idle)'
        BY NextUnread DEF StillTrue, Secretarial, Idle
    <3>2. ReadingsHold'
        BY <2>2, <3>1 DEF Restart, ReadingsHold, StillTrue
    <3>3. MinutesAfterCompletion'
        BY <2>2, NoRace DEF Restart, db, MinutesInv, MinutesAfterCompletion
    <3>. QED BY <3>2, <3>3 DEF MinutesInv
  <2>3. ASSUME NEW r \in Requests, Proposing(r)
        PROVE  MinutesInv'
      BY <2>3, ProposingQuiet, QuietUnread, NothingRead, WritesAssembly
  <2>4. ASSUME NEW r \in Requests, Deciding(r)
        PROVE  MinutesInv'
      BY <2>4, DecidingUnread, NothingRead
  <2>5. ASSUME NEW r \in Requests, Assembling(r)
        PROVE  MinutesInv'
    <3>1. CASE \/ \E v \in Votings, passed \in BOOLEAN : CountVotes(r, v, passed)
               \/ ListProposals(r)
               \/ \E x \in task[r].seen : DecideProposal(r, x)
               \/ ApproveProject(r)
               \/ \E a \in Assemblies : ReadForRemoveAssembly(r, a)
        BY <3>1, CompletingUnread, NothingRead
    <3>2. CASE \/ \E a \in Assemblies, s \in AssemblyStatus : ReadAssembly(r, a, s)
               \/ StartOrComplete(r)
               \/ \E a \in Assemblies : ReadForMinutes(r, a)
               \/ FindMinutes(r)
        BY <3>2, ReadsAssembly, StartsOrCompletes, ReadsForMinutes, FindsMinutes
    <3>3. CASE WriteAssembly(r) \/ CompleteAssembly(r) \/ DeleteAssembly(r)
                   \/ InsertMinutes(r)
        BY <3>3, WritesAssembly, WritesMinutes
    <3>4. CASE \E x \in (IF task[r].pc = "decide" THEN task[r].seen ELSE {}) :
                   DecideProposal(r, x)
        BY <3>1, <3>4
    <3>. QED BY <2>5, <3>1, <3>2, <3>3, <3>4 DEF Assembling
  <2>. QED BY <2>1, <2>2, <2>3, <2>4, <2>5 DEF Next
<1>3. MinutesInv => MinutesAfterCompletion
    BY DEF MinutesInv
<1>. QED BY <1>1, <1>2, <1>3, WorkflowTypeCorrect, PTL DEF Spec

-----------------------------------------------------------------------------
(* That decisions stand rests on what requests have read of proposals:     *)
(* without a race a status is still the one that was read.                 *)

\* The proposals a completion has listed are those of its votings.
SeenTrue(a, seen) ==
    /\ \A x \in seen :
           /\ x.id \in Live(proposal)
           /\ proposal[x.id].status = x.status
           /\ proposal[x.id].voting \in VotingsOf(a)
    /\ \A x, y \in seen : x.id = y.id => x = y

StatusTrue(t) ==
    /\ t.pc = "writeProposal" /\ t.proposal \in Live(proposal) =>
           <<proposal[t.proposal].status, t.to>> \in ProposalSteps
    /\ t.pc = "editProposal" /\ t.proposal \in Live(proposal) =>
           proposal[t.proposal].status = "PENDING"
    /\ t.pc = "deleteProposal" /\ t.proposal \in Live(proposal) =>
           proposal[t.proposal].status # "APPROVED"

AgendaTrue(t) ==
    /\ t.pc \in Completing \ {"complete"} => t.todo \subseteq VotingsOf(t.assembly)
    /\ t.pc = "proposals" => t.voting \in VotingsOf(t.assembly)
    /\ t.pc \in {"decide", "approveProject"} => SeenTrue(t.assembly, t.seen)

Judged(t) == StatusTrue(t) /\ AgendaTrue(t)

JudgedInv == "race" \notin spoiled => \A r \in Requests : Judged(task[r])

\* What a step may do to a proposal.
Stands(p) ==
    IF proposal'[p] = Gone THEN proposal[p].status # "APPROVED"
    ELSE \/ proposal'[p].status = proposal[p].status
         \/ <<proposal[p].status, proposal'[p].status>> \in ProposalSteps

AllStand == \A p \in Live(proposal) : "race" \notin spoiled' => Stands(p)

LEMMA StatusStays ==
    ASSUME TypeOK, Track, "race" \notin spoiled', JudgedInv,
           NEW q \in Requests, task'[q] = task[q]
    PROVE  StatusTrue(task[q])'
<1> DEFINE t == task[q]
<1>1. StatusTrue(t) /\ ReliesOn(t) \cap Changed = {} /\ t \in Task
    BY NoRace, TypeParts DEF JudgedInv, Judged, Races
<1>2. CASE t.pc \in {"writeProposal", "editProposal", "deleteProposal"}
  <2>1. ReliesOn(t) = {t.proposal}
      BY <1>2 DEF ReliesOn
  <2>2. t.proposal \in Proposals
      BY <1>1, <1>2, StatusFields, OtherFields
  <2>3. proposal'[t.proposal] = proposal[t.proposal]
      BY <1>1, <2>1, <2>2 DEF Changed
  <2>4. t.proposal \in Live(proposal') => t.proposal \in Live(proposal)
      BY <2>2, <2>3 DEF Live, TypeOK
  <2>. QED BY <1>1, <2>3, <2>4 DEF StatusTrue
<1>3. CASE t.pc \notin {"writeProposal", "editProposal", "deleteProposal"}
    BY <1>3 DEF StatusTrue
<1>. QED BY <1>2, <1>3

LEMMA AgendaStays ==
    ASSUME TypeOK, TypeOK', Track, "race" \notin spoiled', JudgedInv,
           NEW q \in Requests, task'[q] = task[q]
    PROVE  AgendaTrue(task[q])'
<1> DEFINE t == task[q]
           a == t.assembly
<1>1. AgendaTrue(t) /\ ReliesOn(t) \cap Changed = {} /\ t \in Task
    BY NoRace, TypeParts DEF JudgedInv, Judged, Races
<1>2. CASE t.pc \in Completing \ {"complete"}
  <2>1. ReliesOn(t) = Agenda(a) \cup Agenda(a)'
      BY <1>2 DEF ReliesOn, Completing
  <2>2. \A v \in VotingsOf(a) : v \in Agenda(a)
      BY DEF Agenda
  <2>3. \A v \in VotingsOf(a) : v \in VotingsOf(a)'
      BY <1>1, <2>1, <2>2 DEF Changed, VotingsOf
  <2>4. CASE t.pc \in {"decide", "approveProject"}
    <3>1. SeenTrue(a, t.seen)
        BY <1>1, <2>4 DEF AgendaTrue
    <3>2. ASSUME NEW x \in t.seen
          PROVE  /\ x.id \in Live(proposal')
                 /\ proposal'[x.id].status = x.status
                 /\ proposal'[x.id].voting \in VotingsOf(a)'
      <4>1. /\ x.id \in Live(proposal) /\ proposal[x.id].status = x.status
            /\ proposal[x.id].voting \in VotingsOf(a)
          BY <3>1 DEF SeenTrue
      <4>2. x.id \in ProposalsIn(proposal[x.id].voting)
          BY <4>1 DEF ProposalsIn
      <4>3. x.id \in Agenda(a)
          BY <4>1, <4>2 DEF Agenda
      <4>4. x.id \in Proposals
          BY <4>1 DEF Live, TypeOK
      <4>5. proposal'[x.id] = proposal[x.id]
          BY <1>1, <2>1, <4>3, <4>4 DEF Changed
      <4>6. x.id \in Live(proposal')
          BY <4>1, <4>4, <4>5 DEF Live, TypeOK
      <4>. QED BY <2>3, <4>1, <4>5, <4>6
    <3>. QED BY <2>3, <2>4, <3>1, <3>2, <1>1 DEF AgendaTrue, SeenTrue
  <2>5. CASE t.pc \notin {"decide", "approveProject"}
      BY <1>1, <2>3, <2>5 DEF AgendaTrue
  <2>. QED BY <2>4, <2>5
<1>3. CASE t.pc \notin Completing \ {"complete"}
    BY <1>3 DEF AgendaTrue, Completing
<1>. QED BY <1>2, <1>3

LEMMA JudgedKept ==
    ASSUME TypeOK, TypeOK', JudgedInv, Track, NEW r \in Requests, NEW t, Continue(r, t),
           "race" \notin spoiled' => Judged(t)'
    PROVE  JudgedInv'
<1> SUFFICES ASSUME "race" \notin spoiled', NEW q \in Requests
             PROVE  Judged(task[q])'
    BY DEF JudgedInv
<1>1. task \in [Requests -> Task]
    BY TypeParts
<1>2. CASE q = r
  <2>1. task'[q] = t
      BY <1>1, <1>2 DEF Continue
  <2>. QED BY <2>1 DEF Judged, StatusTrue, AgendaTrue
<1>3. CASE q # r
  <2>1. task'[q] = task[q]
      BY <1>1, <1>3 DEF Continue
  <2>. QED BY <2>1, StatusStays, AgendaStays DEF Judged
<1>. QED BY <1>2, <1>3

\* A step to a state that relies on nothing read of a proposal.
Unjudging(r) == \E t : t.pc \notin Judging /\ Continue(r, t)

LEMMA UnjudgingStep ==
    ASSUME NEW r \in Requests, NEW t, t.pc \notin Judging, Continue(r, t)
    PROVE  Unjudging(r)
BY DEF Unjudging

LEMMA NothingJudged ==
    ASSUME TypeOK, TypeOK', JudgedInv, Track, NEW r \in Requests, Unjudging(r)
    PROVE  JudgedInv'
<1>1. PICK t : t.pc \notin Judging /\ Continue(r, t)
    BY DEF Unjudging
<1>2. Judged(t)'
    BY <1>1 DEF Judging, Judged, StatusTrue, AgendaTrue, Completing
<1>. QED BY <1>1, <1>2, JudgedKept

\* A step that writes neither votings nor proposals, to a state that is true.
LEMMA JudgedTaken ==
    ASSUME TypeOK, TypeOK', JudgedInv, Track, NEW r \in Requests, NEW t, Continue(r, t),
           UNCHANGED <<voting, proposal>>, "race" \notin spoiled => Judged(t)
    PROVE  JudgedInv'
<1>1. "race" \notin spoiled' => Judged(t)'
    BY NoRace DEF Judged, StatusTrue, AgendaTrue, SeenTrue, VotingsOf, Live
<1>. QED BY <1>1, JudgedKept

LEMMA AfterProposalJudged ==
    ASSUME NEW a, NEW todo, NEW passed, NEW seen,
           todo \subseteq VotingsOf(a), SeenTrue(a, seen)
    PROVE  Judged(AfterProposal(a, todo, passed, seen))
BY DEF AfterProposal, AfterVoting, Judged, StatusTrue, AgendaTrue, Completing

LEMMA AfterVotingJudged ==
    ASSUME NEW a, NEW todo, todo \subseteq VotingsOf(a)
    PROVE  Judged(AfterVoting(a, todo))
BY DEF AfterVoting, Judged, StatusTrue, AgendaTrue, Completing

LEMMA IdleJudged == Judged(Idle) /\ Idle.pc \notin Judging
BY DEF Idle, Judged, StatusTrue, AgendaTrue, Completing, Judging

-----------------------------------------------------------------------------
(* The statuses of proposals step by step.                                 *)

KeepsStatus ==
    \A p \in Live(proposal) :
        proposal'[p] # Gone /\ proposal'[p].status = proposal[p].status

LEMMA KeptStands == KeepsStatus => AllStand
BY DEF KeepsStatus, AllStand, Stands

LEMMA SameKeeps == proposal' = proposal => KeepsStatus
BY DEF KeepsStatus, Live

LEMMA RowsAreNotGone == \A row \in Proposal : row # None /\ row # Gone
BY WorkflowAssumption DEF WorkflowAssumption

LEMMA DetachedKeeps ==
    ASSUME TypeOK, NEW as, NEW vs, NEW js, proposal' = Detached(as, vs, js)
    PROVE  KeepsStatus
<1>1. \A p \in Live(proposal) : proposal'[p] \in Proposal
                                    /\ proposal'[p].status = proposal[p].status
    BY TypeParts, DetachedRows
<1>. QED BY <1>1, RowsAreNotGone DEF KeepsStatus

\* One row is written, and keeps its status or was none.
LEMMA WrittenKeeps ==
    ASSUME TypeOK, TypeOK', NEW p \in Proposals, NEW row,
           proposal' = [proposal EXCEPT ![p] = row],
           \/ proposal[p] = None
           \/ row # Gone /\ row.status = proposal[p].status
    PROVE  KeepsStatus
BY DEF TypeOK, KeepsStatus, Live

LEMMA ProposingKeeps ==
    ASSUME TypeOK, TypeOK', NEW r \in Requests, Proposing(r)
    PROVE  KeepsStatus
<1> DEFINE t == task[r]
<1>0. t \in Task
    BY TypeParts
<1>1. ASSUME NEW p \in Proposals, InsertProposal(r, p)
      PROVE  KeepsStatus
    BY <1>1, WrittenKeeps, SameKeeps DEF InsertProposal
<1>2. LinkProposal(r) => KeepsStatus
  <2> SUFFICES ASSUME LinkProposal(r), t.proposal \in Live(proposal),
                      proposal' # proposal
               PROVE  KeepsStatus
      BY SameKeeps DEF LinkProposal
  <2> DEFINE row == [proposal[t.proposal] EXCEPT !.voting = t.voting]
  <2>1. proposal' = [proposal EXCEPT ![t.proposal] = row]
      BY DEF LinkProposal
  <2>2. t.proposal \in Proposals /\ proposal[t.proposal] \in Proposal
            /\ t.voting \in Votings
      BY <1>0, TypeParts, LiveRows, ProposingFields DEF LinkProposal
  <2>3. row \in Proposal /\ row.status = proposal[t.proposal].status
      BY <2>2 DEF Proposal, Link
  <2> HIDE DEF row
  <2>. QED BY <2>1, <2>2, <2>3, WrittenKeeps, RowsAreNotGone
<1>3. ASSUME NEW p \in Proposals, NEW j \in Link(Projects), NEW w \in Links,
             CreateProposal(r, p, j, w)
      PROVE  KeepsStatus
    BY <1>3, WrittenKeeps DEF CreateProposal
<1>4. Assign(r) => KeepsStatus
  <2> SUFFICES ASSUME Assign(r), t.proposal \in Live(proposal), proposal' # proposal
               PROVE  KeepsStatus
      BY SameKeeps DEF Assign
  <2> DEFINE p == t.proposal
             row == [proposal[p] EXCEPT
                       !.assembly = IF t.links.assembly = None THEN @ ELSE t.links.assembly,
                       !.voting = IF t.links.voting = None THEN @ ELSE t.links.voting]
  <2>1. p \in Proposals /\ proposal[p] \in Proposal /\ t.links \in Links
      BY <1>0, TypeParts, LiveRows, ProposingFields DEF Assign
  <2>2. proposal' = [proposal EXCEPT ![p] = row]
      BY <2>1 DEF Assign, TypeOK
  <2>3. row \in Proposal /\ row.status = proposal[p].status
      BY <2>1 DEF Proposal, Links, Link
  <2> HIDE DEF row
  <2>. QED BY <2>1, <2>2, <2>3, WrittenKeeps, RowsAreNotGone
<1>5. ASSUME NEW v \in Votings, NEW a \in Assemblies, NEW ps \in SUBSET Proposals,
             CreateVoting(r, v, a, ps)
      PROVE  KeepsStatus
    BY <1>5 DEF CreateVoting, KeepsStatus, Live, TypeOK
<1>6. ASSUME NEW v \in Votings, RemoveVoting(r, v)
      PROVE  KeepsStatus
    BY <1>6, DetachedKeeps DEF RemoveVoting
<1>. QED BY <1>1, <1>2, <1>3, <1>4, <1>5, <1>6, SameKeeps
         DEF Proposing, CreateProject, OpenBallot, FindAssembly, CreateAssembly, db

\* Where a request has read the status, its write is a step of the table.
LEMMA StepStands ==
    ASSUME TypeOK, NEW p \in Proposals, NEW s \in ProposalStatus,
           p \in Live(proposal),
           proposal' = [proposal EXCEPT ![p].status = s],
           proposal[p].status = s \/ <<proposal[p].status, s>> \in ProposalSteps
    PROVE  AllStand
<1>1. proposal[p] \in Proposal
    BY TypeParts, LiveRows
<1> DEFINE row == [proposal[p] EXCEPT !.status = s]
<1>2. row \in Proposal /\ row.status = s
    BY <1>1 DEF Proposal
<1>3. proposal' = [proposal EXCEPT ![p] = row]
    OBVIOUS
<1> HIDE DEF row
<1>4. row # Gone
    BY <1>2, RowsAreNotGone
<1>5. ASSUME NEW q \in Live(proposal)
      PROVE  Stands(q)
  <2>1. q \in Proposals /\ proposal[q] # Gone
      BY TypeParts, LiveRows DEF Live
  <2>2. proposal'[q] = IF q = p THEN row ELSE proposal[q]
      BY <1>3, <2>1 DEF TypeOK
  <2>. QED BY <1>2, <1>4, <2>1, <2>2 DEF Stands
<1>. QED BY <1>5 DEF AllStand

LEMMA WriteProposalStands ==
    ASSUME TypeOK, JudgedInv, NEW r \in Requests, WriteProposal(r)
    PROVE  AllStand
<1> DEFINE p == task[r].proposal
           s == task[r].to
<1> SUFFICES ASSUME "race" \notin spoiled', p \in Live(proposal)
             PROVE  AllStand
    BY SameKeeps, KeptStands DEF WriteProposal, AllStand
<1>1. task[r] \in Task
    BY TypeParts
<1>2. p \in Proposals /\ s \in ProposalStatus
    BY <1>1, StatusFields DEF WriteProposal
<1>3. <<proposal[p].status, s>> \in ProposalSteps
    BY NoRace DEF WriteProposal, JudgedInv, Judged, StatusTrue
<1>4. proposal' = [proposal EXCEPT ![p].status = s]
    BY DEF WriteProposal
<1> HIDE DEF p, s
<1>. QED BY <1>2, <1>3, <1>4, StepStands

LEMMA DecideProposalStands ==
    ASSUME TypeOK, JudgedInv, NEW r \in Requests, NEW x \in task[r].seen,
           DecideProposal(r, x)
    PROVE  AllStand
<1> DEFINE s == IF task[r].passed THEN "APPROVED" ELSE "REJECTED"
           p == x.id
<1> SUFFICES ASSUME "race" \notin spoiled', proposal' # proposal
             PROVE  AllStand
    BY SameKeeps, KeptStands DEF AllStand
<1>1. /\ p \in Live(proposal) /\ <<x.status, s>> \in DecisionSteps
      /\ proposal' = [proposal EXCEPT ![p].status = s]
    BY DEF DecideProposal
<1>2. proposal[p].status = x.status
    BY NoRace DEF DecideProposal, JudgedInv, Judged, AgendaTrue, SeenTrue
<1>3. p \in Proposals /\ s \in ProposalStatus
    BY <1>1, TypeParts, LiveRows DEF ProposalStatus
<1>4. <<proposal[p].status, s>> \in ProposalSteps
    BY <1>1, <1>2 DEF ProposalSteps
<1> HIDE DEF p, s
<1>. QED BY <1>1, <1>3, <1>4, StepStands

LEMMA EditProposalStands ==
    ASSUME TypeOK, JudgedInv, NEW r \in Requests, EditProposal(r)
    PROVE  AllStand
<1> DEFINE p == task[r].proposal
           patch == task[r].patch
           row == Merge(proposal[p], patch)
<1> SUFFICES ASSUME "race" \notin spoiled', proposal' # proposal
             PROVE  AllStand
    BY SameKeeps, KeptStands DEF AllStand
<1>1. /\ p \in Live(proposal) /\ proposal' = [proposal EXCEPT ![p] = row]
      /\ task[r].pc = "editProposal"
    BY DEF EditProposal
<1>2. task[r] \in Task /\ p \in Proposals /\ proposal[p] \in Proposal
    BY <1>1, TypeParts, LiveRows
<1>3. patch \in Patch
    BY <1>1, <1>2, StatusFields, WorkflowAssumption DEF WorkflowAssumption
<1>4. proposal[p].status = "PENDING"
    BY <1>1, NoRace DEF EditProposal, JudgedInv, Judged, StatusTrue
<1>5. row.status \in ProposalStatus
    BY <1>2, <1>3 DEF Merge, Patch, Link, Proposal
<1>6. row.status = "PENDING" \/ <<"PENDING", row.status>> \in ProposalSteps
    BY <1>5 DEF ProposalStatus, ProposalSteps, DecisionSteps
<1>7. ASSUME NEW q \in Live(proposal)
      PROVE  Stands(q)
  <2>1. q \in Proposals /\ proposal[q] # Gone
      BY TypeParts, LiveRows DEF Live
  <2> HIDE DEF row
  <2>2. proposal'[q] = IF q = p THEN row ELSE proposal[q]
      BY <1>1, <2>1 DEF TypeOK
  <2>3. q = p => proposal'[q].status = row.status
      BY <2>2
  <2>4. row # Gone
    <3>1. row \in Proposal
        BY <1>2, <1>3, <1>5 DEF row, Merge, Patch, Link, Proposal
    <3>. QED BY <3>1, RowsAreNotGone
  <2>. QED BY <1>4, <1>6, <2>1, <2>2, <2>3, <2>4 DEF Stands
<1>. QED BY <1>7 DEF AllStand

LEMMA DeleteProposalStands ==
    ASSUME TypeOK, JudgedInv, NEW r \in Requests, DeleteProposal(r)
    PROVE  AllStand
<1> DEFINE p == task[r].proposal
<1> SUFFICES ASSUME "race" \notin spoiled', p \in Live(proposal), NEW q \in Live(proposal)
             PROVE  Stands(q)
    BY SameKeeps, KeptStands DEF DeleteProposal, AllStand
<1>1. proposal[p].status # "APPROVED"
    BY NoRace DEF DeleteProposal, JudgedInv, Judged, StatusTrue
<1>2. proposal' = [proposal EXCEPT ![p] = Gone]
    BY DEF DeleteProposal
<1>3. q # p => proposal'[q] = proposal[q]
    BY <1>2
<1>4. proposal[q] # Gone
    BY DEF Live
<1>5. q \in Proposals
    BY TypeParts, LiveRows
<1>6. q = p => proposal'[q] = Gone
    BY <1>2, <1>5 DEF TypeOK
<1>. QED BY <1>1, <1>3, <1>4, <1>6 DEF Stands

LEMMA StepsStand ==
    ASSUME TypeOK, TypeOK', JudgedInv, [Next]_vars
    PROVE  AllStand
<1>1. ASSUME NEW r \in Requests, Deciding(r)
      PROVE  AllStand
  <2>1. DeleteProject(r) => KeepsStatus
      BY DetachedKeeps, SameKeeps DEF DeleteProject
  <2>2. \/ proposal' = proposal \/ DeleteProject(r) \/ WriteProposal(r)
        \/ EditProposal(r) \/ DeleteProposal(r)
      BY <1>1 DEF Deciding, ReadProposal, ForceProject, ReadForEdit, ReadForRemoveProposal,
                  ReadProject, WriteProject, ReadForRemoveProject, db
  <2>. QED BY <2>1, <2>2, SameKeeps, KeptStands, WriteProposalStands, EditProposalStands,
              DeleteProposalStands
<1>2. ASSUME NEW r \in Requests, Assembling(r)
      PROVE  AllStand
  <2>1. DeleteAssembly(r) => KeepsStatus
      BY DetachedKeeps, SameKeeps DEF DeleteAssembly
  <2>2. \/ proposal' = proposal \/ DeleteAssembly(r)
        \/ \E x \in task[r].seen : DecideProposal(r, x)
      BY <1>2 DEF Assembling, ReadAssembly, StartOrComplete, WriteAssembly, CountVotes,
                  ListProposals, ApproveProject, CompleteAssembly, ReadForRemoveAssembly,
                  ReadForMinutes, FindMinutes, InsertMinutes, db
  <2>. QED BY <2>1, <2>2, SameKeeps, KeptStands, DecideProposalStands
<1>3. CASE Restart \/ UNCHANGED vars
    BY <1>3, SameKeeps, KeptStands DEF Restart, vars, db
<1>. QED BY <1>1, <1>2, <1>3, ProposingKeeps, KeptStands DEF Next

-----------------------------------------------------------------------------
(* What is read of proposals is true when it is read.                      *)

LEMMA QuietUnjudging == \A r : Quiet(r) => Unjudging(r)
BY DEF Quiet, Unjudging

LEMMA DecidingJudged ==
    ASSUME TypeOK, TypeOK', JudgedInv, NEW r \in Requests, Deciding(r)
    PROVE  JudgedInv'
<1>0. Track
    BY DecidingUnread
<1>1. ASSUME NEW p \in Proposals, NEW s \in ProposalStatus, ReadProposal(r, p, s)
      PROVE  JudgedInv'
  <2> DEFINE u == [pc |-> "writeProposal", proposal |-> p, to |-> s,
                   project |-> proposal[p].project]
  <2>1. Continue(r, u) /\ UNCHANGED <<voting, proposal>>
      BY <1>1 DEF ReadProposal, Begin, Continue, db
  <2>2. Judged(u)
      BY <1>1 DEF ReadProposal, Judged, StatusTrue, AgendaTrue, Completing
  <2> HIDE DEF u
  <2>. QED BY <1>0, <2>1, <2>2, JudgedTaken
<1>2. ASSUME NEW p \in Proposals, NEW patch \in Patches, ReadForEdit(r, p, patch)
      PROVE  JudgedInv'
  <2> DEFINE u == [pc |-> "editProposal", proposal |-> p, patch |-> patch]
  <2>1. Continue(r, u) /\ UNCHANGED <<voting, proposal>>
      BY <1>2 DEF ReadForEdit, Begin, Continue, db
  <2>2. Judged(u)
      BY <1>2 DEF ReadForEdit, Judged, StatusTrue, AgendaTrue, Completing
  <2> HIDE DEF u
  <2>. QED BY <1>0, <2>1, <2>2, JudgedTaken
<1>3. ASSUME NEW p \in Proposals, ReadForRemoveProposal(r, p)
      PROVE  JudgedInv'
  <2> DEFINE u == [pc |-> "deleteProposal", proposal |-> p]
  <2>1. Continue(r, u) /\ UNCHANGED <<voting, proposal>>
      BY <1>3 DEF ReadForRemoveProposal, Begin, Continue, db
  <2>2. Judged(u)
      BY <1>3 DEF ReadForRemoveProposal, Judged, StatusTrue, AgendaTrue, Completing
  <2> HIDE DEF u
  <2>. QED BY <1>0, <2>1, <2>2, JudgedTaken
<1>4. ASSUME NEW j \in Projects, NEW s \in ProjectStatus, ReadProject(r, j, s)
      PROVE  Unjudging(r)
  <2> DEFINE u == [pc |-> "writeProject", project |-> j, to |-> s]
  <2>1. u.pc \notin Judging /\ Continue(r, u)
      BY <1>4 DEF ReadProject, Begin, Continue, Judging, Completing
  <2>. QED BY <2>1, UnjudgingStep
<1>5. ASSUME NEW j \in Projects, ReadForRemoveProject(r, j)
      PROVE  Unjudging(r)
  <2> DEFINE u == [pc |-> "deleteProject", project |-> j]
  <2>1. u.pc \notin Judging /\ Continue(r, u)
      BY <1>5 DEF ReadForRemoveProject, Begin, Continue, Judging, Completing
  <2>. QED BY <2>1, UnjudgingStep
<1>6. WriteProposal(r) => Unjudging(r)
  <2> DEFINE u == [pc |-> "forceProject", project |-> task[r].project]
  <2>1. u.pc \notin Judging
      BY DEF Judging, Completing
  <2>2. WriteProposal(r) => Continue(r, Idle) \/ Continue(r, u)
      BY DEF WriteProposal, Finish
  <2>. QED BY <2>1, <2>2, UnjudgingStep, IdleJudged
<1>7. ForceProject(r) \/ EditProposal(r) \/ DeleteProposal(r) \/ WriteProject(r)
          \/ DeleteProject(r) => Continue(r, Idle)
    BY DEF ForceProject, EditProposal, DeleteProposal, WriteProject, DeleteProject, Finish
<1>. QED BY <1>0, <1>1, <1>2, <1>3, <1>4, <1>5, <1>6, <1>7, UnjudgingStep, IdleJudged,
            NothingJudged DEF Deciding

LEMMA SecretarialUnjudging ==
    ASSUME TypeOK, NEW r \in Requests,
           \/ \E a \in Assemblies, s \in AssemblyStatus : ReadAssembly(r, a, s)
           \/ \E a \in Assemblies : ReadForRemoveAssembly(r, a) \/ ReadForMinutes(r, a)
           \/ WriteAssembly(r) \/ CompleteAssembly(r) \/ DeleteAssembly(r)
           \/ FindMinutes(r) \/ InsertMinutes(r)
    PROVE  Track /\ Unjudging(r)
<1>0. Idle.pc \notin Judging
    BY IdleJudged
<1>1. Track
    BY DEF ReadAssembly, ReadForRemoveAssembly, ReadForMinutes, WriteAssembly,
           CompleteAssembly, DeleteAssembly, FindMinutes, InsertMinutes
<1>2. ASSUME NEW a \in Assemblies, NEW s \in AssemblyStatus, ReadAssembly(r, a, s)
      PROVE  Unjudging(r)
  <2> DEFINE u == [pc |-> "writeAssembly", assembly |-> a, to |-> s]
             w == [pc |-> "startOrComplete", assembly |-> a, to |-> s]
  <2>1. u.pc \notin Judging /\ w.pc \notin Judging
      BY DEF Judging, Completing
  <2>2. Continue(r, u) \/ Continue(r, w)
      BY <1>2 DEF ReadAssembly, Begin, Continue
  <2> HIDE DEF u, w
  <2>. QED BY <2>1, <2>2, UnjudgingStep
<1>3. ASSUME NEW a \in Assemblies, ReadForRemoveAssembly(r, a) PROVE Unjudging(r)
  <2> DEFINE u == [pc |-> "deleteAssembly", assembly |-> a]
  <2>1. u.pc \notin Judging /\ Continue(r, u)
      BY <1>3 DEF ReadForRemoveAssembly, Begin, Continue, Judging, Completing
  <2>. QED BY <2>1, UnjudgingStep
<1>4. ASSUME NEW a \in Assemblies, ReadForMinutes(r, a) PROVE Unjudging(r)
  <2> DEFINE u == [pc |-> "findMinutes", assembly |-> a]
  <2>1. u.pc \notin Judging /\ Continue(r, u)
      BY <1>4 DEF ReadForMinutes, Begin, Continue, Judging, Completing
  <2>. QED BY <2>1, UnjudgingStep
<1>5. FindMinutes(r) => Unjudging(r)
  <2> DEFINE u == [pc |-> "insertMinutes", assembly |-> task[r].assembly]
  <2>1. u.pc \notin Judging
      BY DEF Judging, Completing
  <2>2. FindMinutes(r) => Continue(r, Idle) \/ Continue(r, u)
      BY DEF FindMinutes
  <2> HIDE DEF u
  <2>. QED BY <1>0, <2>1, <2>2, UnjudgingStep
<1>6. WriteAssembly(r) \/ CompleteAssembly(r) \/ DeleteAssembly(r) \/ InsertMinutes(r)
          => Continue(r, Idle)
    BY DEF WriteAssembly, CompleteAssembly, DeleteAssembly, InsertMinutes, Finish
<1>. QED BY <1>0, <1>1, <1>2, <1>3, <1>4, <1>5, <1>6, UnjudgingStep

-----------------------------------------------------------------------------
(* The completion of an assembly.                                          *)

LEMMA StartJudged ==
    ASSUME TypeOK, TypeOK', JudgedInv, NEW r \in Requests, StartOrComplete(r)
    PROVE  JudgedInv'
<1> DEFINE a == task[r].assembly
           u == [pc |-> "writeAssembly", assembly |-> a, to |-> task[r].to]
           next == AfterVoting(a, VotingsOf(a))
<1>1. Judged(u)
    BY DEF Judged, StatusTrue, AgendaTrue, Completing
<1>2. Judged(next)
    BY AfterVotingJudged
<1>3. Continue(r, Idle) \/ Continue(r, next) \/ Continue(r, u)
    BY DEF StartOrComplete
<1>4. Track /\ UNCHANGED <<voting, proposal>>
    BY DEF StartOrComplete, db
<1> HIDE DEF u, next
<1>. QED BY <1>1, <1>2, <1>3, <1>4, IdleJudged, JudgedTaken

LEMMA CountJudged ==
    ASSUME TypeOK, TypeOK', JudgedInv, NEW r \in Requests, NEW v \in Votings,
           NEW passed \in BOOLEAN, CountVotes(r, v, passed)
    PROVE  JudgedInv'
<1> DEFINE u == [pc |-> "proposals", assembly |-> task[r].assembly,
                 todo |-> task[r].todo \ {v}, voting |-> v, passed |-> passed]
<1>1. Track /\ UNCHANGED <<voting, proposal>>
    BY DEF CountVotes, db
<1>2. "race" \notin spoiled => Judged(u)
  <2> SUFFICES ASSUME "race" \notin spoiled PROVE Judged(u)
      OBVIOUS
  <2>1. task[r].todo \subseteq VotingsOf(task[r].assembly) /\ v \in task[r].todo
      BY DEF CountVotes, JudgedInv, Judged, AgendaTrue, Completing
  <2>. QED BY <2>1 DEF Judged, StatusTrue, AgendaTrue
<1>3. Continue(r, Idle) \/ Continue(r, u)
    BY DEF CountVotes
<1> HIDE DEF u
<1>. QED BY <1>1, <1>2, <1>3, IdleJudged, JudgedTaken

LEMMA ListJudged ==
    ASSUME TypeOK, TypeOK', JudgedInv, NEW r \in Requests, ListProposals(r)
    PROVE  JudgedInv'
<1> DEFINE t == task[r]
           Entry(p) == [id |-> p, status |-> proposal[p].status,
                        project |-> proposal[p].project,
                        projectStatus |-> IF proposal[p].project = None THEN None
                                          ELSE project[proposal[p].project]]
           listed == {Entry(p) : p \in ProposalsIn(t.voting)}
           next == AfterProposal(t.assembly, t.todo, t.passed, listed)
<1>1. Track /\ UNCHANGED <<voting, proposal>> /\ Continue(r, next)
    BY DEF ListProposals, db
<1>2. "race" \notin spoiled => Judged(next)
  <2> SUFFICES ASSUME "race" \notin spoiled PROVE Judged(next)
      OBVIOUS
  <2>1. /\ t.todo \subseteq VotingsOf(t.assembly)
        /\ t.voting \in VotingsOf(t.assembly)
      BY DEF ListProposals, JudgedInv, Judged, AgendaTrue, Completing
  <2>2. ASSUME NEW x \in listed
        PROVE  /\ x.id \in Live(proposal) /\ proposal[x.id].status = x.status
               /\ proposal[x.id].voting = t.voting
               /\ x = Entry(x.id)
      BY DEF ProposalsIn
  <2>3. SeenTrue(t.assembly, listed)
    <3> HIDE DEF listed, Entry
    <3>. QED BY <2>1, <2>2 DEF SeenTrue
  <2> HIDE DEF listed
  <2>. QED BY <2>1, <2>3, AfterProposalJudged
<1> HIDE DEF next
<1>. QED BY <1>1, <1>2, JudgedTaken

\* Of the proposals listed, one has been dealt with.
LEMMA SeenRest ==
    ASSUME TypeOK, TypeOK', NEW a, NEW seen, NEW x \in seen, SeenTrue(a, seen),
           voting' = voting,
           \A q \in Proposals : q # x.id => proposal'[q] = proposal[q]
    PROVE  SeenTrue(a, seen \ {x})'
<1>1. VotingsOf(a)' = VotingsOf(a)
    BY DEF VotingsOf
<1>2. ASSUME NEW y \in seen \ {x}
      PROVE  /\ y.id \in Live(proposal')
             /\ proposal'[y.id].status = y.status
             /\ proposal'[y.id].voting \in VotingsOf(a)
  <2>1. /\ y.id \in Live(proposal) /\ proposal[y.id].status = y.status
        /\ proposal[y.id].voting \in VotingsOf(a) /\ y.id # x.id
      BY DEF SeenTrue
  <2>2. y.id \in Proposals
      BY <2>1, TypeParts, LiveRows
  <2>3. proposal'[y.id] = proposal[y.id]
      BY <2>1, <2>2
  <2>. QED BY <2>1, <2>2, <2>3 DEF Live, TypeOK
<1>. QED BY <1>1, <1>2 DEF SeenTrue

LEMMA DecideStep ==
    ASSUME TypeOK, TypeOK', JudgedInv, Track, NEW r \in Requests,
           NEW a, NEW todo, NEW passed, NEW seen, NEW x \in seen, NEW j, NEW t,
           "race" \notin spoiled => todo \subseteq VotingsOf(a) /\ SeenTrue(a, seen),
           voting' = voting,
           \A q \in Proposals : q # x.id => proposal'[q] = proposal[q],
           Continue(r, t),
           \/ t = AfterProposal(a, todo, passed, seen \ {x})
           \/ t = [pc |-> "approveProject", assembly |-> a, todo |-> todo,
                   passed |-> passed, seen |-> seen \ {x}, project |-> j]
    PROVE  JudgedInv'
<1>1. ASSUME "race" \notin spoiled'
      PROVE  Judged(t)'
  <2>1. todo \subseteq VotingsOf(a)' /\ SeenTrue(a, seen \ {x})'
      BY <1>1, NoRace, SeenRest DEF VotingsOf
  <2>2. CASE t = AfterProposal(a, todo, passed, seen \ {x})
      BY <2>1, <2>2 DEF AfterProposal, AfterVoting, Judged, StatusTrue, AgendaTrue,
                        Completing
  <2>3. CASE t = [pc |-> "approveProject", assembly |-> a, todo |-> todo,
                  passed |-> passed, seen |-> seen \ {x}, project |-> j]
    <3>1. /\ t.pc = "approveProject" /\ t.assembly = a
          /\ t.todo = todo /\ t.seen = seen \ {x}
        BY <2>3
    <3>. QED BY <2>1, <3>1 DEF Judged, StatusTrue, AgendaTrue
  <2>. QED BY <2>2, <2>3
<1>. QED BY <1>1, JudgedKept

LEMMA DecideJudged ==
    ASSUME TypeOK, TypeOK', JudgedInv, NEW r \in Requests, NEW x \in task[r].seen,
           DecideProposal(r, x)
    PROVE  JudgedInv'
<1> DEFINE t == task[r]
           next == AfterProposal(t.assembly, t.todo, t.passed, t.seen \ {x})
           u == [pc |-> "approveProject", assembly |-> t.assembly, todo |-> t.todo,
                 passed |-> t.passed, seen |-> t.seen \ {x}, project |-> x.project]
<1>1. Track /\ voting' = voting
    BY DEF DecideProposal
<1>2. "race" \notin spoiled =>
          t.todo \subseteq VotingsOf(t.assembly) /\ SeenTrue(t.assembly, t.seen)
    BY DEF DecideProposal, JudgedInv, Judged, AgendaTrue, Completing
<1>3. \A q \in Proposals : q # x.id => proposal'[q] = proposal[q]
  <2> DEFINE s == IF t.passed THEN "APPROVED" ELSE "REJECTED"
             row == [proposal[x.id] EXCEPT !.status = s]
  <2>1. proposal' = proposal \/ proposal' = [proposal EXCEPT ![x.id] = row]
      BY DEF DecideProposal
  <2> HIDE DEF row
  <2>. QED BY <2>1 DEF TypeOK
<1>4. Continue(r, Idle) \/ Continue(r, next) \/ Continue(r, u)
    BY DEF DecideProposal, Finish
<1>5. CASE Continue(r, Idle)
    BY <1>1, <1>5, IdleJudged, UnjudgingStep, NothingJudged
<1>6. CASE Continue(r, next) \/ Continue(r, u)
    BY <1>1, <1>2, <1>3, <1>6, DecideStep
<1>. QED BY <1>4, <1>5, <1>6

LEMMA ApproveJudged ==
    ASSUME TypeOK, TypeOK', JudgedInv, NEW r \in Requests, ApproveProject(r)
    PROVE  JudgedInv'
<1> DEFINE t == task[r]
           next == AfterProposal(t.assembly, t.todo, t.passed, t.seen)
<1>1. Track /\ UNCHANGED <<voting, proposal>>
    BY DEF ApproveProject
<1>2. "race" \notin spoiled => Judged(next)
  <2>1. "race" \notin spoiled =>
            t.todo \subseteq VotingsOf(t.assembly) /\ SeenTrue(t.assembly, t.seen)
      BY DEF ApproveProject, JudgedInv, Judged, AgendaTrue, Completing
  <2>. QED BY <2>1, AfterProposalJudged
<1>3. Continue(r, Idle) \/ Continue(r, next)
    BY DEF ApproveProject, Finish
<1> HIDE DEF next
<1>. QED BY <1>1, <1>2, <1>3, IdleJudged, JudgedTaken

LEMMA JudgedNext ==
    ASSUME TypeOK, TypeOK', JudgedInv, [Next]_vars
    PROVE  JudgedInv'
<1>1. CASE UNCHANGED vars
    BY <1>1 DEF vars, db, JudgedInv, Judged, StatusTrue, AgendaTrue, SeenTrue, VotingsOf, Live
<1>2. CASE Restart
  <2>1. \A r \in Requests : task'[r].pc \notin Judging
      BY <1>2, IdleJudged DEF Restart
  <2>. QED BY <2>1 DEF JudgedInv, Judged, StatusTrue, AgendaTrue, Judging, Completing
<1>3. ASSUME NEW r \in Requests, Proposing(r)
      PROVE  JudgedInv'
  <2>1. CASE \E a \in Assemblies : CreateAssembly(r, a)
    <3>1. Track /\ Continue(r, Idle)
        BY <2>1 DEF CreateAssembly, Begin, Continue
    <3>. QED BY <3>1, IdleJudged, UnjudgingStep, NothingJudged
  <2>2. CASE ~\E a \in Assemblies : CreateAssembly(r, a)
      BY <1>3, <2>2, ProposingQuiet, QuietUnjudging, NothingJudged
  <2>. QED BY <2>1, <2>2
<1>4. ASSUME NEW r \in Requests, Assembling(r)
      PROVE  JudgedInv'
    BY <1>4, SecretarialUnjudging, NothingJudged, StartJudged, CountJudged, ListJudged, DecideJudged,
       ApproveJudged DEF Assembling
<1>. QED BY <1>1, <1>2, <1>3, <1>4, DecidingJudged DEF Next

(* As long as no request's reading is overtaken, no proposal is decided a  *)
(* second time and no approved one is removed, for any number of           *)
(* completions, officers and restarts (canTransitionProposalStatus, the    *)
(* guards of update and remove).                                           *)
THEOREM DecisionsAreKept == Spec => DecisionsStand
<1>1. Init => JudgedInv
  <2> SUFFICES ASSUME Init, NEW r \in Requests PROVE Judged(task[r])
      BY DEF JudgedInv
  <2>. QED BY IdleJudged DEF Init
<1>2. TypeOK /\ TypeOK' /\ JudgedInv /\ [Next]_vars => JudgedInv'
    BY JudgedNext
<1>3. TypeOK /\ TypeOK' /\ JudgedInv /\ [Next]_vars =>
          [\A p \in Live(proposal) : "race" \notin spoiled' =>
              IF proposal'[p] = Gone THEN proposal[p].status # "APPROVED"
              ELSE \/ proposal'[p].status = proposal[p].status
                   \/ <<proposal[p].status, proposal'[p].status>> \in ProposalSteps]_vars
    BY StepsStand DEF AllStand, Stands
<1>. QED BY <1>1, <1>2, <1>3, WorkflowTypeCorrect, PTL DEF Spec, DecisionsStand

-----------------------------------------------------------------------------
(* That a completion decides every proposal: those still pending are still *)
(* before it, in a voting it has not come to or among the ones it listed.  *)
PendingIn(a) ==
    {p \in Live(proposal) :
        proposal[p].voting \in VotingsOf(a) /\ proposal[p].status = "PENDING"}

Awaits(t, p) ==
    \/ t.pc # "complete" /\ proposal[p].voting \in t.todo
    \/ t.pc = "proposals" /\ proposal[p].voting = t.voting
    \/ t.pc \in {"decide", "approveProject"} /\ \E x \in t.seen : x.id = p

Covers(t) == t.pc \in Completing => \A p \in PendingIn(t.assembly) : Awaits(t, p)

CoversInv == "race" \notin spoiled => \A r \in Requests : Covers(task[r])

LEMMA CoversStays ==
    ASSUME TypeOK, TypeOK', Track, "race" \notin spoiled', CoversInv,
           NEW q \in Requests, task'[q] = task[q]
    PROVE  Covers(task[q])'
<1> DEFINE t == task[q]
           a == t.assembly
<1>1. Covers(t) /\ ReliesOn(t) \cap Changed = {}
    BY NoRace DEF CoversInv, Races
<1> SUFFICES ASSUME t.pc \in Completing, NEW p \in PendingIn(a)'
             PROVE  Awaits(t, p)'
    BY DEF Covers
<1>2. ReliesOn(t) = Agenda(a) \cup Agenda(a)'
    BY DEF ReliesOn, Completing
<1> DEFINE v == proposal'[p].voting
<1>3. p \in Live(proposal') /\ v \in VotingsOf(a)' /\ proposal'[p].status = "PENDING"
    BY DEF PendingIn
<1>4. p \in ProposalsIn(proposal[p].voting)'
    BY <1>3 DEF ProposalsIn
<1>5. v \in Agenda(a)' /\ p \in Agenda(a)'
    BY <1>3, <1>4 DEF Agenda
<1>6. p \in Proposals /\ v \in Votings
    BY <1>3 DEF Live, TypeOK, VotingsOf
<1>7. proposal'[p] = proposal[p] /\ voting'[v] = voting[v]
    BY <1>1, <1>2, <1>5, <1>6 DEF Changed
<1>8. p \in PendingIn(a)
    BY <1>3, <1>6, <1>7 DEF PendingIn, Live, VotingsOf, TypeOK
<1>9. Awaits(t, p)
    BY <1>1, <1>8 DEF Covers
<1>. QED BY <1>7, <1>9 DEF Awaits

LEMMA CoversKept ==
    ASSUME TypeOK, TypeOK', CoversInv, Track, NEW r \in Requests, NEW t, Continue(r, t),
           "race" \notin spoiled' => Covers(t)'
    PROVE  CoversInv'
<1> SUFFICES ASSUME "race" \notin spoiled', NEW q \in Requests
             PROVE  Covers(task[q])'
    BY DEF CoversInv
<1>1. task \in [Requests -> Task]
    BY TypeParts
<1>2. CASE q = r
  <2>1. task'[q] = t
      BY <1>1, <1>2 DEF Continue
  <2>. QED BY <2>1 DEF Covers, Awaits
<1>3. CASE q # r
  <2>1. task'[q] = task[q]
      BY <1>1, <1>3 DEF Continue
  <2>. QED BY <2>1, CoversStays
<1>. QED BY <1>2, <1>3

\* A step to a state that is neither of a completion nor of a decision.
Elsewhere(r) == \E t : t.pc \notin Completing \cup {"writeProposal"} /\ Continue(r, t)

LEMMA ElsewhereStep ==
    ASSUME NEW r \in Requests, NEW t, t.pc \notin Completing \cup {"writeProposal"},
           Continue(r, t)
    PROVE  Elsewhere(r)
BY DEF Elsewhere

LEMMA UnjudgingElsewhere == \A r : Unjudging(r) => Elsewhere(r)
BY DEF Unjudging, Elsewhere, Judging

LEMMA NothingCovered ==
    ASSUME TypeOK, TypeOK', CoversInv, Track, NEW r \in Requests, Elsewhere(r)
    PROVE  CoversInv'
<1>1. PICK t : t.pc \notin Completing /\ Continue(r, t)
    BY DEF Elsewhere
<1>2. Covers(t)'
    BY <1>1 DEF Covers
<1>. QED BY <1>1, <1>2, CoversKept

\* Only StartOrComplete takes a request into a completion.
LEMMA DecidingElsewhere ==
    ASSUME TypeOK, NEW r \in Requests, Deciding(r),
           ~\E p \in Proposals, s \in ProposalStatus : ReadProposal(r, p, s)
    PROVE  Elsewhere(r)
<1>0. Idle.pc \notin Completing \cup {"writeProposal"}
    BY DEF Idle, Completing
<1>1. ASSUME NEW p \in Proposals, NEW patch \in Patches, ReadForEdit(r, p, patch) PROVE Elsewhere(r)
  <2> DEFINE u == [pc |-> "editProposal", proposal |-> p, patch |-> patch]
  <2>1. u.pc \notin Completing \cup {"writeProposal"} /\ Continue(r, u)
      BY <1>1 DEF ReadForEdit, Begin, Continue, Completing
  <2>. QED BY <2>1, ElsewhereStep
<1>2. ASSUME NEW p \in Proposals, ReadForRemoveProposal(r, p) PROVE Elsewhere(r)
  <2> DEFINE u == [pc |-> "deleteProposal", proposal |-> p]
  <2>1. u.pc \notin Completing \cup {"writeProposal"} /\ Continue(r, u)
      BY <1>2 DEF ReadForRemoveProposal, Begin, Continue, Completing
  <2>. QED BY <2>1, ElsewhereStep
<1>3. ASSUME NEW j \in Projects, NEW s \in ProjectStatus, ReadProject(r, j, s) PROVE Elsewhere(r)
  <2> DEFINE u == [pc |-> "writeProject", project |-> j, to |-> s]
  <2>1. u.pc \notin Completing \cup {"writeProposal"} /\ Continue(r, u)
      BY <1>3 DEF ReadProject, Begin, Continue, Completing
  <2>. QED BY <2>1, ElsewhereStep
<1>4. ASSUME NEW j \in Projects, ReadForRemoveProject(r, j) PROVE Elsewhere(r)
  <2> DEFINE u == [pc |-> "deleteProject", project |-> j]
  <2>1. u.pc \notin Completing \cup {"writeProposal"} /\ Continue(r, u)
      BY <1>4 DEF ReadForRemoveProject, Begin, Continue, Completing
  <2>. QED BY <2>1, ElsewhereStep
<1>5. WriteProposal(r) => Elsewhere(r)
  <2> DEFINE u == [pc |-> "forceProject", project |-> task[r].project]
  <2>1. u.pc \notin Completing \cup {"writeProposal"}
      BY DEF Completing
  <2>2. WriteProposal(r) => Continue(r, Idle) \/ Continue(r, u)
      BY DEF WriteProposal, Finish
  <2>. QED BY <1>0, <2>1, <2>2, ElsewhereStep
<1>6. ForceProject(r) \/ EditProposal(r) \/ DeleteProposal(r) \/ WriteProject(r)
          \/ DeleteProject(r) => Continue(r, Idle)
    BY DEF ForceProject, EditProposal, DeleteProposal, WriteProject, DeleteProject, Finish
<1>. QED BY <1>0, <1>1, <1>2, <1>3, <1>4, <1>5, <1>6, ElsewhereStep DEF Deciding

LEMMA ProposingUnjudging ==
    ASSUME TypeOK, NEW r \in Requests, Proposing(r)
    PROVE  Track /\ Unjudging(r)
<1>1. CASE \E a \in Assemblies : CreateAssembly(r, a)
  <2>1. Track /\ Continue(r, Idle)
      BY <1>1 DEF CreateAssembly, Begin, Continue
  <2>. QED BY <2>1, UnjudgingStep, IdleJudged
<1>2. CASE ~\E a \in Assemblies : CreateAssembly(r, a)
    BY <1>2, ProposingQuiet, QuietUnjudging
<1>. QED BY <1>1, <1>2

LEMMA ReadProposalCovers ==
    ASSUME TypeOK, TypeOK', CoversInv, NEW r \in Requests, NEW p \in Proposals,
           NEW s \in ProposalStatus, ReadProposal(r, p, s)
    PROVE  CoversInv'
<1>1. PICK t : t = [pc |-> "writeProposal", proposal |-> p, to |-> s,
                    project |-> proposal[p].project]
    OBVIOUS
<1>2. Track /\ Continue(r, t)
    BY <1>1 DEF ReadProposal, Begin, Continue
<1>3. Covers(t)'
    BY <1>1 DEF Covers, Completing
<1>. QED BY <1>2, <1>3, CoversKept

\* The steps of a completion keep what is pending in sight.
LEMMA CoversAfter ==
    ASSUME NEW a, NEW todo, NEW passed, NEW seen,
           \A p \in PendingIn(a)' :
               proposal'[p].voting \in todo \/ \E x \in seen : x.id = p
    PROVE  Covers(AfterProposal(a, todo, passed, seen))'
BY DEF Covers, Awaits, AfterProposal, AfterVoting, Completing

LEMMA IdleCovers == Covers(Idle)'
BY DEF Idle, Covers, Completing

LEMMA PendingSame == UNCHANGED <<voting, proposal>> => \A a : PendingIn(a)' = PendingIn(a)
BY DEF PendingIn, Live, VotingsOf

LEMMA StartCovers ==
    ASSUME TypeOK, TypeOK', CoversInv, NEW r \in Requests, StartOrComplete(r)
    PROVE  CoversInv'
<1> DEFINE a == task[r].assembly
           u == [pc |-> "writeAssembly", assembly |-> a, to |-> task[r].to]
<1>1. Track /\ UNCHANGED <<voting, proposal>>
    BY DEF StartOrComplete, db
<1>2. {u.pc, Idle.pc} \cap (Completing \cup {"writeProposal"}) = {}
    BY DEF Completing, Idle
<1>3. Continue(r, Idle) \/ Continue(r, AfterVoting(a, VotingsOf(a))) \/ Continue(r, u)
    BY DEF StartOrComplete
<1>4. ASSUME NEW t, t = AfterVoting(a, VotingsOf(a)), Continue(r, t) PROVE CoversInv'
  <2>1. PICK b : b = a
      OBVIOUS
  <2>2. PendingIn(b)' = PendingIn(b)
      BY <1>1, PendingSame
  <2>3. PICK todo : todo = VotingsOf(b)
      OBVIOUS
  <2>4. t = AfterVoting(b, todo)
      BY <1>4, <2>1, <2>3
  <2>5. \A p \in PendingIn(b)' : proposal'[p].voting \in todo
      BY <1>1, <2>2, <2>3 DEF PendingIn
  <2>6. Covers(t)'
      BY <2>4, <2>5 DEF Covers, Awaits, AfterVoting, Completing
  <2>. QED BY <1>1, <1>4, <2>6, CoversKept
<1>. QED BY <1>1, <1>2, <1>3, <1>4, ElsewhereStep, NothingCovered

LEMMA CountCovers ==
    ASSUME TypeOK, TypeOK', CoversInv, NEW r \in Requests, NEW v \in Votings,
           NEW passed \in BOOLEAN, CountVotes(r, v, passed)
    PROVE  CoversInv'
<1> DEFINE u == [pc |-> "proposals", assembly |-> task[r].assembly,
                 todo |-> task[r].todo \ {v}, voting |-> v, passed |-> passed]
<1>1. Track /\ UNCHANGED <<voting, proposal>>
    BY DEF CountVotes, db
<1>2. Continue(r, Idle) \/ Continue(r, u)
    BY DEF CountVotes
<1>3. ASSUME NEW t, t = u, Continue(r, t) PROVE CoversInv'
  <2>1. "race" \notin spoiled' => Covers(t)'
    <3> SUFFICES ASSUME "race" \notin spoiled', NEW p \in PendingIn(t.assembly)'
                 PROVE  Awaits(t, p)'
        BY DEF Covers
    <3>1. Covers(task[r]) /\ task[r].pc = "count"
        BY <1>1, NoRace DEF CoversInv, CountVotes
    <3>2. p \in PendingIn(task[r].assembly)
        BY <1>1, <1>3, PendingSame
    <3>3. proposal[p].voting \in task[r].todo
        BY <3>1, <3>2 DEF Covers, Awaits, Completing
    <3>4. t.pc = "proposals" /\ t.voting = v /\ t.todo = task[r].todo \ {v}
        BY <1>3
    <3>. QED BY <1>1, <3>3, <3>4 DEF Awaits
  <2>. QED BY <1>1, <1>3, <2>1, CoversKept
<1>. QED BY <1>1, <1>2, <1>3, IdleCovers, CoversKept

LEMMA ListCovers ==
    ASSUME TypeOK, TypeOK', CoversInv, NEW r \in Requests, ListProposals(r)
    PROVE  CoversInv'
<1> DEFINE Entry(p) == [id |-> p, status |-> proposal[p].status,
                        project |-> proposal[p].project,
                        projectStatus |-> IF proposal[p].project = None THEN None
                                          ELSE project[proposal[p].project]]
           listed == {Entry(p) : p \in ProposalsIn(task[r].voting)}
<1>1. PICK a, todo, passed, v, seen :
          /\ a = task[r].assembly /\ todo = task[r].todo /\ passed = task[r].passed
          /\ v = task[r].voting /\ seen = listed
    OBVIOUS
<1>2. Track /\ UNCHANGED <<voting, proposal>> /\ Continue(r, AfterProposal(a, todo, passed, seen))
    BY <1>1 DEF ListProposals, db
<1>3. ASSUME NEW p \in ProposalsIn(v) PROVE \E x \in seen : x.id = p
  <2>1. Entry(p) \in seen /\ Entry(p).id = p
      BY <1>1
  <2> HIDE DEF Entry
  <2>. QED BY <2>1
<1> HIDE DEF listed
<1>4. ASSUME "race" \notin spoiled', NEW p \in PendingIn(a)'
      PROVE  proposal'[p].voting \in todo \/ \E x \in seen : x.id = p
  <2>1. Covers(task[r]) /\ task[r].pc = "proposals"
      BY <1>2, <1>4, NoRace DEF CoversInv, ListProposals
  <2>2. p \in PendingIn(a)
      BY <1>2, <1>4, PendingSame
  <2>3. proposal[p].voting \in todo \/ proposal[p].voting = v
      BY <1>1, <2>1, <2>2 DEF Covers, Awaits, Completing
  <2>4. proposal[p].voting = v => p \in ProposalsIn(v)
      BY <2>2 DEF PendingIn, ProposalsIn
  <2>. QED BY <1>2, <1>3, <2>3, <2>4
<1>5. "race" \notin spoiled' => Covers(AfterProposal(a, todo, passed, seen))'
    BY <1>4, CoversAfter
<1>. QED BY <1>2, <1>5, CoversKept

\* A decided proposal is not pending any more.
LEMMA DecideCovers ==
    ASSUME TypeOK, TypeOK', JudgedInv, CoversInv, NEW r \in Requests,
           NEW x \in task[r].seen, DecideProposal(r, x)
    PROVE  CoversInv'
<1>1. PICK a, todo, passed, seen :
          /\ a = task[r].assembly /\ todo = task[r].todo /\ passed = task[r].passed
          /\ seen = task[r].seen
    OBVIOUS
<1> DEFINE s == IF task[r].passed THEN "APPROVED" ELSE "REJECTED"
           rest == seen \ {x}
           u == [pc |-> "approveProject", assembly |-> a, todo |-> todo,
                 passed |-> passed, seen |-> rest, project |-> x.project]
<1>2. Track /\ voting' = voting
    BY DEF DecideProposal
<1>3. Continue(r, Idle) \/ Continue(r, AfterProposal(a, todo, passed, rest)) \/ Continue(r, u)
    BY <1>1 DEF DecideProposal, Finish
<1>4. CASE Continue(r, Idle)
    BY <1>2, <1>4, IdleCovers, CoversKept
<1>5. ASSUME ~Continue(r, Idle), "race" \notin spoiled', NEW p \in PendingIn(a)'
      PROVE  proposal'[p].voting \in todo \/ \E y \in rest : y.id = p
  <2>1. /\ Covers(task[r]) /\ task[r].pc = "decide"
        /\ x.id \in Live(proposal) /\ proposal[x.id].status = x.status
      BY <1>2, <1>5, NoRace DEF CoversInv, DecideProposal, JudgedInv, Judged, AgendaTrue, SeenTrue
  <2>2. \/ <<x.status, s>> \notin DecisionSteps /\ proposal' = proposal
        \/ proposal' = [proposal EXCEPT ![x.id].status = s]
      BY <1>5 DEF DecideProposal, Finish
  <2>3. x.id \in Proposals /\ proposal[x.id] \in Proposal
      BY <2>1, TypeParts, LiveRows
  <2>4. s # "PENDING" /\ (<<x.status, s>> \notin DecisionSteps => x.status # "PENDING")
      BY DEF DecisionSteps
  <2>5. proposal'[x.id].status # "PENDING"
    <3>1. CASE <<x.status, s>> \notin DecisionSteps /\ proposal' = proposal
        BY <2>1, <2>4, <3>1
    <3>2. CASE proposal' = [proposal EXCEPT ![x.id].status = s]
      <4> DEFINE row == [proposal[x.id] EXCEPT !.status = s]
      <4>1. row.status = s
          BY <2>3 DEF Proposal
      <4>2. proposal'[x.id] = row
          BY <2>3, <3>2 DEF TypeOK
      <4>. QED BY <2>4, <4>1, <4>2
    <3>. QED BY <2>2, <3>1, <3>2
  <2>6. p # x.id
      BY <1>5, <2>5 DEF PendingIn
  <2>7. p \in Proposals
      BY <1>5 DEF PendingIn, Live, TypeOK
  <2>8. proposal'[p] = proposal[p]
      BY <2>2, <2>3, <2>6, <2>7 DEF TypeOK
  <2>9. p \in PendingIn(a)
      BY <1>2, <1>5, <2>7, <2>8 DEF PendingIn, Live, VotingsOf, TypeOK
  <2>10. proposal[p].voting \in todo \/ \E y \in seen : y.id = p
      BY <1>1, <2>1, <2>9 DEF Covers, Awaits, Completing
  <2>. QED BY <2>6, <2>8, <2>10
<1> HIDE DEF rest
<1>6. CASE ~Continue(r, Idle) /\ Continue(r, AfterProposal(a, todo, passed, rest))
  <2>1. "race" \notin spoiled' => Covers(AfterProposal(a, todo, passed, rest))'
      BY <1>5, <1>6, CoversAfter
  <2>. QED BY <1>2, <1>6, <2>1, CoversKept
<1>7. CASE ~Continue(r, Idle) /\ Continue(r, u)
  <2>1. PICK t : t = u
      OBVIOUS
  <2>2. t.pc = "approveProject" /\ t.assembly = a /\ t.todo = todo /\ t.seen = rest
      BY <2>1
  <2>3. "race" \notin spoiled' => Covers(t)'
      BY <1>5, <1>7, <2>2 DEF Covers, Awaits
  <2>. QED BY <1>2, <1>7, <2>1, <2>3, CoversKept
<1>. QED BY <1>3, <1>4, <1>6, <1>7

LEMMA ApproveCovers ==
    ASSUME TypeOK, TypeOK', CoversInv, NEW r \in Requests, ApproveProject(r)
    PROVE  CoversInv'
<1>1. PICK a, todo, passed, seen :
          /\ a = task[r].assembly /\ todo = task[r].todo /\ passed = task[r].passed
          /\ seen = task[r].seen
    OBVIOUS
<1>2. Track /\ UNCHANGED <<voting, proposal>>
    BY DEF ApproveProject
<1>3. Continue(r, Idle) \/ Continue(r, AfterProposal(a, todo, passed, seen))
    BY <1>1 DEF ApproveProject, Finish
<1>4. ASSUME "race" \notin spoiled', NEW p \in PendingIn(a)'
      PROVE  proposal'[p].voting \in todo \/ \E x \in seen : x.id = p
  <2>1. Covers(task[r]) /\ task[r].pc = "approveProject" /\ p \in PendingIn(a)
      BY <1>2, <1>4, NoRace, PendingSame DEF CoversInv, ApproveProject
  <2>. QED BY <1>1, <1>2, <2>1 DEF Covers, Awaits, Completing
<1>5. "race" \notin spoiled' => Covers(AfterProposal(a, todo, passed, seen))'
    BY <1>4, CoversAfter
<1>. QED BY <1>2, <1>3, <1>5, IdleCovers, CoversKept

LEMMA CoversNext ==
    ASSUME TypeOK, TypeOK', JudgedInv, CoversInv, [Next]_vars
    PROVE  CoversInv'
<1>1. CASE UNCHANGED vars
    BY <1>1 DEF vars, db, CoversInv, Covers, PendingIn, Awaits, VotingsOf, Live
<1>2. CASE Restart
  <2>1. \A r \in Requests : task'[r].pc \notin Completing
      BY <1>2 DEF Restart, Idle, Completing
  <2>. QED BY <2>1 DEF CoversInv, Covers
<1>3. ASSUME NEW r \in Requests, Proposing(r) PROVE CoversInv'
    BY <1>3, ProposingUnjudging, UnjudgingElsewhere, NothingCovered
<1>4. ASSUME NEW r \in Requests, Deciding(r) PROVE CoversInv'
    BY <1>4, DecidingUnread, DecidingElsewhere, ReadProposalCovers, NothingCovered
<1>5. ASSUME NEW r \in Requests, Assembling(r) PROVE CoversInv'
    BY <1>5, SecretarialUnjudging, UnjudgingElsewhere, NothingCovered, StartCovers, CountCovers, ListCovers,
       DecideCovers, ApproveCovers DEF Assembling
<1>. QED BY <1>1, <1>2, <1>3, <1>4, <1>5 DEF Next

(* As long as no reading is overtaken, a completion leaves no proposal of  *)
(* its votings pending, whatever votings and proposals came and went       *)
(* before and however often it was cut short (completeAssembly,            *)
(* processVotingResults).                                                  *)
THEOREM CompletionsDecide == Spec => CompletionDecides
<1>1. Init => CoversInv /\ JudgedInv
  <2> SUFFICES ASSUME Init, NEW r \in Requests PROVE Covers(task[r]) /\ Judged(task[r])
      BY DEF CoversInv, JudgedInv
  <2>. QED BY IdleJudged DEF Init, Covers, Completing, Idle
<1>2. TypeOK /\ TypeOK' /\ JudgedInv /\ CoversInv /\ [Next]_vars => JudgedInv' /\ CoversInv'
    BY JudgedNext, CoversNext
<1>3. CoversInv /\ [Next]_vars =>
          [\A r \in Requests :
              task[r].pc = "complete" /\ task'[r] # task[r] /\ restarts' = restarts
                      /\ "race" \notin spoiled' =>
                  \A p \in Live(proposal) :
                      proposal[p].voting \in VotingsOf(task[r].assembly) =>
                          proposal[p].status # "PENDING"]_vars
  <2> SUFFICES ASSUME CoversInv, Next, NEW r \in Requests, task[r].pc = "complete",
                      "race" \notin spoiled', NEW p \in PendingIn(task[r].assembly)
               PROVE  FALSE
      BY DEF PendingIn
  <2>1. spoiled \subseteq spoiled'
    <3>1. ASSUME NEW q \in Requests, Proposing(q) \/ Assembling(q) \/ Deciding(q)
          PROVE  Track
        BY <3>1 DEF Proposing, CreateProject, InsertProposal, OpenBallot, LinkProposal,
            CreateProposal, FindAssembly, Assign, CreateAssembly, CreateVoting, RemoveVoting,
            Assembling, ReadAssembly, StartOrComplete, WriteAssembly, CountVotes, ListProposals,
            DecideProposal, ApproveProject, CompleteAssembly, ReadForRemoveAssembly,
            ReadForMinutes, DeleteAssembly, FindMinutes, InsertMinutes,
            Deciding, ReadProposal, WriteProposal, ForceProject, ReadForEdit, EditProposal,
            ReadForRemoveProposal, DeleteProposal, ReadProject, WriteProject,
            ReadForRemoveProject, DeleteProject
    <3>2. Track
        BY <3>1 DEF Next, Restart
    <3>. QED BY <3>2 DEF Track
  <2>2. Covers(task[r])
      BY <2>1 DEF CoversInv
  <2>. QED BY <2>2 DEF Covers, Awaits, Completing
<1>. QED BY <1>1, <1>2, <1>3, WorkflowTypeCorrect, PTL DEF Spec, CompletionDecides

-----------------------------------------------------------------------------
(* That the approval of a proposal moves its project on.  A project that   *)
(* has left PROPOSED never comes back to it; what has been read of the     *)
(* project of a proposal is then as good as new, its status included.      *)
Begun == {j \in Projects : project[j] \notin {None, "PROPOSED"}}

SeenProject(x) ==
    /\ x.id \in Live(proposal) => proposal[x.id].project = x.project
    /\ x.project # None /\ x.projectStatus # "PROPOSED" => x.project \in Begun

ProjectTrue(t) ==
    /\ t.pc = "writeProposal" /\ t.proposal \in Live(proposal) =>
           proposal[t.proposal].project = t.project
    /\ t.pc \in {"decide", "approveProject"} => \A x \in t.seen : SeenProject(x)

ProjectInv == "race" \notin spoiled => \A r \in Requests : ProjectTrue(task[r])

LEMMA BegunGrows ==
    ASSUME TypeOK, [Next]_vars
    PROVE  Begun \subseteq Begun'
<1>1. project \in [Projects -> ProjectStatus \cup {None, Gone}]
    BY DEF TypeOK
<1>2. ASSUME NEW j \in Projects, NEW s, s \notin {None, "PROPOSED"},
             project' = [project EXCEPT ![j] = s]
      PROVE  Begun \subseteq Begun'
    BY <1>1, <1>2 DEF Begun
<1>3. ASSUME project' = project PROVE Begun \subseteq Begun'
    BY <1>3 DEF Begun
<1>4. "APPROVED" # None /\ Gone \notin {None, "PROPOSED"} /\ None \notin ProjectStatus
    BY WorkflowAssumption DEF WorkflowAssumption, ProjectStatus
<1>5. ASSUME NEW r \in Requests, Proposing(r) PROVE Begun \subseteq Begun'
  <2>1. ASSUME NEW j \in Projects, NEW a \in Link(Assemblies), CreateProject(r, j, a)
        PROVE  Begun \subseteq Begun'
      BY <1>1, <2>1 DEF CreateProject, Begun
  <2>. QED BY <1>3, <1>5, <2>1 DEF Proposing, InsertProposal, OpenBallot, LinkProposal,
          CreateProposal, FindAssembly, Assign, CreateAssembly, CreateVoting, RemoveVoting, db
<1>6. ASSUME NEW r \in Requests, Assembling(r) PROVE Begun \subseteq Begun'
  <2>1. CASE ApproveProject(r)
      BY <1>2, <1>3, <1>4, <2>1, TypeParts, CompletionFields DEF ApproveProject
  <2>2. CASE ~ApproveProject(r)
      BY <1>3, <1>6, <2>2 DEF Assembling, ReadAssembly, StartOrComplete, WriteAssembly,
          CountVotes, ListProposals, DecideProposal, CompleteAssembly, ReadForRemoveAssembly,
          ReadForMinutes, DeleteAssembly, FindMinutes, InsertMinutes, db
  <2>. QED BY <2>1, <2>2
<1>7. ASSUME NEW r \in Requests, Deciding(r) PROVE Begun \subseteq Begun'
  <2>1. CASE ForceProject(r)
      BY <1>2, <1>3, <1>4, <2>1, TypeParts, StatusFields DEF ForceProject
  <2>2. CASE WriteProject(r)
      BY <1>2, <1>3, <1>4, <2>2, TypeParts, StatusFields DEF WriteProject
  <2>3. CASE DeleteProject(r)
      BY <1>2, <1>3, <1>4, <2>3, TypeParts, OtherFields DEF DeleteProject
  <2>4. CASE ~(ForceProject(r) \/ WriteProject(r) \/ DeleteProject(r))
      BY <1>3, <1>7, <2>4 DEF Deciding, ReadProposal, WriteProposal, ReadForEdit, EditProposal,
          ReadForRemoveProposal, DeleteProposal, ReadProject, ReadForRemoveProject, db
  <2>. QED BY <2>1, <2>2, <2>3, <2>4
<1>. QED BY <1>3, <1>5, <1>6, <1>7 DEF Next, Restart, vars, db

LEMMA ProjectStays ==
    ASSUME TypeOK, Track, "race" \notin spoiled', JudgedInv, ProjectInv, Begun \subseteq Begun',
           NEW q \in Requests, task'[q] = task[q]
    PROVE  ProjectTrue(task[q])'
<1> DEFINE t == task[q]
<1>1. Judged(t) /\ ProjectTrue(t) /\ ReliesOn(t) \cap Changed = {} /\ t \in Task
    BY NoRace, TypeParts DEF JudgedInv, ProjectInv, Races
<1>2. CASE t.pc = "writeProposal"
  <2>1. ReliesOn(t) = {t.proposal} /\ t.proposal \in Proposals
      BY <1>1, <1>2, StatusFields DEF ReliesOn
  <2>2. proposal'[t.proposal] = proposal[t.proposal]
      BY <1>1, <2>1 DEF Changed
  <2>3. t.proposal \in Live(proposal') => t.proposal \in Live(proposal)
      BY <2>1, <2>2 DEF Live, TypeOK
  <2>. QED BY <1>1, <1>2, <2>2, <2>3 DEF ProjectTrue
<1>3. CASE t.pc \in {"decide", "approveProject"}
  <2> DEFINE a == t.assembly
  <2>1. ReliesOn(t) = Agenda(a) \cup Agenda(a)'
      BY <1>3 DEF ReliesOn, Completing
  <2>2. SeenTrue(a, t.seen)
      BY <1>1, <1>3 DEF Judged, AgendaTrue
  <2>3. ASSUME NEW x \in t.seen PROVE SeenProject(x)'
    <3>1. x.id \in Live(proposal) /\ proposal[x.id].voting \in VotingsOf(a)
        BY <2>2 DEF SeenTrue
    <3>2. x.id \in ProposalsIn(proposal[x.id].voting)
        BY <3>1 DEF ProposalsIn
    <3>3. x.id \in Agenda(a) /\ x.id \in Proposals
        BY <3>1, <3>2 DEF Agenda, Live, TypeOK
    <3>4. proposal'[x.id] = proposal[x.id]
        BY <1>1, <2>1, <3>3 DEF Changed
    <3>5. SeenProject(x)
        BY <1>1, <1>3 DEF ProjectTrue
    <3>. QED BY <3>1, <3>4, <3>5 DEF SeenProject
  <2>. QED BY <1>3, <2>3 DEF ProjectTrue
<1>4. CASE t.pc \notin {"writeProposal", "decide", "approveProject"}
    BY <1>4 DEF ProjectTrue
<1>. QED BY <1>2, <1>3, <1>4

LEMMA ProjectKept ==
    ASSUME TypeOK, JudgedInv, ProjectInv, Begun \subseteq Begun', Track, NEW r \in Requests,
           NEW t, Continue(r, t), "race" \notin spoiled' => ProjectTrue(t)'
    PROVE  ProjectInv'
<1> SUFFICES ASSUME "race" \notin spoiled', NEW q \in Requests
             PROVE  ProjectTrue(task[q])'
    BY DEF ProjectInv
<1>1. task \in [Requests -> Task]
    BY TypeParts
<1>2. CASE q = r
  <2>1. task'[q] = t
      BY <1>1, <1>2 DEF Continue
  <2>. QED BY <2>1 DEF ProjectTrue
<1>3. CASE q # r
  <2>1. task'[q] = task[q]
      BY <1>1, <1>3 DEF Continue
  <2>. QED BY <2>1, ProjectStays
<1>. QED BY <1>2, <1>3

LEMMA NoProjectRead ==
    ASSUME TypeOK, JudgedInv, ProjectInv, Begun \subseteq Begun', Track, NEW r \in Requests,
           NEW t, Continue(r, t), t.pc \notin {"writeProposal", "decide", "approveProject"}
    PROVE  ProjectInv'
<1>1. ProjectTrue(t)'
    BY DEF ProjectTrue
<1>. QED BY <1>1, ProjectKept

LEMMA ElsewhereNoProject ==
    ASSUME TypeOK, JudgedInv, ProjectInv, Begun \subseteq Begun', Track, NEW r \in Requests,
           Elsewhere(r)
    PROVE  ProjectInv'
BY NoProjectRead DEF Elsewhere, Completing

LEMMA ReadProposalProject ==
    ASSUME TypeOK, JudgedInv, ProjectInv, Begun \subseteq Begun', NEW r \in Requests,
           NEW p \in Proposals, NEW s \in ProposalStatus, ReadProposal(r, p, s)
    PROVE  ProjectInv'
<1>1. PICK t : t = [pc |-> "writeProposal", proposal |-> p, to |-> s,
                    project |-> proposal[p].project]
    OBVIOUS
<1>2. Track /\ Continue(r, t) /\ proposal' = proposal
    BY <1>1 DEF ReadProposal, Begin, Continue, db
<1>3. ProjectTrue(t)'
    BY <1>1, <1>2 DEF ProjectTrue
<1>. QED BY <1>2, <1>3, ProjectKept

LEMMA StartOrCountProject ==
    ASSUME TypeOK, JudgedInv, ProjectInv, Begun \subseteq Begun', NEW r \in Requests,
           \/ StartOrComplete(r)
           \/ \E v \in Votings, passed \in BOOLEAN : CountVotes(r, v, passed)
    PROVE  ProjectInv'
<1>1. CASE StartOrComplete(r)
  <2> DEFINE u == [pc |-> "writeAssembly", assembly |-> task[r].assembly, to |-> task[r].to]
             next == AfterVoting(task[r].assembly, VotingsOf(task[r].assembly))
  <2>1. Track /\ (Continue(r, Idle) \/ Continue(r, next) \/ Continue(r, u))
      BY <1>1 DEF StartOrComplete
  <2>2. {Idle.pc, next.pc, u.pc} \cap {"writeProposal", "decide", "approveProject"} = {}
      BY DEF Idle, AfterVoting
  <2> HIDE DEF u, next
  <2>. QED BY <2>1, <2>2, NoProjectRead
<1>2. ASSUME NEW v \in Votings, NEW passed \in BOOLEAN, CountVotes(r, v, passed)
      PROVE  ProjectInv'
  <2> DEFINE u == [pc |-> "proposals", assembly |-> task[r].assembly,
                   todo |-> task[r].todo \ {v}, voting |-> v, passed |-> passed]
  <2>1. Track /\ (Continue(r, Idle) \/ Continue(r, u))
      BY <1>2 DEF CountVotes
  <2>2. {Idle.pc, u.pc} \cap {"writeProposal", "decide", "approveProject"} = {}
      BY DEF Idle
  <2> HIDE DEF u
  <2>. QED BY <2>1, <2>2, NoProjectRead
<1>. QED BY <1>1, <1>2

LEMMA ProjectAfter ==
    ASSUME NEW a, NEW todo, NEW passed, NEW seen, \A x \in seen : SeenProject(x)'
    PROVE  ProjectTrue(AfterProposal(a, todo, passed, seen))'
BY DEF ProjectTrue, AfterProposal, AfterVoting

LEMMA ListProject ==
    ASSUME TypeOK, ProjectsLinked, JudgedInv, ProjectInv, Begun \subseteq Begun',
           NEW r \in Requests, ListProposals(r)
    PROVE  ProjectInv'
<1> DEFINE Entry(p) == [id |-> p, status |-> proposal[p].status,
                        project |-> proposal[p].project,
                        projectStatus |-> IF proposal[p].project = None THEN None
                                          ELSE project[proposal[p].project]]
           listed == {Entry(p) : p \in ProposalsIn(task[r].voting)}
<1>1. PICK a, todo, passed, seen :
          /\ a = task[r].assembly /\ todo = task[r].todo /\ passed = task[r].passed
          /\ seen = listed
    OBVIOUS
<1>2. Track /\ UNCHANGED db /\ Continue(r, AfterProposal(a, todo, passed, seen))
    BY <1>1 DEF ListProposals
<1>3. ASSUME NEW x \in seen PROVE SeenProject(x)
  <2>1. PICK p \in ProposalsIn(task[r].voting) : x = Entry(p)
      BY <1>1
  <2>2. x.id = p /\ x.project = proposal[p].project
            /\ (x.project # None => x.projectStatus = project[x.project])
      BY <2>1
  <2>3. x.project \in Link(Live(project))
      BY <2>2 DEF ProjectsLinked, ProposalsIn
  <2>4. x.project # None => x.project \in Projects /\ project[x.project] # None
      BY <2>3 DEF Link, Live, TypeOK
  <2>. QED BY <2>2, <2>4 DEF SeenProject, Begun
<1> HIDE DEF listed
<1>4. \A x \in seen : SeenProject(x)'
    BY <1>2, <1>3 DEF db, SeenProject, Begun, Live
<1>. QED BY <1>2, <1>4, ProjectAfter, ProjectKept

LEMMA DecideProject ==
    ASSUME TypeOK, TypeOK', JudgedInv, ProjectInv, Begun \subseteq Begun', NEW r \in Requests,
           NEW x \in task[r].seen, DecideProposal(r, x)
    PROVE  ProjectInv'
<1>1. PICK a, todo, passed, seen :
          /\ a = task[r].assembly /\ todo = task[r].todo /\ passed = task[r].passed
          /\ seen = task[r].seen
    OBVIOUS
<1> DEFINE s == IF task[r].passed THEN "APPROVED" ELSE "REJECTED"
           rest == seen \ {x}
           u == [pc |-> "approveProject", assembly |-> a, todo |-> todo,
                 passed |-> passed, seen |-> rest, project |-> x.project]
<1>2. Track /\ task[r].pc = "decide"
    BY DEF DecideProposal
<1>3. Continue(r, Idle) \/ Continue(r, AfterProposal(a, todo, passed, rest)) \/ Continue(r, u)
    BY <1>1 DEF DecideProposal, Finish
<1>4. ASSUME "race" \notin spoiled', NEW y \in rest PROVE SeenProject(y)'
  <2>1. SeenProject(y) /\ SeenTrue(a, seen)
      BY <1>1, <1>2, <1>4, NoRace DEF ProjectInv, ProjectTrue, JudgedInv, Judged, AgendaTrue
  <2>2. y.id # x.id /\ y.id \in Live(proposal)
      BY <1>1, <2>1 DEF SeenTrue
  <2>3. \/ proposal' = proposal
        \/ proposal' = [proposal EXCEPT ![x.id] = [proposal[x.id] EXCEPT !.status = s]]
      BY DEF DecideProposal
  <2>4. proposal'[y.id] = proposal[y.id]
      BY <2>2, <2>3 DEF Live
  <2>. QED BY <2>1, <2>2, <2>4 DEF SeenProject
<1> HIDE DEF rest
<1>5. CASE Continue(r, Idle)
    BY <1>2, <1>5, NoProjectRead DEF Idle
<1>6. CASE Continue(r, AfterProposal(a, todo, passed, rest))
  <2>1. "race" \notin spoiled' => ProjectTrue(AfterProposal(a, todo, passed, rest))'
      BY <1>4, ProjectAfter
  <2>. QED BY <1>2, <1>6, <2>1, ProjectKept
<1>7. CASE Continue(r, u)
  <2>1. PICK t : t = u
      OBVIOUS
  <2>2. t.pc = "approveProject" /\ t.seen = rest
      BY <2>1
  <2>3. "race" \notin spoiled' => ProjectTrue(t)'
      BY <1>4, <2>2 DEF ProjectTrue
  <2>. QED BY <1>2, <1>7, <2>1, <2>3, ProjectKept
<1>. QED BY <1>3, <1>5, <1>6, <1>7

LEMMA ApproveProjectProject ==
    ASSUME TypeOK, JudgedInv, ProjectInv, Begun \subseteq Begun', NEW r \in Requests,
           ApproveProject(r)
    PROVE  ProjectInv'
<1>1. PICK a, todo, passed, seen :
          /\ a = task[r].assembly /\ todo = task[r].todo /\ passed = task[r].passed
          /\ seen = task[r].seen
    OBVIOUS
<1>2. Track /\ proposal' = proposal
    BY DEF ApproveProject
<1>3. Continue(r, Idle) \/ Continue(r, AfterProposal(a, todo, passed, seen))
    BY <1>1 DEF ApproveProject, Finish
<1>4. ASSUME "race" \notin spoiled', NEW x \in seen PROVE SeenProject(x)'
  <2>1. SeenProject(x)
      BY <1>1, <1>2, <1>4, NoRace DEF ProjectInv, ProjectTrue, ApproveProject
  <2>. QED BY <1>2, <2>1 DEF SeenProject
<1>5. CASE Continue(r, Idle)
    BY <1>2, <1>5, NoProjectRead DEF Idle
<1>6. CASE Continue(r, AfterProposal(a, todo, passed, seen))
  <2>1. "race" \notin spoiled' => ProjectTrue(AfterProposal(a, todo, passed, seen))'
      BY <1>4, ProjectAfter
  <2>. QED BY <1>2, <1>6, <2>1, ProjectKept
<1>. QED BY <1>3, <1>5, <1>6

LEMMA ProjectNext ==
    ASSUME TypeOK, TypeOK', ProjectsLinked, JudgedInv, ProjectInv, [Next]_vars
    PROVE  ProjectInv'
<1>0. Begun \subseteq Begun'
    BY BegunGrows
<1>1. CASE UNCHANGED vars
    BY <1>1 DEF vars, db, ProjectInv, ProjectTrue, SeenProject, Begun, Live
<1>2. CASE Restart
  <2>1. \A r \in Requests : task'[r].pc = "idle"
      BY <1>2 DEF Restart, Idle
  <2>. QED BY <2>1 DEF ProjectInv, ProjectTrue
<1>3. ASSUME NEW r \in Requests, Proposing(r) PROVE ProjectInv'
    BY <1>0, <1>3, ProposingUnjudging, UnjudgingElsewhere, ElsewhereNoProject
<1>4. ASSUME NEW r \in Requests, Deciding(r) PROVE ProjectInv'
    BY <1>0, <1>4, DecidingUnread, DecidingElsewhere, ReadProposalProject, ElsewhereNoProject
<1>5. ASSUME NEW r \in Requests, Assembling(r) PROVE ProjectInv'
    BY <1>0, <1>5, SecretarialUnjudging, UnjudgingElsewhere, ElsewhereNoProject,
       StartOrCountProject, ListProject, DecideProject, ApproveProjectProject DEF Assembling
<1>. QED BY <1>1, <1>2, <1>3, <1>4, <1>5 DEF Next

-----------------------------------------------------------------------------
(* An approval and the project that follows it.                            *)
Following == {"approveProject", "forceProject"}

Follows(j) == \E r \in Requests : task[r].pc \in Following /\ task[r].project = j

NeedsProject(p) == proposal[p].status = "APPROVED" /\ proposal[p].project # None

MovesOn(p) ==
    NeedsProject(p) =>
        project[proposal[p].project] # "PROPOSED" \/ Follows(proposal[p].project)

\* No proposal is newly approved, and none that is gets another project.
NoApproval ==
    \A p \in Live(proposal') :
        NeedsProject(p)' => /\ p \in Live(proposal)
                            /\ NeedsProject(p)
                            /\ proposal'[p].project = proposal[p].project

LEMMA SameNoApproval == proposal' = proposal => NoApproval
BY DEF NoApproval, NeedsProject, Live

LEMMA DetachedNoApproval ==
    ASSUME TypeOK, NEW as, NEW vs, NEW js, proposal' = Detached(as, vs, js)
    PROVE  NoApproval
<1> SUFFICES ASSUME NEW p \in Live(proposal'), NeedsProject(p)'
             PROVE  /\ p \in Live(proposal)
                    /\ NeedsProject(p)
                    /\ proposal'[p].project = proposal[p].project
    BY DEF NoApproval
<1>1. p \in Live(proposal) /\ proposal'[p].status = proposal[p].status
          /\ proposal'[p].project = Unless(proposal[p].project, js)
    BY TypeParts, DetachedTyped
<1>. QED BY <1>1 DEF NeedsProject, Unless

\* One row is written: not approved, or with the status and project it had.
LEMMA WrittenNoApproval ==
    ASSUME TypeOK, NEW p \in Proposals, NEW row, proposal' = [proposal EXCEPT ![p] = row],
           \/ row.status # "APPROVED"
           \/ row.project = None
           \/ /\ p \in Live(proposal)
              /\ row.status = proposal[p].status /\ row.project = proposal[p].project
           \/ row = Gone
    PROVE  NoApproval
BY DEF TypeOK, NoApproval, NeedsProject, Live

LEMMA ProposingNoApproval ==
    ASSUME TypeOK, TypeOK', NEW r \in Requests, Proposing(r)
    PROVE  NoApproval
<1> DEFINE t == task[r]
<1>0. t \in Task
    BY TypeParts
<1>1. ASSUME NEW p \in Proposals, InsertProposal(r, p) PROVE NoApproval
    BY <1>1, WrittenNoApproval, SameNoApproval DEF InsertProposal
<1>2. LinkProposal(r) => NoApproval
  <2> SUFFICES ASSUME LinkProposal(r), t.proposal \in Live(proposal), proposal' # proposal
               PROVE  NoApproval
      BY SameNoApproval DEF LinkProposal
  <2> DEFINE row == [proposal[t.proposal] EXCEPT !.voting = t.voting]
  <2>1. proposal' = [proposal EXCEPT ![t.proposal] = row]
      BY DEF LinkProposal
  <2>2. t.proposal \in Proposals /\ proposal[t.proposal] \in Proposal
      BY <1>0, TypeParts, LiveRows, ProposingFields DEF LinkProposal
  <2>3. row.status = proposal[t.proposal].status /\ row.project = proposal[t.proposal].project
      BY <2>2 DEF Proposal
  <2> HIDE DEF row
  <2>. QED BY <2>1, <2>2, <2>3, WrittenNoApproval
<1>3. ASSUME NEW p \in Proposals, NEW j \in Link(Projects), NEW w \in Links,
             CreateProposal(r, p, j, w)
      PROVE  NoApproval
    BY <1>3, WrittenNoApproval DEF CreateProposal
<1>4. Assign(r) => NoApproval
  <2> SUFFICES ASSUME Assign(r), t.proposal \in Live(proposal), proposal' # proposal
               PROVE  NoApproval
      BY SameNoApproval DEF Assign
  <2> DEFINE p == t.proposal
             row == [proposal[p] EXCEPT
                       !.assembly = IF t.links.assembly = None THEN @ ELSE t.links.assembly,
                       !.voting = IF t.links.voting = None THEN @ ELSE t.links.voting]
  <2>1. p \in Proposals /\ proposal[p] \in Proposal
      BY <1>0, TypeParts, LiveRows, ProposingFields DEF Assign
  <2>2. proposal' = [proposal EXCEPT ![p] = row]
      BY <2>1 DEF Assign, TypeOK
  <2>3. row.status = proposal[p].status /\ row.project = proposal[p].project
      BY <2>1 DEF Proposal
  <2> HIDE DEF row
  <2>. QED BY <2>1, <2>2, <2>3, WrittenNoApproval
<1>5. ASSUME NEW v \in Votings, NEW a \in Assemblies, NEW ps \in SUBSET Proposals,
             CreateVoting(r, v, a, ps)
      PROVE  NoApproval
    BY <1>5 DEF CreateVoting, NoApproval, NeedsProject, Live, TypeOK
<1>6. ASSUME NEW v \in Votings, RemoveVoting(r, v) PROVE NoApproval
    BY <1>6, DetachedNoApproval DEF RemoveVoting
<1>. QED BY <1>1, <1>2, <1>3, <1>4, <1>5, <1>6, SameNoApproval
         DEF Proposing, CreateProject, OpenBallot, FindAssembly, CreateAssembly, db

\* A PATCH starts from a pending proposal, and one that approves is tracked.
LEMMA EditNoApproval ==
    ASSUME TypeOK, JudgedInv, NEW r \in Requests, EditProposal(r), spoiled' = {}
    PROVE  NoApproval
<1> DEFINE p == task[r].proposal
           patch == task[r].patch
           row == Merge(proposal[p], patch)
<1> SUFFICES ASSUME proposal' # proposal PROVE NoApproval
    BY SameNoApproval
<1>1. /\ p \in Live(proposal) /\ proposal' = [proposal EXCEPT ![p] = row]
      /\ task[r].pc = "editProposal" /\ Track
    BY DEF EditProposal
<1>2. p \in Proposals
    BY <1>1, TypeParts, LiveRows
<1>3. patch.status # "APPROVED"
    BY <1>1 DEF Track, Patched
<1>4. proposal[p].status = "PENDING"
    BY <1>1, NoRace DEF JudgedInv, Judged, StatusTrue
<1>5. row.status # "APPROVED"
    BY <1>3, <1>4 DEF Merge
<1> HIDE DEF row
<1>. QED BY <1>1, <1>2, <1>5, WrittenNoApproval

LEMMA MovesKept ==
    ASSUME TypeOK, TypeOK', ProjectsLinked, Begun \subseteq Begun',
           \A p \in Live(proposal) : MovesOn(p),
           NEW r \in Requests, \A q \in Requests \ {r} : task'[q] = task[q],
           task[r].pc \in Following /\ task[r].project \in Live(project) =>
               project'[task[r].project] # "PROPOSED",
           NEW p \in Live(proposal'), p \in Live(proposal), NeedsProject(p),
           proposal'[p].project = proposal[p].project
    PROVE  MovesOn(p)'
<1> DEFINE j == proposal[p].project
<1>1. j \in Live(project) /\ j \in Projects
    BY DEF NeedsProject, ProjectsLinked, Link, Live, TypeOK
<1>2. CASE project[j] # "PROPOSED"
  <2>1. j \in Begun
      BY <1>1, <1>2 DEF Begun, Live
  <2>. QED BY <2>1 DEF Begun, MovesOn
<1>3. CASE Follows(j)
  <2>1. PICK q \in Requests : task[q].pc \in Following /\ task[q].project = j
      BY <1>3 DEF Follows
  <2>2. CASE q = r
      BY <1>1, <2>1, <2>2 DEF MovesOn
  <2>3. CASE q # r
    <3>1. Follows(j)'
        BY <2>1, <2>3 DEF Follows
    <3>. QED BY <3>1 DEF MovesOn
  <2>. QED BY <2>2, <2>3
<1>. QED BY <1>2, <1>3 DEF MovesOn

\* A step that approves nothing keeps it, unless it drops a request's project.
LEMMA MovesWithoutApproval ==
    ASSUME TypeOK, TypeOK', ProjectsLinked, Begun \subseteq Begun',
           \A p \in Live(proposal) : MovesOn(p),
           NEW r \in Requests, \A q \in Requests \ {r} : task'[q] = task[q],
           task[r].pc \in Following /\ task[r].project \in Live(project) =>
               project'[task[r].project] # "PROPOSED",
           NoApproval
    PROVE  \A p \in Live(proposal') : MovesOn(p)'
<1> SUFFICES ASSUME NEW p \in Live(proposal'), NeedsProject(p)' PROVE MovesOn(p)'
    BY DEF MovesOn
<1>1. /\ p \in Live(proposal) /\ NeedsProject(p)
      /\ proposal'[p].project = proposal[p].project
    BY DEF NoApproval
<1>. QED BY <1>1, MovesKept

\* The two steps that approve a proposal go on to its project.
LEMMA MovesWithApproval ==
    ASSUME TypeOK, TypeOK', ProjectsLinked, Begun \subseteq Begun',
           \A p \in Live(proposal) : MovesOn(p),
           NEW r \in Requests, \A q \in Requests \ {r} : task'[q] = task[q],
           task[r].pc \notin Following,
           NEW x \in Proposals, NEW s, x \in Live(proposal),
           proposal' = [proposal EXCEPT ![x].status = s],
           s = "APPROVED" => MovesOn(x)'
    PROVE  \A p \in Live(proposal') : MovesOn(p)'
<1> SUFFICES ASSUME NEW p \in Live(proposal'), NeedsProject(p)' PROVE MovesOn(p)'
    BY DEF MovesOn
<1>1. proposal[x] \in Proposal /\ p \in Proposals
    BY TypeParts, LiveRows DEF Live, TypeOK
<1> DEFINE row == [proposal[x] EXCEPT !.status = s]
<1>2. row.status = s
    BY <1>1 DEF Proposal
<1>3. proposal' = [proposal EXCEPT ![x] = row]
    OBVIOUS
<1> HIDE DEF row
<1>4. CASE p = x
    BY <1>1, <1>2, <1>3, <1>4 DEF NeedsProject, TypeOK
<1>5. CASE p # x
  <2>1. proposal'[p] = proposal[p]
      BY <1>1, <1>3, <1>5
  <2>2. p \in Live(proposal) /\ NeedsProject(p)
      BY <1>1, <2>1 DEF Live, NeedsProject, TypeOK
  <2>. QED BY <2>1, <2>2, MovesKept
<1>. QED BY <1>4, <1>5

MovesInv == spoiled = {} => \A p \in Live(proposal) : MovesOn(p)

\* A step is one request's own.
LEMMA StepsAlone ==
    ASSUME TypeOK, NEW r \in Requests, Proposing(r) \/ Assembling(r) \/ Deciding(r)
    PROVE  Track /\ \A q \in Requests \ {r} : task'[q] = task[q]
<1>0. ASSUME NEW t, Continue(r, t) PROVE \A q \in Requests \ {r} : task'[q] = task[q]
    BY <1>0, TypeParts DEF Continue
<1>1. CASE Proposing(r)
    BY <1>0, <1>1, ProposingUnjudging DEF Unjudging
<1>2. CASE Deciding(r)
    BY <1>0, <1>2, DecidingUnread DEF Unread
<1>3. CASE Assembling(r)
  <2>1. Track
      BY <1>3 DEF Assembling, ReadAssembly, StartOrComplete, WriteAssembly, CountVotes,
          ListProposals, DecideProposal, ApproveProject, CompleteAssembly, ReadForRemoveAssembly,
          ReadForMinutes, DeleteAssembly, FindMinutes, InsertMinutes
  <2>2. \E t : Continue(r, t)
      BY <1>3 DEF Assembling, ReadAssembly, StartOrComplete, WriteAssembly, CountVotes,
          ListProposals, DecideProposal, ApproveProject, CompleteAssembly, ReadForRemoveAssembly,
          ReadForMinutes, DeleteAssembly, FindMinutes, InsertMinutes, Begin, Continue, Finish
  <2>. QED BY <1>0, <2>1, <2>2
<1>. QED BY <1>1, <1>2, <1>3

\* Only the writes of a project itself are steps of a request that follows.
LEMMA OnlyWritesFollow ==
    ASSUME NEW r \in Requests, Proposing(r) \/ Assembling(r) \/ Deciding(r),
           ~ApproveProject(r), ~ForceProject(r)
    PROVE  task[r].pc \notin Following
<1>1. Idle.pc \notin Following
    BY DEF Idle, Following
<1>2. CASE Proposing(r)
    BY <1>1, <1>2 DEF Proposing, CreateProject, InsertProposal, OpenBallot, LinkProposal,
        CreateProposal, FindAssembly, Assign, CreateAssembly, CreateVoting, RemoveVoting,
        Begin, Following
<1>3. CASE Assembling(r)
    BY <1>1, <1>3 DEF Assembling, ReadAssembly, StartOrComplete, WriteAssembly, CountVotes,
        ListProposals, DecideProposal, CompleteAssembly, ReadForRemoveAssembly,
        ReadForMinutes, DeleteAssembly, FindMinutes, InsertMinutes, Begin, Following
<1>4. CASE Deciding(r)
    BY <1>1, <1>4 DEF Deciding, ReadProposal, WriteProposal, ReadForEdit, EditProposal,
        ReadForRemoveProposal, DeleteProposal, ReadProject, WriteProject,
        ReadForRemoveProject, DeleteProject, Begin, Following
<1>. QED BY <1>2, <1>3, <1>4

\* The steps that write no status of a proposal, or none that approves.
LEMMA OthersNoApproval ==
    ASSUME TypeOK, TypeOK', JudgedInv, NEW r \in Requests, spoiled' = {},
           Proposing(r) \/ Assembling(r) \/ Deciding(r),
           ~WriteProposal(r), ~\E x \in task[r].seen : DecideProposal(r, x)
    PROVE  NoApproval
<1>0. task[r] \in Task
    BY TypeParts
<1>1. CASE Proposing(r)
    BY <1>1, ProposingNoApproval
<1>2. CASE Assembling(r)
  <2>1. CASE DeleteAssembly(r)
      BY <2>1, DetachedNoApproval, SameNoApproval DEF DeleteAssembly
  <2>2. CASE ~DeleteAssembly(r)
      BY <1>2, <2>2, SameNoApproval DEF Assembling, ReadAssembly, StartOrComplete,
          WriteAssembly, CountVotes, ListProposals, ApproveProject, CompleteAssembly,
          ReadForRemoveAssembly, ReadForMinutes, FindMinutes, InsertMinutes, db
  <2>. QED BY <2>1, <2>2
<1>3. CASE Deciding(r)
  <2>1. CASE EditProposal(r)
      BY <2>1, EditNoApproval
  <2>2. CASE DeleteProposal(r)
      BY <1>0, <2>2, WrittenNoApproval, SameNoApproval, OtherFields DEF DeleteProposal
  <2>3. CASE DeleteProject(r)
      BY <2>3, DetachedNoApproval, SameNoApproval DEF DeleteProject
  <2>4. CASE ~(EditProposal(r) \/ DeleteProposal(r) \/ DeleteProject(r))
      BY <1>3, <2>4, SameNoApproval DEF Deciding, ReadProposal, ForceProject, ReadForEdit,
          ReadForRemoveProposal, ReadProject, WriteProject, ReadForRemoveProject, db
  <2>. QED BY <2>1, <2>2, <2>3, <2>4
<1>. QED BY <1>1, <1>2, <1>3

\* What a request follows is no longer PROPOSED once it is written.
LEMMA FollowingWrites ==
    ASSUME TypeOK, NEW r \in Requests, ApproveProject(r) \/ ForceProject(r),
           task[r].project \in Live(project)
    PROVE  project'[task[r].project] # "PROPOSED"
BY DEF ApproveProject, ForceProject, TypeOK, Live

LEMMA ApprovedByPatch ==
    ASSUME TypeOK, TypeOK', ProjectInv, NEW r \in Requests, WriteProposal(r), spoiled' = {},
           NEW x \in Live(proposal), x = task[r].proposal, task[r].to = "APPROVED"
    PROVE  MovesOn(x)'
<1>0. PICK j : j = task[r].project
    OBVIOUS
<1> DEFINE u == [pc |-> "forceProject", project |-> j]
<1>1. x \in Proposals /\ proposal[x] \in Proposal
    BY TypeParts, LiveRows
<1>2. proposal[x].project = j
    BY <1>0, NoRace DEF WriteProposal, ProjectInv, ProjectTrue
<1>3. proposal'[x].project = j
  <2> DEFINE row == [proposal[x] EXCEPT !.status = task[r].to]
  <2>1. row.project = j
      BY <1>1, <1>2 DEF Proposal
  <2>2. proposal' = [proposal EXCEPT ![x] = row]
      BY DEF WriteProposal
  <2> HIDE DEF row
  <2>. QED BY <1>1, <2>1, <2>2 DEF TypeOK
<1>4. CASE j = None
    BY <1>3, <1>4 DEF MovesOn, NeedsProject
<1>5. CASE j # None
  <2>1. u.pc \in Following /\ u.project = j
      BY DEF Following
  <2>2. Continue(r, u)
      BY <1>0, <1>5 DEF WriteProposal
  <2> HIDE DEF u
  <2>3. task'[r] = u
      BY <2>2 DEF Continue, TypeOK
  <2>4. Follows(j)'
      BY <2>1, <2>3 DEF Follows
  <2>. QED BY <1>3, <2>4 DEF MovesOn
<1>. QED BY <1>4, <1>5

LEMMA ApprovedByCompletion ==
    ASSUME TypeOK, TypeOK', ProjectInv, Begun \subseteq Begun', NEW r \in Requests,
           NEW x \in task[r].seen, DecideProposal(r, x), spoiled' = {},
           x.id \in Live(proposal), proposal' # proposal, task[r].passed
    PROVE  MovesOn(x.id)'
<1> DEFINE p == x.id
           u == [pc |-> "approveProject", assembly |-> task[r].assembly,
                 todo |-> task[r].todo, passed |-> task[r].passed,
                 seen |-> task[r].seen \ {x}, project |-> x.project]
<1>1. p \in Proposals /\ proposal[p] \in Proposal
    BY TypeParts, LiveRows
<1>2. SeenProject(x)
    BY NoRace DEF DecideProposal, ProjectInv, ProjectTrue
<1>3. proposal'[p].project = x.project
  <2> DEFINE row == [proposal[p] EXCEPT !.status = "APPROVED"]
  <2>1. row.project = x.project
      BY <1>1, <1>2 DEF Proposal, SeenProject
  <2>2. proposal' = [proposal EXCEPT ![p] = row]
      BY DEF DecideProposal
  <2> HIDE DEF row
  <2>. QED BY <1>1, <2>1, <2>2 DEF TypeOK
<1>4. CASE x.project = None
    BY <1>3, <1>4 DEF MovesOn, NeedsProject
<1>5. CASE x.project # None /\ x.projectStatus # "PROPOSED"
  <2>1. x.project \in Begun'
      BY <1>2, <1>5 DEF SeenProject
  <2>. QED BY <1>3, <2>1 DEF MovesOn, Begun
<1>6. CASE x.projectStatus = "PROPOSED"
  <2>1. u.pc \in Following /\ u.project = x.project
      BY DEF Following
  <2>2. Continue(r, u)
      BY <1>6 DEF DecideProposal, ProjectSteps
  <2> HIDE DEF u
  <2>3. task'[r] = u
      BY <2>2 DEF Continue, TypeOK
  <2>4. Follows(x.project)'
      BY <2>1, <2>3 DEF Follows
  <2>. QED BY <1>3, <2>4 DEF MovesOn
<1>. QED BY <1>4, <1>5, <1>6

LEMMA MovesNext ==
    ASSUME IInv, IInv', JudgedInv, ProjectInv, MovesInv, [Next]_vars
    PROVE  MovesInv'
<1> USE DEF IInv
<1>0. Begun \subseteq Begun'
    BY BegunGrows
<1>1. CASE UNCHANGED vars
    BY <1>1 DEF vars, db, MovesInv, MovesOn, NeedsProject, Follows, Live
<1>2. CASE Restart
  <2> SUFFICES ASSUME spoiled' = {}, NEW p \in Live(proposal), NeedsProject(p)
               PROVE  project[proposal[p].project] # "PROPOSED"
      BY <1>2 DEF MovesInv, MovesOn, Restart, db, Live, NeedsProject
  <2>1. spoiled = {} /\ ~Crashes
      BY <1>2 DEF Restart, Track
  <2>2. restarts' # restarts
      BY <1>2 DEF Restart, TypeOK
  <2>3. ~Follows(proposal[p].project)
      BY <2>1, <2>2 DEF Crashes, Follows, Following
  <2>. QED BY <2>1, <2>3 DEF MovesInv, MovesOn
<1>3. ASSUME NEW r \in Requests, Proposing(r) \/ Assembling(r) \/ Deciding(r), spoiled' = {}
      PROVE  \A p \in Live(proposal') : MovesOn(p)'
  <2>1. Track /\ \A q \in Requests \ {r} : task'[q] = task[q]
      BY <1>3, StepsAlone
  <2>2. \A p \in Live(proposal) : MovesOn(p)
      BY <1>3, <2>1 DEF Track, MovesInv
  <2>3. CASE ApproveProject(r) \/ ForceProject(r)
    <3>1. proposal' = proposal
        BY <2>3 DEF ApproveProject, ForceProject
    <3>. QED BY <1>0, <2>1, <2>2, <2>3, <3>1, FollowingWrites, SameNoApproval,
             MovesWithoutApproval
  <2>4. CASE WriteProposal(r)
    <3>1. task[r].pc \notin Following
        BY <2>4 DEF WriteProposal, Following
    <3>2. CASE task[r].proposal \in Live(proposal)
      <4>0. PICK x, s : x = task[r].proposal /\ s = task[r].to
          OBVIOUS
      <4>1. x \in Live(proposal) /\ proposal' = [proposal EXCEPT ![x].status = s]
          BY <2>4, <3>2, <4>0 DEF WriteProposal
      <4>2. x \in Proposals
          BY <4>1, TypeParts, LiveRows
      <4>3. s = "APPROVED" => MovesOn(x)'
          BY <1>3, <2>4, <4>0, <4>1, ApprovedByPatch
      <4>. QED BY <1>0, <2>1, <2>2, <3>1, <4>1, <4>2, <4>3, MovesWithApproval
    <3>3. CASE task[r].proposal \notin Live(proposal)
      <4>1. NoApproval
          BY <2>4, <3>3, SameNoApproval DEF WriteProposal
      <4>. QED BY <1>0, <2>1, <2>2, <3>1, <4>1, MovesWithoutApproval
    <3>. QED BY <3>2, <3>3
  <2>5. ASSUME NEW x \in task[r].seen, DecideProposal(r, x)
        PROVE  \A p \in Live(proposal') : MovesOn(p)'
    <3>1. task[r].pc \notin Following
        BY <2>5 DEF DecideProposal, Following
    <3>2. CASE proposal' = proposal
      <4>. QED BY <1>0, <2>1, <2>2, <3>1, <3>2, SameNoApproval, MovesWithoutApproval
    <3>3. CASE proposal' # proposal
      <4> DEFINE s == IF task[r].passed THEN "APPROVED" ELSE "REJECTED"
      <4>1. x.id \in Live(proposal) /\ proposal' = [proposal EXCEPT ![x.id].status = s]
          BY <2>5, <3>3 DEF DecideProposal
      <4>2. x.id \in Proposals
          BY <4>1, TypeParts, LiveRows
      <4>3. s = "APPROVED" => MovesOn(x.id)'
          BY <1>0, <1>3, <2>5, <3>3, <4>1, ApprovedByCompletion
      <4> HIDE DEF s
      <4>. QED BY <1>0, <2>1, <2>2, <3>1, <4>1, <4>2, <4>3, MovesWithApproval
    <3>. QED BY <3>2, <3>3
  <2>6. CASE ~(ApproveProject(r) \/ ForceProject(r) \/ WriteProposal(r)
                   \/ \E x \in task[r].seen : DecideProposal(r, x))
    <3>1. task[r].pc \notin Following /\ NoApproval
        BY <1>3, <2>6, OnlyWritesFollow, OthersNoApproval
    <3>. QED BY <1>0, <2>1, <2>2, <3>1, MovesWithoutApproval
  <2>. QED BY <2>3, <2>4, <2>5, <2>6
<1>. QED BY <1>1, <1>2, <1>3 DEF Next, MovesInv

(* As long as nothing has come in the way, no approval leaves its project  *)
(* behind: the project has moved on or the request that approved the       *)
(* proposal is about to write it (processVotingResults, updateStatus of    *)
(* ProposalsService).                                                      *)
THEOREM ApprovalsMoveProjects == Spec => []ApprovedMovesProject
<1>1. Init => IInv /\ JudgedInv /\ ProjectInv /\ MovesInv
  <2> SUFFICES ASSUME Init PROVE JudgedInv /\ ProjectInv /\ MovesInv
      BY InitTyped
  <2>1. \A r \in Requests : task[r] = Idle
      BY DEF Init
  <2>2. Live(proposal) = {}
      BY DEF Init, Live
  <2>. QED BY <2>1, <2>2, IdleJudged DEF JudgedInv, ProjectInv, ProjectTrue, MovesInv, Idle
<1>2. IInv /\ [Next]_vars => IInv'
    BY NextTyped
<1>3. IInv /\ IInv' /\ JudgedInv /\ ProjectInv /\ MovesInv /\ [Next]_vars
          => JudgedInv' /\ ProjectInv' /\ MovesInv'
    BY JudgedNext, ProjectNext, MovesNext DEF IInv
<1>4. MovesInv => ApprovedMovesProject
    BY DEF MovesInv, ApprovedMovesProject, MovesOn, NeedsProject, Follows, Following
<1>. QED BY <1>1, <1>2, <1>3, <1>4, PTL DEF Spec
=============================================================================
