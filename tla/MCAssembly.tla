----------------------------- MODULE MCAssembly -----------------------------
EXTENDS AssemblyWorkflow, TLC

Body(s, j, v) == [status |-> s, project |-> j, assembly |-> None, voting |-> v]

\* Bodies that decide a proposal, put it to a project, or to a voting.
AllPatches ==
    {Body("APPROVED", None, None)} \cup {Body(None, j, v) : j \in Projects, v \in Votings}

AllKinds ==
    {"createProject", "createProposal", "createAssembly", "createVoting", "removeVoting",
     "patchAssembly", "assemblyStatus", "removeAssembly", "minutes", "proposalStatus",
     "editProposal", "removeProposal", "projectStatus", "removeProject"}

DirectKinds == {"createProject", "projectStatus", "proposalStatus"}

\* What happens after a race is nobody's promise.
BeforeRaces == "race" \notin spoiled

\* Requests interleave while there is one proposal; one at a time works on two.
Manageable ==
    Cardinality({p \in Proposals : proposal[p] # None}) > 1 =>
        Cardinality({r \in Requests : task[r] # Idle}) <= 1

Symmetry == Permutations(Requests) \cup Permutations(Votings) \cup Permutations(Proposals)
=============================================================================
