--------------------------- MODULE AgentMutations ---------------------------
(* The three mutators: what a prompt patch, a tool-routing patch and a         *)
(* speciation request ask of the agent documents, when the mutator answers     *)
(* with a proposal, and what the documents are once the proposal is merged.    *)
(* A dry run writes nothing; a rejected one leaves nothing behind.  A document *)
(* is found by its species, which its path and its content must both name.     *)
EXTENDS Integers, Sequences, FiniteSets, SequencesExt

CONSTANTS
  Species, Sids,      \* species of agents, speciation ids
  Fields, Texts,      \* prompt fields on the allow-list, and their values
  Routes,             \* tool routes of an allowed namespace
  Absent,             \* no document of this species
  NoValue,            \* an operation without a value
  Rejected            \* the answer of a mutator to an input it refuses

(* Limits of a tool route (the code counts milliseconds, here seconds), its    *)
(* modes and the approval it asks for: MODE_ORDER and APPROVAL_ORDER.          *)
MaxCallsUpperBound == 8
TimeoutUpperBound == 8
Read == 0
WriteManifest == 1
NoApproval == 0
Human == 1
CodeOwner == 2

HighestMode == WriteManifest
HighestApproval == CodeOwner

ToolRouteValues ==
  [name : Routes, mode : Read..HighestMode, max_calls : 1..MaxCallsUpperBound,
   timeout : 1..TimeoutUpperBound, approval : NoApproval..HighestApproval]

(* The tool routes of a document, by their names.                              *)
AreTools(tools) ==
  DOMAIN tools \subseteq Routes /\ \A r \in DOMAIN tools : tools[r] \in ToolRouteValues /\ tools[r].name = r
ASSUME NoValueIsNoRoute == NoValue \notin ToolRouteValues

(* An agent document: evolution.speciation_id, every speciation id found below *)
(* evolution.parents, the prompt fields it has, and its tool routes.           *)
IsAgent(d) ==
  /\ DOMAIN d = {"sid", "ancestry", "prompt", "tools"}
  /\ d.sid \in Sids /\ d.ancestry \subseteq Sids
  /\ DOMAIN d.prompt \subseteq Fields /\ \A f \in DOMAIN d.prompt : d.prompt[f] \in Texts
  /\ AreTools(d.tools)

Without(f, x) == [y \in DOMAIN f \ {x} |-> f[y]]
With(f, x, v) == [y \in DOMAIN f \cup {x} |-> IF y = x THEN v ELSE f[y]]

(* What a caller of a later stage takes along: the request, the documents the  *)
(* dry run read (their digest), and whether the review gate was told of an     *)
(* expansion of permissions.                                                   *)
Proposal(r, source, expansion) == [request |-> r, source |-> source, expansion |-> expansion]
ReadBy(agents, species) == [a \in species |-> agents[a]]
MutationClasses == {"prompt_patch", "tool_routing", "speciation"}
NoTwo(keys) == \A i, j \in DOMAIN keys : keys[i] = keys[j] => i = j

(***************************************************************************)
(* Prompt patches (T046)                                                   *)
(***************************************************************************)
IsPromptRequest(r) ==
  /\ DOMAIN r = {"class", "target", "ops"} /\ r.class = "prompt_patch" /\ r.target \in Species
  /\ \A i \in DOMAIN r.ops : r.ops[i].op \in {"add", "replace", "remove"}

PromptOpIsValid(prompt, o) ==
  /\ o.field \in Fields
  /\ o.op \in {"add", "replace"} => o.value # NoValue
  /\ o.op \in {"replace", "remove"} => o.field \in DOMAIN prompt

PromptPatchIsValid(prompt, ops) ==
  /\ ops # <<>>
  /\ \A i \in DOMAIN ops : PromptOpIsValid(prompt, ops[i])
  /\ NoTwo([i \in DOMAIN ops |-> ops[i].field])

ApplyPromptOp(prompt, o) ==
  IF o.op = "remove" THEN Without(prompt, o.field) ELSE With(prompt, o.field, o.value)

PatchedPrompt(prompt, ops) == FoldLeft(ApplyPromptOp, prompt, ops)

PromptPatchDryRun(agents, r) ==
  IF /\ IsPromptRequest(r) /\ agents[r.target] # Absent
     /\ PromptPatchIsValid(agents[r.target].prompt, r.ops)
  THEN Proposal(r, ReadBy(agents, {r.target}), FALSE) ELSE Rejected

(***************************************************************************)
(* Tool-routing patches (T047)                                             *)
(***************************************************************************)
IsRouteRequest(r) ==
  /\ DOMAIN r = {"class", "target", "ops"} /\ r.class = "tool_routing" /\ r.target \in Species
  /\ \A i \in DOMAIN r.ops : r.ops[i].op \in {"add", "replace", "remove"}

RouteIsAllowed(v) == v \in ToolRouteValues
WeakensApproval(before, after) == after.approval < before.approval

(* A value never takes the name of another route the document has now, also    *)
(* when the same patch removes that route.                                     *)
(* Mutant: a value may take the name of any route. *)
TakesNothing(tools, o) == FALSE
TakesExisting(tools, o) == o.value # NoValue /\ o.value.name \in DOMAIN tools \ {o.route}

RouteOpIsValid(tools, o) ==
  /\ o.route \in Routes
  /\ ~TakesExisting(tools, o)
  /\ \/ /\ o.op = "remove"
        /\ o.route \in DOMAIN tools /\ o.value = NoValue
     \/ /\ o.op = "add"
        /\ o.route \notin DOMAIN tools
        /\ RouteIsAllowed(o.value) /\ o.value.name = o.route
     \/ /\ o.op = "replace"
        /\ o.route \in DOMAIN tools
        /\ RouteIsAllowed(o.value)
        /\ ~WeakensApproval(tools[o.route], o.value)

ApplyRouteOp(tools, o) ==
  CASE o.op = "remove"  -> Without(tools, o.route)
    [] o.op = "add"     -> With(tools, o.value.name, o.value)
    [] o.op = "replace" -> With(Without(tools, o.route), o.value.name, o.value)

(* The routes after each operation, one after the other.                      *)
RouteStages(tools, ops) ==
  LET at[n \in 0..Len(ops)] == IF n = 0 THEN tools ELSE ApplyRouteOp(at[n - 1], ops[n]) IN at
PatchedTools(tools, ops) == RouteStages(tools, ops)[Len(ops)]

(* No operation may leave two routes of one name.                              *)
NoDuplicateRoute(tools, ops) ==
  NoTwo([i \in {n \in DOMAIN ops : ops[n].value # NoValue} |-> ops[i].value.name])

RoutePatchIsValid(tools, ops) ==
  /\ ops # <<>>
  /\ \A i \in DOMAIN ops : RouteOpIsValid(tools, ops[i])
  /\ NoTwo([i \in DOMAIN ops |-> ops[i].route])
  /\ NoDuplicateRoute(tools, ops)

(* Mutant: a new name is no expansion. *)
ExpansionUnlessRenamed(tools, o) ==
  o.op = "add" \/ (o.op = "replace" /\ o.value.mode > tools[o.route].mode)

(* isPermissionExpansion: what an operation asks of the review gate.           *)
IsPermissionExpansion(tools, o) ==
  \/ o.op = "add"
  \/ /\ o.op = "replace"
     /\ LET before == tools[o.route] IN
        \/ o.value.name # o.route
        \/ o.value.mode > before.mode
        \/ o.value.max_calls > before.max_calls
        \/ o.value.timeout > before.timeout
        \/ WeakensApproval(before, o.value)

ExpansionPresent(tools, ops) == \E i \in DOMAIN ops : IsPermissionExpansion(tools, ops[i])

ToolRoutingDryRun(agents, r) ==
  IF /\ IsRouteRequest(r) /\ agents[r.target] # Absent
     /\ RoutePatchIsValid(agents[r.target].tools, r.ops)
  THEN Proposal(r, ReadBy(agents, {r.target}), ExpansionPresent(agents[r.target].tools, r.ops))
  ELSE Rejected

(***************************************************************************)
(* Speciation (T048): one parent into several children, or several into    *)
(* one.  A child is a draft: its species and its speciation id.            *)
(***************************************************************************)
IsSpeciationRequest(s) ==
  /\ DOMAIN s = {"class", "mode", "parents", "children"} /\ s.class = "speciation"
  /\ s.mode \in {"split", "merge"} /\ s.parents \subseteq Species
  /\ \A i \in DOMAIN s.children : s.children[i].species \in Species /\ s.children[i].sid \in Sids

CountsFit(s) ==
  \/ s.mode = "split" /\ Cardinality(s.parents) = 1 /\ Len(s.children) >= 2
  \/ s.mode = "merge" /\ Cardinality(s.parents) >= 2 /\ Len(s.children) = 1

ParentsExist(agents, s) == \A p \in s.parents : agents[p] # Absent

ChildrenAreNew(agents, s) ==
  /\ \A i \in DOMAIN s.children :
       /\ s.children[i].species \notin s.parents
       /\ s.children[i].sid \notin {agents[p].sid : p \in s.parents}
  /\ NoTwo([i \in DOMAIN s.children |-> s.children[i].species])
  /\ NoTwo([i \in DOMAIN s.children |-> s.children[i].sid])

NoLineageCycle(agents, s) ==
  /\ \A p \in s.parents : agents[p].sid \notin agents[p].ancestry
  /\ \A i \in DOMAIN s.children : \A p \in s.parents : s.children[i].sid \notin agents[p].ancestry

SpeciationIsValid(agents, s) ==
  /\ CountsFit(s)
  /\ ParentsExist(agents, s) /\ ChildrenAreNew(agents, s) /\ NoLineageCycle(agents, s)

SpeciationProposal(agents, s) ==
  IF IsSpeciationRequest(s) /\ SpeciationIsValid(agents, s)
  THEN Proposal(s, ReadBy(agents, s.parents), FALSE) ELSE Rejected

(* The child documents as the repository's agents are written: the lineage of  *)
(* a child holds its parents and theirs.                                       *)
ChildDocument(agents, s, child) ==
  [sid |-> child.sid,
   ancestry |-> UNION {agents[p].ancestry \cup {agents[p].sid} : p \in s.parents},
   prompt |-> <<>>, tools |-> <<>>]

Speciated(agents, s) ==
  [a \in Species |->
     IF \E i \in DOMAIN s.children : s.children[i].species = a
     THEN ChildDocument(agents, s, CHOOSE c \in {s.children[i] : i \in DOMAIN s.children} : c.species = a)
     ELSE agents[a]]

(***************************************************************************)
(* Any of the three                                                        *)
(***************************************************************************)
DryRun(agents, r) ==
  CASE r.class = "prompt_patch" -> PromptPatchDryRun(agents, r)
    [] r.class = "tool_routing" -> ToolRoutingDryRun(agents, r)
    [] r.class = "speciation"   -> SpeciationProposal(agents, r)

TargetPaths(r) ==
  IF r.class = "speciation"
  THEN r.parents \cup {r.children[i].species : i \in DOMAIN r.children}
  ELSE {r.target}

(* The ids of a patch name its target and operations; those of a speciation    *)
(* proposal also what its parents were.                                        *)
ProposalId(p) == IF p.request.class = "speciation" THEN <<p.request, p.source>> ELSE <<p.request>>

Merged(agents, r) ==
  CASE r.class = "prompt_patch" -> [agents EXCEPT ![r.target].prompt = PatchedPrompt(@, r.ops)]
    [] r.class = "tool_routing" -> [agents EXCEPT ![r.target].tools = PatchedTools(@, r.ops)]
    [] r.class = "speciation"   -> Speciated(agents, r)
=============================================================================
