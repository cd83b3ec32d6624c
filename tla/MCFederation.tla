------------------------------ MODULE MCFederation ------------------------------
(* The default topology of the demo, forge-root with two partners that have a  *)
(* treaty with each other as well.                                             *)
EXTENDS Federation

CONSTANTS root, lib, app, rootLib, rootApp, libApp, api, other, evaluation, mutation, docs, src, top

MCPeers == {root, lib, app}
MCPlace == [p \in MCPeers |-> CASE p = app -> 1 [] p = lib -> 2 [] p = root -> 3]
MCLinks == {rootLib, rootApp, libApp}
Term(source, target, actions) ==
  [source |-> source, target |-> target, actions |-> actions, roots |-> {api}, kinds |-> {evaluation, mutation}]
MCTerms ==
  [l \in MCLinks |->
     CASE l = rootLib -> Term(root, lib, {"gossip_sync", "lineage_import_candidate", "reputation_update"})
       [] l = rootApp -> Term(root, app, {"gossip_sync", "lineage_import_candidate", "reputation_update"})
       [] l = libApp -> Term(lib, app, LineageActions)]

(* The weights of the code. *)
MCWeights ==
  [adoption |-> [accepted |-> 8, rejected |-> -10, blocked |-> -6, invalid |-> -12],
   breach |-> [low |-> -4, medium |-> -10, high |-> -22, critical |-> -35],
   event |-> [low |-> -4, medium |-> -10, high |-> -25, critical |-> -40]]

Outcome(id, adoption, compliant, risk) == [id |-> id, adoption |-> adoption, compliant |-> compliant, risk |-> risk]
Event(id, severity, action) == [id |-> id, severity |-> severity, action |-> action]
(* An invalid proposal of each, and a critical event about one of them.  *)
MCHistories ==
  {[p \in {lib, app} |->
      [outcomes |-> {Outcome(1, "invalid", TRUE, "low")},
       events |-> IF p = app THEN {Event(1, "critical", "none")} ELSE {}]]}
MCNewOutcomes == {Outcome(2, "invalid", FALSE, "low")}
MCNewEvents == {Event(2, "low", "none")}

MCRuntimes == {[mode |-> "federate", allowed |-> TRUE, killed |-> TRUE]}

Rec(id, lineageRoot, kind) == [id |-> id, root |-> lineageRoot, kind |-> kind]
MCDemoRecords == {Rec(1, api, evaluation), Rec(2, api, mutation)}
Offer(source, target, treaty, records, count) ==
  [source |-> source, target |-> target, treaty |-> treaty, records |-> records, count |-> count]
MCOffers ==
  { Offer(lib, app, libApp, MCDemoRecords, 2), Offer(lib, app, libApp, MCDemoRecords, 1),
    Offer(lib, app, libApp, {Rec(1, api, evaluation), Rec(2, other, mutation)}, 2),
    Offer(lib, root, libApp, MCDemoRecords, 2), Offer(root, app, rootApp, MCDemoRecords, 2) }
MCDemoOutcomes == {Outcome(1, "accepted", TRUE, "medium"), Outcome(2, "accepted", TRUE, "low"),
                   Outcome(3, "rejected", TRUE, "medium")}
MCDemoProposal == [head |-> "forge/demo", changed |-> {<<docs, top>>}]
MCDemoPaths == {<<docs>>, <<src>>}
Proposal(head, changed, allows, paths) ==
  [head |-> head, changed |-> changed, allows |-> allows, paths |-> paths]
MCProposals ==
  { Proposal("forge/topic", {<<docs, top>>}, TRUE, {<<docs>>}),
    Proposal("forge/topic", {<<docs, top>>}, FALSE, {<<docs>>}),
    Proposal("forge/topic", {<<docs, top>>, <<src>>}, TRUE, {<<docs>>}),
    Proposal("forge/topic", {<<docs, top>>, <<src>>}, TRUE, MCDemoPaths),
    Proposal("main", {<<docs, top>>}, TRUE, {<<docs>>}) }

Rival(id, kind, compliant, breach, eval, standing, risk) ==
  [id |-> id, kind |-> kind, compliant |-> compliant, breach |-> breach, eval |-> eval, lineage |-> 50,
   reputation |-> standing, risk |-> risk]
Rivals(id, kinds, evals, reputations) ==
  {Rival(id, k, c, FALSE, e, r, x) : k \in kinds, c \in BOOLEAN, e \in evals, r \in reputations,
                                     x \in {"low", "high"}}
MCArenas ==
  {[binding |-> b, margin |-> 50, candidates |-> {c, d}] :
     b \in {{}, {"live_benchmark_execution_forbidden"}},
     c \in Rivals(1, {"local"}, {60, 70}, {0, 100}) \cup {Rival(1, "local", TRUE, TRUE, 90, 90, "low")},
     d \in Rivals(2, {"peer", "species"}, {60, 80}, {50})}

MCRoutes == {[source |-> lib, target |-> app, treaty |-> libApp],
             [source |-> lib, target |-> app, treaty |-> rootApp],
             [source |-> root, target |-> lib, treaty |-> rootLib]}
MCWantSets == {{}, {"open_federation"}, {"transport"}}
=============================================================================
