SPECIFICATION FairSpec
CONSTANTS
  root = root
  lib = lib
  app = app
  rootLib = rootLib
  rootApp = rootApp
  libApp = libApp
  api = api
  other = other
  evaluation = evaluation
  mutation = mutation
  docs = docs
  src = src
  top = top
  None = None
  Invalid = Invalid
  Weights <- MCWeights
  BaseInterval = 1
  JitterMax = 1
  MaxPeersPerSync = 1
  MaxSyncsPerWindow = 2
  WindowLength = 2
  DemoRecords <- MCDemoRecords
  DemoOutcomes <- MCDemoOutcomes
  DemoProposal <- MCDemoProposal
  DemoPaths <- MCDemoPaths
  Peers <- MCPeers
  Local = root
  Place <- MCPlace
  Links <- MCLinks
  Terms <- MCTerms
  PeerStatuses = {"active", "quarantined", "suspended"}
  TreatyStates = {"active", "suspended"}
  Runtimes <- MCRuntimes
  Histories <- MCHistories
  NewOutcomes <- MCNewOutcomes
  NewEvents <- MCNewEvents
  Offers <- MCOffers
  Proposals <- MCProposals
  Arenas <- MCArenas
  Routes <- MCRoutes
  WantSets <- MCWantSets
  Duties = {"sync", "propose", "demonstrate", "compare"}
  MaxChanges = 2
INVARIANTS GatesAgree RefusalsAreShown
PROPERTIES SyncsAreSpaced WorseHistoryNeverLooksBetter FirstInLineSyncs
