SPECIFICATION Spec

CONSTANTS
  r1 = r1
  r2 = r2
  Requests = {r1, r2}
  Providers = {"p1", "p2"}
  Agents = {"a1"}
  Codes = {"code"}
  Configs = {"t1"}
  Others = {"k1"}
  Main = {"main"}
  Installed = {"k1"}
  Tool <- MCTool
  Offers <- MCOffers
  MaxItems = 3
  MaxLoads = 2
  MaxKills = 2

SYMMETRY MCSymmetry

INVARIANT TypeOK
INVARIANT NextStartAccepts
PROPERTY NeverReplacesUnasked

\* The requests are used up, or a start refuses the modules.
CHECK_DEADLOCK FALSE
