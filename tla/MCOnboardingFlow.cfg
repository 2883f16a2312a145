CONSTANT Idle = 3
SPECIFICATION FairFlowSpec
INVARIANTS FlowTypeOK ShownPageIsTimed
PROPERTY SettlesWhenQuiet
