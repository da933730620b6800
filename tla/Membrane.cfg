CONSTANTS
    SESSION_INIT_BP = 100
    MaxSessionRiskBp = 4120
    U32 = 10120
    Conns = {c1, c2, c3}
    c1 = c1
    c2 = c2
    c3 = c3
    max_agents = 2
    quota_limit = 2
    LastMonth = 2
    MaxEvals = 3
    Proposals <- MCProposals
SPECIFICATION Spec
INVARIANTS TypeOK BudgetIsExact RefusalsStand NoticeFiresOnce QuotaNoticePerMonth TighteningNeverUnlocks
SYMMETRY AnyConn
CHECK_DEADLOCK FALSE
