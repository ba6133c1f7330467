SPECIFICATION Spec
CONSTANTS
    Requests = {r1, r2}
    Kinds <- MCKinds
    Entries = {e1, e2}
    None = None
    Setups <- MCSetups
    Statuses = {404}
SYMMETRY Sym
INVARIANTS
    EntryExclusive
    EntriesReturned
    PanicsEndWhereTheyShould
    RecordMatchesResponse
    OneRecordPerRequest
    CountsAgree
CHECK_DEADLOCK FALSE
