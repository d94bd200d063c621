\* Two agents and a user who edits everything.
CONSTANTS
    Agents = {a1, a2}
    UserEdits = {"extra", "address"}
    MaxEdits = 2
SPECIFICATION Spec
SYMMETRY AgentSymmetry
INVARIANTS
    TypeOK
    EnteredOnce
    AloneIsPatched
PROPERTIES
    UnpatchLeavesNoTrace
