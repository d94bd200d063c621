\* Two agents, as in a rolling update in which nothing fails; the user edits nothing.
CONSTANTS
    Agents = {a1, a2}
    UserEdits = {}
    MaxEdits = 2
SPECIFICATION Spec
ACTION_CONSTRAINT NothingFails
INVARIANTS
    RunningIsPatched
