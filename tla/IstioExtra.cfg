\* One agent and edits of the fields it does not know.
CONSTANTS
    Agents = {a1}
    UserEdits = {"extra"}
    MaxEdits = 2
SPECIFICATION Spec
INVARIANTS
    ExtraFieldsUntouched
