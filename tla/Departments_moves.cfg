CONSTANTS
    Units = {u1, u2, u3}
    Requests = {r1, r2}
    MaxMove = 6
    None = None
SPECIFICATION Spec
INVARIANT DepartmentsFormAForest
CHECK_DEADLOCK FALSE
