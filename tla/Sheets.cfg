SPECIFICATION Spec
CONSTANTS
    long = long
    short = short
    Exports = {long, short}
    Books = {shared, b1, b2}
    Shared = {shared}
    Titles = {"results", "skipped"}
    RowCount <- MCRowCount
    MaxRows = 3
    MaxRetries = 1
    MaxLate = 1
    Earlier = Earlier
    None = None
INVARIANTS UndisturbedExportsAreComplete RowsOnlyWhereReported
PROPERTY ExportsEnd
CHECK_DEADLOCK FALSE
