CONSTANTS
    p1 = p1
    p2 = p2
    p3 = p3
    People = {p1, p2, p3}
    Seated = {p1, p2}
    Points = {1, 2}
    NoScore = none
    Sheets <- WholeSheets
    Requests = {r1}
    MaxFailures = 1
SPECIFICATION Spec
PROPERTY TableHoldsOneSheet
