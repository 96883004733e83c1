SPECIFICATION MCSpec
CONSTANTS
    e = e
    m1 = m1
    m2 = m2
    it = it
    sm = sm
    Users = {e, m1, it, sm}
    Employee = e
    Supervisors = {m1}
    ItAdmins = {it}
    ScopedManagers = {sm}
    MaxDay = 2
    Percentages = {50, 100}
    v1 = v1
    v2 = v2
    Details = {v1}
    TypedStatuses = {"completed"}
    TypedManagers = {sm}
    TypedRevisions = {1}
    MaxRevision = 3
    None = None
    Readers = {q1}
    Reported = {50, 100}
    Plans <- SmallPlans
    Holiday = {2}
    LastDate = 3
    MaxWrites = 0
    q1 = q1
    q2 = q2
    Absent = Absent
INVARIANT AwaitingHasReviewer
