SPECIFICATION Spec
CONSTANTS
    Profiles <- MCProfiles
    MaxMail = 4
    MaxRestored = 2
INVARIANTS
    MailAccounted
    RecordsAreTrue
    FollowUpInOrder
PROPERTIES
    Settles
\* An agent is over once its result is sealed.
CHECK_DEADLOCK FALSE
