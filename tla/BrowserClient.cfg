CONSTANTS
    Corpora = {c1, c2}
    NoCorpus = NoCorpus
    NoStatus = NoStatus
    MaxEvents = 3
    MaxChanges = 1
SPECIFICATION Spec
INVARIANTS TypeOK StatusOfSelection FlagsOfOneJob
PROPERTIES StatusNeverOlder ControlsUnlock
\* The page may stop: nobody needs to press a button and the bounds are finite.
CHECK_DEADLOCK FALSE
