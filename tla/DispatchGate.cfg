\* Every command on both platforms, both roles and callers; requests filled in
\* for either platform or empty, with up to two parameters different.
CONSTANT MaxFaults = 2
SPECIFICATION Spec
\* A dispatch ends.
CHECK_DEADLOCK FALSE
INVARIANTS TypeOK RefusedMeansUntouched GuestStaysOut RelayConfined NoBadValueRuns
PROPERTIES ReportsConclude
