\* The variables' values are the module's, and a tick is thirty seconds; one
\* number may be set, the others have their default.
SPECIFICATION Spec
CONSTANT MostSet = 1
INVARIANTS SoundStart BoundedUse
PROPERTY Exits
\* A process exits.
CHECK_DEADLOCK FALSE
