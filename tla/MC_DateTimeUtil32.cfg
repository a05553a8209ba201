CONSTANT Times <- TimesBefore1970
SPECIFICATION Spec
INVARIANT SignedReadingOfPre1970
