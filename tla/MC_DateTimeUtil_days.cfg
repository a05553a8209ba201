CONSTANT Times <- TimesFrom1970
SPECIFICATION Spec
INVARIANT ElapsedDaysCounts
