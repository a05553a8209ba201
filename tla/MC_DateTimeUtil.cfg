CONSTANT Times <- TimesFrom1970
SPECIFICATION Spec
INVARIANT TimeOfDaySplits
INVARIANT WeekdayMatchesCalendar
