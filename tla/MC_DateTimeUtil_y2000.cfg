CONSTANT Times <- TimesFrom1970
SPECIFICATION Spec
INVARIANT Year2000Boundary
