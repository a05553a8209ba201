CONSTANTS
  MaxGotIP <- MC_MaxGotIP

SPECIFICATION Spec


PROPERTY SyncedWhenStable
