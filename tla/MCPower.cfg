SPECIFICATION Spec
CONSTANT Uses <- BothUses
INVARIANTS PowerOffSafe WakeRecorded
PROPERTIES ResetServed AlwaysRests
