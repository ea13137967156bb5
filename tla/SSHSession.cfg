SPECIFICATION Spec
CONSTANTS
    Sessions <- MCSessions
    Supported <- MCSupported
    Prefs <- MCPrefs
    Exchanges = 2
    Tries = 2
INVARIANTS
    KeysInStep
    AuthenticatedBoth
    SignsTheSession
    AnswersAreDue
PROPERTIES
    CallsReturn
CHECK_DEADLOCK FALSE
