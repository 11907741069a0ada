SPECIFICATION Spec
CONSTANTS
    Tokens = {t1, t2}
    NoToken = NoToken
PROPERTIES ConfirmedSurvives MarkedTrialEnds
