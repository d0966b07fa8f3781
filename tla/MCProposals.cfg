CONSTANTS
    Sas = {1}
    Kids = {1, 2, 3}
    Retries = 3
SPECIFICATION Spec
CHECK_DEADLOCK FALSE
INVARIANTS ChoiceIsBest EndsAgree Ikev1EndsAgree
PROPERTIES RejectedOnlyIfStale 
