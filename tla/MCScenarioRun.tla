--------------------------- MODULE MCScenarioRun ---------------------------
\* Two scenarios of different policy: "session" logs in, uses the captured
\* token and logs out, and gives up on a failure; "browse" goes on after a
\* failure and captures a cart that its second step needs.
EXTENDS ScenarioRun

CONSTANTS token, cart

MCKeys == {token, cart}

StepDef(refs, gives, template) == [refs |-> refs, gives |-> gives, template |-> template]

Session ==
    [weight |-> 1, abort |-> TRUE,
     steps |-> <<StepDef({}, {token}, FALSE), StepDef({token}, {}, TRUE),
                 StepDef({token}, {}, FALSE)>>]

Browse ==
    [weight |-> 1, abort |-> FALSE,
     steps |-> <<StepDef({}, {cart}, TRUE), StepDef({cart}, {}, FALSE)>>]

MCScenarios == <<Session, Browse>>
=============================================================================
