------------------------------- MODULE MCText -------------------------------
EXTENDS TemplateCalls, TemplateSources, Deployment

Next == RenderNext \/ SourceNext \/ BorderNext \/ Return
Spec == Init /\ [][Next]_call
=============================================================================
