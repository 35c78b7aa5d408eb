------------------------ MODULE MCOperationalState ------------------------
EXTENDS OperationalState

\* In automatic mode the enable button is pressed, in teach pendant mode it is not: a change of
\* mode brings both, and the automatic disable.
MCSafetyInputs == {<<"AUTOMATIC", "ENGAGED">>, <<"TEACH_PENDANT_1", "DISENGAGED">>}
=============================================================================
