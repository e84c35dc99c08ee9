----------------------------- MODULE MCPressure -----------------------------
EXTENDS Pressure

TwoSlices == <<"ci", "brain">>
=============================================================================
