-------------------------- MODULE MCGatewayAdmission --------------------------
EXTENDS GatewayAdmission, TLC

ThreeSessions == 1 .. 3
Habits == {{}, {"late"}}
===============================================================================
