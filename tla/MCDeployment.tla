---------------------------- MODULE MCDeployment ----------------------------
EXTENDS Deployment
MCDeployAttempts == 1..2
=============================================================================
