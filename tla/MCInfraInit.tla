------------------------------ MODULE MCInfraInit ------------------------------
EXTENDS InfraInit
=============================================================================
