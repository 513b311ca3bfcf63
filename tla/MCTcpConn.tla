----------------------------- MODULE MCTcpConn -----------------------------
EXTENDS TcpConn
=============================================================================
