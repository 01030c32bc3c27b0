------------------------------ MODULE MCHttpSrv ------------------------------
EXTENDS HttpSrv, TLC

CONSTANTS r1, r2, u1, u2

MCRoutes == {r1, r2}
MCUserMws == {u1, u2}
=============================================================================
